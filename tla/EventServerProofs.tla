-------------------------- MODULE EventServerProofs --------------------------
(* Safety of EventServer for any number of threads, descriptors,           *)
(* connections and heap blocks, with and without SSL.                      *)
EXTENDS EventServer, TLAPS

(* What the local variables of a callback hold at each of its steps.  A    *)
(* worker holds a handler exactly between taking it, from the map or the   *)
(* pool, and giving it back.                                               *)
CallbackLocals ==
  \A t \in Threads :
    /\ pc[t] = "accept" => cb[t].fd \in Fds
    /\ InCallback(t) => cb[t].fd \in Fds /\ cb[t].ctx \in Ctxs /\ cb[t].peer \in Conns
    /\ InCallback(t) /\ pc[t] # "recv" => from[t] \in Conns
    /\ Held(t) <=> pc[t] \in {"insert", "finish"}

(* The inductive invariant.  The type of a new context rests on the        *)
(* descriptor being open (DescriptorOwnership), the ownership of handlers  *)
(* on the callbacks' locals; so the four parts are proved together.        *)
IndInv == TypeOK /\ CallbackLocals /\ HandlerOwnership /\ DescriptorOwnership

USE ThreadAssumption, FdAssumption, BoundAssumption, SSLAssumption, NoneAssumption, Zenon
USE DEF Threads, Keys, NoFd, Ages, Labels, network, locals, vars

-----------------------------------------------------------------------------
(* Facts about the helpers                                                 *)

(* The fields of an allocated context.                                     *)
LEMMA CtxFields ==
  ASSUME TypeOK, NEW c \in LiveCtxs
  PROVE  /\ c \in Ctxs /\ ctx[c] # None
         /\ ctx[c].sock \in Fds /\ ctx[c].base \in Threads /\ ctx[c].peer \in Conns
BY DEF TypeOK, LiveCtxs, CtxType

(* PushTask's index names a thread.                                        *)
LEMMA IndexIsThread ==
  ASSUME NEW f \in Fds PROVE Index(f) \in Threads
BY SMT DEF Index

(* A callback that returns leaves well-typed locals behind.                *)
LEMMA ReturnTypes ==
  ASSUME TypeOK, NEW t \in Threads, Return(t)
  PROVE  /\ pc' \in [Threads -> Labels]
         /\ cb' \in [Threads -> CallType]
         /\ from' \in [Threads -> Conns \cup {None}]
         /\ sockfd' \in [Threads -> Keys]
         /\ pObj' \in [Threads -> Objs \cup {None}]
BY DEF TypeOK, Return, Goto, NoCall, CallType

(* The arguments of a callback, read off its record.                       *)
LEMMA CallFields ==
  ASSUME TypeOK, NEW t \in Threads
  PROVE  cb[t].fd \in Keys /\ cb[t].ctx \in Ctxs \cup {None} /\ cb[t].peer \in Conns \cup {None}
BY DEF TypeOK, CallType

(* Whatever HandleRequest reads as the descriptor is a key of the map.     *)
LEMMA SockReadKeys ==
  ASSUME TypeOK, NEW t \in Threads PROVE SockRead(t) \subseteq Keys
BY CtxFields, CallFields, SMT DEF SockRead

(* What NormalRecv reads comes from a connection.                          *)
LEMMA RecvPeer ==
  ASSUME TypeOK, CallbackLocals, NEW t \in Threads, RecvData(t)
  PROVE  sockOf[cb[t].fd] \in Conns
BY DEF RecvData, CallbackLocals, InCallback, TypeOK

(* Deleting contexts keeps the heap and the kernel's table well typed.     *)
LEMMA DeleteTypes ==
  ASSUME TypeOK, NEW C, DeleteCtxs(C)
  PROVE  ctx' \in [Ctxs -> CtxType \cup {None}] /\ sockOf' \in [Fds -> Conns \cup {None}]
BY DEF TypeOK, DeleteCtxs

-----------------------------------------------------------------------------
(* Types                                                                   *)

(* A step of a worker or of anything else leaves the types intact.         *)
LEMMA TypeStep ==
  ASSUME IndInv, [Next]_vars PROVE TypeOK'
<1>0. TypeOK /\ CallbackLocals /\ DescriptorOwnership
  BY DEF IndInv
<1>1. ASSUME NEW k \in Conns, DoAccept(k) PROVE TypeOK'
  <2> USE <1>0, <1>1 DEF TypeOK, DoAccept
  <2>1. sockOf' \in [Fds -> Conns \cup {None}] /\ accepted' \in Keys
    OBVIOUS
  <2>2. waiting' \subseteq Conns
    OBVIOUS
  <2>3. pc' = pc /\ cb' = cb /\ from' = from /\ sockfd' = sockfd /\ pObj' = pObj
    OBVIOUS
  <2> QED
    BY <2>1, <2>2, <2>3, SMTT(60)
<1>2. CASE PushTask
  <2>1. accepted \in Fds
    BY <1>0, <1>2 DEF TypeOK, PushTask
  <2>2. pipe' \in [Threads -> Seq(Fds)]
    BY <1>0, <1>2, <2>1, IndexIsThread, SMT DEF TypeOK, PushTask
  <2> QED
    BY <1>0, <1>2, <2>2, SMTT(60) DEF TypeOK, PushTask
<1>3. ASSUME NEW t \in Threads, PipeReadCallBack(t) PROVE TypeOK'
  BY <1>0, <1>3, SMTT(60) DEF TypeOK, PipeReadCallBack, Goto, CallType
<1>4. ASSUME NEW t \in Threads, CreateSSLFails(t) PROVE TypeOK'
  BY <1>0, <1>4, ReturnTypes DEF TypeOK, CreateSSLFails
<1>5. ASSUME NEW t \in Threads, OnPipeReadCallback(t) PROVE TypeOK'
  <2>0. pc[t] = "accept" /\ cb[t].fd \in Fds
    BY <1>0, <1>5 DEF OnPipeReadCallback, CallbackLocals
  <2>1. sockOf[cb[t].fd] \in Conns /\ cb[t].fd \in Fds
    <3>1. Registering(cb[t].fd, t)
      BY <2>0 DEF Registering
    <3>2. sockOf[cb[t].fd] # None
      BY <1>0, <2>0, <3>1 DEF DescriptorOwnership, QueuedOpen, QueuedOnce, ContextOwnsSocket
    <3> QED
      BY <1>0, <2>0, <3>2 DEF TypeOK
  <2>2. ctx' \in [Ctxs -> CtxType \cup {None}]
    BY <1>0, <1>5, <2>1, SMT DEF OnPipeReadCallback, CtxType, TypeOK
  <2> QED
    BY <1>0, <1>5, <2>2, ReturnTypes DEF TypeOK, OnPipeReadCallback
<1>6. ASSUME NEW t \in Threads, NEW c \in Ctxs, EventCallBack(t, c) PROVE TypeOK'
  <2>1. cb' \in [Threads -> CallType]
    BY <1>0, <1>6, CtxFields DEF EventCallBack, CallType, TypeOK
  <2> QED
    BY <1>0, <1>6, <2>1, SMTT(60) DEF TypeOK, EventCallBack, Goto
<1>7. ASSUME NEW t \in Threads, RecvOnFreedSsl(t) PROVE TypeOK'
  BY <1>0, <1>7 DEF TypeOK, RecvOnFreedSsl, Abort
<1>8. ASSUME NEW t \in Threads, RecvData(t) PROVE TypeOK'
  <2>1. sockOf[cb[t].fd] \in Conns
    BY <1>0, <1>8, RecvPeer
  <2>2. from' \in [Threads -> Conns \cup {None}]
    BY <1>0, <1>8, <2>1 DEF RecvData, TypeOK
  <2> QED
    BY <1>0, <1>8, <2>2, SMTT(60) DEF TypeOK, RecvData, Goto
<1>9. ASSUME NEW t \in Threads, RecvNothing(t) PROVE TypeOK'
  <2>1. CASE Abort
    BY <1>0, <1>9, <2>1 DEF TypeOK, RecvNothing, Abort
  <2>2. CASE ~Abort
    <3>1. DeleteCtxs({cb[t].ctx}) /\ Return(t) /\ UNCHANGED <<up, obj, idle, reqMap>>
      BY <1>9, <2>2 DEF RecvNothing
    <3>2. UNCHANGED <<waiting, accepted, pipe>>
      BY <3>1 DEF DeleteCtxs
    <3> QED
      BY <1>0, <3>1, <3>2, ReturnTypes, DeleteTypes DEF TypeOK
  <2> QED
    BY <2>1, <2>2
<1>10. ASSUME NEW t \in Threads, HandleFound(t) PROVE TypeOK'
  <2>1. PICK key \in SockRead(t) :
          /\ reqMap[key] # None
          /\ idle' = [idle EXCEPT ![reqMap[key]] = 0]
          /\ \/ Return(t) /\ UNCHANGED reqMap
             \/ /\ Goto(t, "finish")
                /\ pObj' = [pObj EXCEPT ![t] = reqMap[key]]
                /\ reqMap' = [reqMap EXCEPT ![key] = None]
                /\ UNCHANGED <<cb, from, sockfd>>
    BY <1>10 DEF HandleFound
  <2>2. key \in Keys /\ reqMap[key] \in Objs
    BY <1>0, <2>1, SockReadKeys DEF TypeOK
  <2>a. idle' \in [Objs -> Ages]
    <3>1. idle' = [idle EXCEPT ![reqMap[key]] = 0] /\ idle \in [Objs -> Ages]
      BY <1>0, <2>1 DEF TypeOK
    <3>2. 0 \in Ages
      BY BoundAssumption, SMT DEF Ages
    <3> QED
      BY <2>2, <3>1, <3>2
  <2>b. reqMap' \in [Keys -> Objs \cup {None}]
    <3>1. /\ reqMap' = reqMap \/ reqMap' = [reqMap EXCEPT ![key] = None]
          /\ reqMap \in [Keys -> Objs \cup {None}]
      BY <1>0, <2>1 DEF TypeOK
    <3> QED
      BY <2>2, <3>1
  <2>3. idle' \in [Objs -> Ages] /\ reqMap' \in [Keys -> Objs \cup {None}]
    BY <2>a, <2>b
  <2>4. UNCHANGED <<up, network, ctx, obj>>
    BY <1>10 DEF HandleFound
  <2>5. CASE Return(t)
    BY <1>0, <2>3, <2>4, <2>5, ReturnTypes DEF TypeOK
  <2>6. CASE ~Return(t)
    BY <1>0, <2>1, <2>2, <2>3, <2>4, <2>6 DEF TypeOK, Goto
  <2> QED
    BY <2>5, <2>6
<1>11. ASSUME NEW t \in Threads, HandleNotFound(t) PROVE TypeOK'
  <2>1. PICK key \in SockRead(t) : sockfd' = [sockfd EXCEPT ![t] = key]
    BY <1>11 DEF HandleNotFound
  <2>2. key \in Keys
    BY <1>0, <2>1, SockReadKeys
  <2>3. sockfd' \in [Threads -> Keys]
    BY <1>0, <2>1, <2>2 DEF TypeOK
  <2>4. pc' \in [Threads -> Labels]
    BY <1>0, <1>11 DEF TypeOK, HandleNotFound, Goto
  <2> QED
    BY <1>0, <1>11, <2>3, <2>4 DEF TypeOK, HandleNotFound
<1>12. ASSUME NEW t \in Threads, CreateHandler(t) PROVE TypeOK'
  <2>1. cb[t].ctx \in Ctxs /\ from[t] \in Conns
    BY <1>0, <1>12 DEF CreateHandler, CallbackLocals, InCallback
  <2>2. obj' \in [Objs -> ObjType \cup {None}] /\ idle' \in [Objs -> Ages]
    BY <1>0, <1>12, <2>1, SMT DEF CreateHandler, ObjType, TypeOK
  <2>3. pObj' \in [Threads -> Objs \cup {None}]
    BY <1>0, <1>12 DEF CreateHandler, TypeOK
  <2>4. pc' \in [Threads -> Labels]
    <3>1. Goto(t, "insert") \/ Goto(t, "finish")
      BY <1>12 DEF CreateHandler
    <3> QED
      BY <1>0, <3>1, SMTT(60) DEF Goto, TypeOK
  <2> QED
    BY <1>0, <1>12, <2>2, <2>3, <2>4, SMTT(60) DEF TypeOK, CreateHandler
<1>13. ASSUME NEW t \in Threads, InsertHandler(t) PROVE TypeOK'
  BY <1>0, <1>13, ReturnTypes DEF TypeOK, InsertHandler
<1>14. ASSUME NEW t \in Threads, CheckDataThrows(t) \/ SendToClosedPeer(t) PROVE TypeOK'
  BY <1>0, <1>14 DEF TypeOK, CheckDataThrows, SendToClosedPeer, Abort
<1>15. ASSUME NEW t \in Threads, FinishRequest(t) PROVE TypeOK'
  BY <1>0, <1>15 DEF TypeOK, FinishRequest, Goto
<1>16. ASSUME NEW t \in Threads, SendReply(t) PROVE TypeOK'
  <2>1. CASE Abort
    BY <1>0, <2>1 DEF TypeOK, Abort
  <2>2. CASE ~Abort
    BY <1>0, <1>16, <2>2, ReturnTypes DEF TypeOK, SendReply
  <2> QED
    BY <2>1, <2>2
<1>17. ASSUME NEW t \in Threads, OnCheckActiveTime(t) PROVE TypeOK'
  <2>1. CASE Abort
    BY <1>0, <2>1 DEF TypeOK, Abort
  <2>2. CASE ~Abort
    <3>1. /\ DeleteCtxs(ExpiredCtxs)
          /\ obj' = [o \in Objs |-> IF \E f \in Expired : reqMap[f] = o THEN None ELSE obj[o]]
          /\ reqMap' = [f \in Keys |-> IF f \in Expired THEN None ELSE reqMap[f]]
          /\ UNCHANGED <<up, idle, locals>>
      BY <1>17, <2>2 DEF OnCheckActiveTime
    <3>2. UNCHANGED <<waiting, accepted, pipe>>
      BY <3>1 DEF DeleteCtxs
    <3>3. obj' \in [Objs -> ObjType \cup {None}] /\ reqMap' \in [Keys -> Objs \cup {None}]
      BY <1>0, <3>1 DEF TypeOK
    <3> QED
      BY <1>0, <3>1, <3>2, <3>3, DeleteTypes DEF TypeOK
  <2> QED
    BY <2>1, <2>2
<1>18. CASE Tick
  BY <1>0, <1>18, SMT DEF TypeOK, Tick, Older
<1>19. CASE UNCHANGED vars
  BY <1>0, <1>19, SMTT(60) DEF TypeOK
<1> QED
  BY <1>1, <1>2, <1>3, <1>4, <1>5, <1>6, <1>7, <1>8, <1>9, <1>10, <1>11, <1>12, <1>13,
     <1>14, <1>15, <1>16, <1>17, <1>18, <1>19 DEF Next, Worker

-----------------------------------------------------------------------------
(* Locals of a callback                                                    *)

(* Each callback step leaves its thread's locals as its label demands, and *)
(* the other threads' alone.                                               *)
LEMMA LocalsStep ==
  ASSUME IndInv, [Next]_vars PROVE CallbackLocals'
<1>0. TypeOK /\ CallbackLocals
  BY DEF IndInv
<1> USE DEF CallbackLocals, InCallback, Held
<1>1. CASE UNCHANGED locals
  BY <1>0, <1>1
<1>2. ASSUME NEW t \in Threads, Return(t) PROVE CallbackLocals'
  BY <1>0, <1>2 DEF TypeOK, Return, Goto
<1>3. ASSUME NEW t \in Threads, PipeReadCallBack(t) PROVE CallbackLocals'
  <2>1. Head(pipe[t]) \in Fds
    BY <1>0, <1>3, SMT DEF TypeOK, PipeReadCallBack
  <2> QED
    BY <1>0, <1>3, <2>1 DEF TypeOK, PipeReadCallBack, Goto
<1>4. ASSUME NEW t \in Threads, NEW c \in Ctxs, EventCallBack(t, c) PROVE CallbackLocals'
  BY <1>0, <1>4, CtxFields, SMTT(60) DEF TypeOK, EventCallBack, Goto
<1>5. ASSUME NEW t \in Threads, RecvData(t) PROVE CallbackLocals'
  <2>1. sockOf[cb[t].fd] \in Conns
    BY <1>0, <1>5, RecvPeer
  <2>2. /\ pc[t] = "recv" /\ UNCHANGED <<cb, sockfd, pObj>>
        /\ \A u \in Threads : pc'[u] = IF u = t THEN "handle" ELSE pc[u]
    BY <1>0, <1>5 DEF TypeOK, RecvData, Goto
  <2>3. \A u \in Threads : from'[u] = IF u = t THEN sockOf[cb[t].fd] ELSE from[u]
    BY <1>0, <1>5 DEF TypeOK, RecvData
  <2> QED
    BY <1>0, <2>1, <2>2, <2>3
<1>6. ASSUME NEW t \in Threads, HandleFound(t) PROVE CallbackLocals'
  <2>1. CASE Return(t)
    BY <1>2, <2>1
  <2>2. CASE ~Return(t)
    <3>1. PICK key \in SockRead(t) : reqMap[key] # None /\ pObj' = [pObj EXCEPT ![t] = reqMap[key]]
      BY <1>6, <2>2 DEF HandleFound
    <3>2. Goto(t, "finish") /\ UNCHANGED <<cb, from, sockfd>> /\ pc[t] = "handle"
      BY <1>6, <2>2 DEF HandleFound
    <3> QED
      BY <1>0, <3>1, <3>2 DEF TypeOK, Goto
  <2> QED
    BY <2>1, <2>2
<1>7. ASSUME NEW t \in Threads, HandleNotFound(t) PROVE CallbackLocals'
  BY <1>0, <1>7 DEF TypeOK, HandleNotFound, Goto
<1>8. ASSUME NEW t \in Threads, CreateHandler(t) PROVE CallbackLocals'
  <2>1. PICK label \in {"insert", "finish"} : Goto(t, label)
    BY <1>8 DEF CreateHandler
  <2>2. PICK o \in Objs : pObj' = [pObj EXCEPT ![t] = o]
    BY <1>8 DEF CreateHandler
  <2>3. UNCHANGED <<cb, from, sockfd>> /\ pc[t] = "create"
    BY <1>8 DEF CreateHandler
  <2> QED
    BY <1>0, <2>1, <2>2, <2>3 DEF TypeOK, Goto
<1>9. ASSUME NEW t \in Threads, FinishRequest(t) PROVE CallbackLocals'
  BY <1>0, <1>9 DEF TypeOK, FinishRequest, Goto
<1>10. ASSUME Abort PROVE UNCHANGED locals
  BY <1>10 DEF Abort
<1>11. ASSUME NEW t \in Threads, RecvNothing(t) \/ SendReply(t) PROVE CallbackLocals'
  BY <1>1, <1>2, <1>10, <1>11 DEF RecvNothing, SendReply
<1>12. ASSUME NEW t \in Threads, OnCheckActiveTime(t) PROVE UNCHANGED locals
  BY <1>10, <1>12 DEF OnCheckActiveTime
<1> QED
  BY <1>1, <1>2, <1>3, <1>4, <1>5, <1>6, <1>7, <1>8, <1>9, <1>10, <1>11, <1>12
     DEF Next, Worker, DoAccept, PushTask, Tick, CreateSSLFails, OnPipeReadCallback,
         RecvOnFreedSsl, InsertHandler, CheckDataThrows, SendToClosedPeer

-----------------------------------------------------------------------------
(* Handlers                                                                *)

(* Only the map, the handler blocks and the workers' pObj matter.          *)
LEMMA HandlerFrame ==
  ASSUME HandlerOwnership, UNCHANGED <<obj, reqMap, pObj>> PROVE HandlerOwnership'
BY DEF HandlerOwnership, MapSound, HeldExclusive, Held

(* A worker that lets go of a handler disturbs no one.                     *)
LEMMA HandlerReturn ==
  ASSUME TypeOK, HandlerOwnership, NEW t \in Threads, Return(t), UNCHANGED <<obj, reqMap>>
  PROVE  HandlerOwnership'
BY DEF TypeOK, HandlerOwnership, MapSound, HeldExclusive, Held, Return

(* Handlers stay exclusively owned.                                        *)
LEMMA HandlerStep ==
  ASSUME IndInv, [Next]_vars PROVE HandlerOwnership'
<1>0. TypeOK /\ CallbackLocals /\ HandlerOwnership
  BY DEF IndInv
<1>1. CASE UNCHANGED <<obj, reqMap, pObj>>
  BY <1>0, <1>1, HandlerFrame
<1>2. ASSUME NEW t \in Threads, Return(t), UNCHANGED <<obj, reqMap>> PROVE HandlerOwnership'
  BY <1>0, <1>2, HandlerReturn
<1>3. ASSUME NEW t \in Threads, HandleFound(t) PROVE HandlerOwnership'
  <2>1. PICK key \in SockRead(t) :
          /\ reqMap[key] # None
          /\ \/ Return(t) /\ UNCHANGED reqMap
             \/ /\ pObj' = [pObj EXCEPT ![t] = reqMap[key]]
                /\ reqMap' = [reqMap EXCEPT ![key] = None]
    BY <1>3 DEF HandleFound
  <2>2. key \in Keys /\ obj' = obj
    BY <1>0, <1>3, SockReadKeys DEF HandleFound
  <2>3. CASE Return(t) /\ UNCHANGED reqMap
    BY <1>2, <2>2, <2>3
  <2>4. CASE /\ pObj' = [pObj EXCEPT ![t] = reqMap[key]]
             /\ reqMap' = [reqMap EXCEPT ![key] = None]
    <3>1. \A f \in Keys : reqMap'[f] = IF f = key THEN None ELSE reqMap[f]
      BY <1>0, <2>2, <2>4 DEF TypeOK
    <3>2. \A u \in Threads : pObj'[u] = IF u = t THEN reqMap[key] ELSE pObj[u]
      BY <1>0, <2>4 DEF TypeOK
    <3>3. MapSound'
      BY <1>0, <2>2, <3>1 DEF HandlerOwnership, MapSound
    <3>4. HeldExclusive'
      <4>1. MapSound /\ HeldExclusive
        BY <1>0 DEF HandlerOwnership
      <4>2. ASSUME NEW u \in Threads, u # t, pObj[u] # None
            PROVE  pObj[u] # reqMap[key] /\ obj[pObj[u]] # None
        BY <2>2, <4>1, <4>2 DEF HeldExclusive, Held
      <4>3. \A u \in Threads : pObj'[u] # None =>
              obj[pObj'[u]] # None /\ \A f \in Keys : reqMap'[f] # pObj'[u]
        <5>1. obj[reqMap[key]] # None /\ \A f \in Keys : reqMap'[f] # reqMap[key]
          BY <2>1, <2>2, <3>1, <4>1 DEF MapSound
        <5>2. \A u \in Threads : u # t /\ pObj[u] # None => \A f \in Keys : reqMap'[f] # pObj[u]
          BY <3>1, <4>1 DEF HeldExclusive, Held
        <5> QED
          BY <3>2, <4>2, <5>1, <5>2
      <4>4. \A u, v \in Threads : pObj'[u] # None /\ pObj'[v] = pObj'[u] => v = u
        BY <2>1, <3>2, <4>1, <4>2 DEF HeldExclusive, Held
      <4> QED
        BY <2>2, <4>3, <4>4 DEF HeldExclusive, Held
    <3> QED
      BY <3>3, <3>4 DEF HandlerOwnership
  <2> QED
    BY <2>1, <2>3, <2>4
<1>4. ASSUME NEW t \in Threads, CreateHandler(t) PROVE HandlerOwnership'
  <2>1. PICK o \in Objs \ LiveObjs :
          /\ obj' = [obj EXCEPT ![o] = [arg |-> cb[t].ctx, peer |-> from[t]]]
          /\ pObj' = [pObj EXCEPT ![t] = o]
    BY <1>4 DEF CreateHandler
  <2>2. reqMap' = reqMap /\ obj[o] = None /\ obj'[o] # None
    <3>1. [arg |-> cb[t].ctx, peer |-> from[t]] \in ObjType
      BY <1>0, <1>4 DEF CreateHandler, CallbackLocals, InCallback, ObjType
    <3> QED
      BY <1>0, <1>4, <2>1, <3>1 DEF CreateHandler, LiveObjs, TypeOK
  <2>3. \A p \in Objs : p # o => obj'[p] = obj[p]
    BY <1>0, <2>1 DEF TypeOK
  <2> QED
    BY <1>0, <2>1, <2>2, <2>3, SMTT(60) DEF TypeOK, HandlerOwnership, MapSound, HeldExclusive, Held
<1>5. ASSUME NEW t \in Threads, InsertHandler(t) PROVE HandlerOwnership'
  <2>1. Held(t) /\ pObj[t] \in Objs /\ sockfd[t] \in Keys
    BY <1>0, <1>5 DEF InsertHandler, CallbackLocals, Held, TypeOK
  <2> QED
    BY <1>0, <1>5, <2>1, SMTT(60) DEF TypeOK, InsertHandler, Return, HandlerOwnership, MapSound, HeldExclusive, Held
<1>6. ASSUME NEW t \in Threads, FinishRequest(t) PROVE HandlerOwnership'
  <2>1. Held(t) /\ pObj[t] \in Objs
    BY <1>0, <1>6 DEF FinishRequest, CallbackLocals, Held, TypeOK
  <2> QED
    BY <1>0, <1>6, <2>1, SMTT(60) DEF TypeOK, FinishRequest, HandlerOwnership, MapSound, HeldExclusive, Held
<1>7. ASSUME NEW t \in Threads, OnCheckActiveTime(t) PROVE HandlerOwnership'
  <2>1. CASE Abort
    BY <1>1, <2>1 DEF Abort
  <2>2. CASE ~Abort
    <3>1. /\ obj' = [o \in Objs |-> IF \E f \in Expired : reqMap[f] = o THEN None ELSE obj[o]]
          /\ reqMap' = [f \in Keys |-> IF f \in Expired THEN None ELSE reqMap[f]]
          /\ pObj' = pObj
      BY <1>7, <2>2 DEF OnCheckActiveTime
    <3>2. \A f \in Keys : f \notin Expired /\ reqMap[f] # None =>
            /\ reqMap'[f] = reqMap[f]
            /\ obj'[reqMap[f]] = obj[reqMap[f]]
      BY <1>0, <3>1 DEF TypeOK, HandlerOwnership, MapSound, HeldExclusive, Expired
    <3>3. \A u \in Threads : Held(u) => obj'[pObj[u]] = obj[pObj[u]]
      BY <1>0, <3>1 DEF TypeOK, HandlerOwnership, MapSound, HeldExclusive, Held, Expired
    <3>4. \A f \in Keys : reqMap'[f] = IF f \in Expired THEN None ELSE reqMap[f]
      BY <3>1
    <3>5. MapSound'
      <4>1. \A f \in Keys : reqMap'[f] # None => f \notin Expired /\ reqMap'[f] = reqMap[f]
        BY <3>4
      <4>2. MapSound
        BY <1>0 DEF HandlerOwnership
      <4> QED
        BY <3>2, <4>1, <4>2 DEF MapSound
    <3>6. HeldExclusive'
      BY <1>0, <3>1, <3>3, <3>4, SMTT(60) DEF HandlerOwnership, HeldExclusive, Held
    <3> QED
      BY <3>5, <3>6 DEF HandlerOwnership
  <2> QED
    BY <2>1, <2>2
<1>8. ASSUME NEW t \in Threads, RecvNothing(t) \/ SendReply(t) PROVE HandlerOwnership'
  BY <1>1, <1>2, <1>8 DEF RecvNothing, SendReply, Abort
<1> QED
  BY <1>1, <1>2, <1>3, <1>4, <1>5, <1>6, <1>7, <1>8
     DEF Next, Worker, DoAccept, PushTask, Tick, PipeReadCallBack, CreateSSLFails,
         OnPipeReadCallback, EventCallBack, RecvOnFreedSsl, RecvData, HandleNotFound,
         CheckDataThrows, SendToClosedPeer, Abort

-----------------------------------------------------------------------------
(* Descriptors                                                             *)

(* A step that touches neither the kernel's table, the pipes nor the       *)
(* contexts, and starts no registration.                                   *)
LEMMA DescriptorFrame ==
  ASSUME DescriptorOwnership, UNCHANGED <<sockOf, accepted, pipe, ctx>>,
         \A t \in Threads, f \in Fds : Registering(f, t)' => Registering(f, t),
         TypeOK
  PROVE  DescriptorOwnership'
<1>1. \A t \in Threads, f \in Fds : InPipe(f, t)' <=> InPipe(f, t)
  BY DEF InPipe
<1>2. LiveCtxs' = LiveCtxs
  BY DEF LiveCtxs
<1>3. QueuedOpen'
  BY <1>1 DEF DescriptorOwnership, QueuedOpen
<1>4. QueuedOnce'
  BY DEF DescriptorOwnership, QueuedOnce
<1>5. ContextOwnsSocket'
  BY <1>1, <1>2, CtxFields DEF DescriptorOwnership, ContextOwnsSocket
<1> QED
  BY <1>3, <1>4, <1>5 DEF DescriptorOwnership

(* A thread that moves to a label other than "accept" registers nothing.   *)
LEMMA NotRegistering ==
  ASSUME TypeOK, NEW t \in Threads, NEW label \in Labels \ {"accept"}, Goto(t, label),
         \A u \in Threads \ {t} : cb'[u] = cb[u]
  PROVE  \A u \in Threads, f \in Fds : Registering(f, u)' => u # t /\ Registering(f, u)
BY DEF TypeOK, Goto, Registering

(* Contexts stay as they are while other descriptors move.                 *)
LEMMA ContextFrame ==
  ASSUME ContextOwnsSocket, UNCHANGED ctx,
         \A c \in LiveCtxs :
           sockOf'[ctx[c].sock] = sockOf[ctx[c].sock] /\ accepted' # ctx[c].sock,
         \A c \in LiveCtxs, t \in Threads :
           ~InPipe(ctx[c].sock, t)' /\ ~Registering(ctx[c].sock, t)'
  PROVE  ContextOwnsSocket'
<1>1. LiveCtxs' = LiveCtxs
  BY DEF LiveCtxs
<1>2. ASSUME NEW c \in LiveCtxs
      PROVE  /\ sockOf'[ctx[c].sock] = ctx[c].peer
             /\ ctx[c].base = Index(ctx[c].sock)
             /\ accepted' # ctx[c].sock
             /\ \A d \in LiveCtxs : ctx[d].sock = ctx[c].sock => d = c
  BY <1>2 DEF ContextOwnsSocket
<1> QED
  BY <1>1, <1>2 DEF ContextOwnsSocket

(* Deleting contexts closes their descriptors, which are nowhere else.     *)
LEMMA DescriptorDelete ==
  ASSUME TypeOK, DescriptorOwnership, NEW C \in SUBSET LiveCtxs, DeleteCtxs(C),
         \A t \in Threads, f \in Fds : Registering(f, t)' => Registering(f, t)
  PROVE  DescriptorOwnership'
<1>1. /\ UNCHANGED <<accepted, pipe>>
      /\ \A f \in Fds : (\A c \in C : ctx[c].sock # f) => sockOf'[f] = sockOf[f]
  BY DEF DeleteCtxs
<1>2. LiveCtxs' = LiveCtxs \ C /\ \A c \in LiveCtxs \ C : ctx'[c] = ctx[c]
  BY DEF DeleteCtxs, LiveCtxs
<1>3. accepted # NoFd => sockOf'[accepted] # None
  BY <1>1 DEF DescriptorOwnership, QueuedOpen, QueuedOnce, ContextOwnsSocket, TypeOK
<1>4. \A t \in Threads, f \in Fds : InPipe(f, t) \/ Registering(f, t) => sockOf'[f] # None
  <2> SUFFICES ASSUME NEW t \in Threads, NEW f \in Fds, InPipe(f, t) \/ Registering(f, t)
               PROVE  sockOf'[f] # None
    OBVIOUS
  <2>1. sockOf[f] # None
    BY DEF DescriptorOwnership, QueuedOpen
  <2>2. \A c \in C : ctx[c].sock # f
    BY DEF DescriptorOwnership, ContextOwnsSocket
  <2> QED
    BY <1>1, <2>1, <2>2
<1>5. \A c \in LiveCtxs \ C : sockOf'[ctx[c].sock] = ctx[c].peer
  BY <1>1, CtxFields DEF DescriptorOwnership, QueuedOpen, QueuedOnce, ContextOwnsSocket
<1>6. \A t \in Threads, f \in Fds : InPipe(f, t)' <=> InPipe(f, t)
  BY <1>1 DEF InPipe
<1>7. QueuedOpen'
  BY <1>1, <1>3, <1>4, <1>6 DEF DescriptorOwnership, QueuedOpen
<1>8. QueuedOnce'
  BY <1>1 DEF DescriptorOwnership, QueuedOnce
<1>9. ContextOwnsSocket'
  <2>1. \A c \in LiveCtxs : ctx[c].sock \in Fds
    BY CtxFields
  <2>2. ContextOwnsSocket
    BY DEF DescriptorOwnership
  <2>3. \A c \in LiveCtxs \ C : \A t \in Threads :
          ~InPipe(ctx[c].sock, t)' /\ ~Registering(ctx[c].sock, t)'
    BY <1>2, <1>6, <2>1, <2>2 DEF ContextOwnsSocket
  <2>4. \A c \in LiveCtxs \ C :
          /\ ctx[c].base = Index(ctx[c].sock) /\ accepted' # ctx[c].sock
          /\ \A d \in LiveCtxs \ C : ctx[d].sock = ctx[c].sock => d = c
    BY <1>1, <2>2 DEF ContextOwnsSocket
  <2> QED
    BY <1>2, <1>5, <2>3, <2>4 DEF ContextOwnsSocket
<1> QED
  BY <1>7, <1>8, <1>9 DEF DescriptorOwnership

(* Descriptors stay in one place and contexts keep their connection.       *)
LEMMA DescriptorStep ==
  ASSUME IndInv, [Next]_vars PROVE DescriptorOwnership'
<1>0. TypeOK /\ CallbackLocals /\ DescriptorOwnership
  BY DEF IndInv
<1>1. CASE UNCHANGED <<sockOf, accepted, pipe, ctx, pc, cb>>
  <2>1. \A t \in Threads, f \in Fds : Registering(f, t)' => Registering(f, t)
    BY <1>1 DEF Registering
  <2> QED
    BY <1>0, <1>1, <2>1, DescriptorFrame, SMTT(60)
<1>2. ASSUME NEW t \in Threads, NEW label \in Labels \ {"accept"}, Goto(t, label),
             \A u \in Threads \ {t} : cb'[u] = cb[u],
             UNCHANGED <<sockOf, accepted, pipe, ctx>>
      PROVE  DescriptorOwnership'
  BY <1>0, <1>2, NotRegistering, DescriptorFrame
<1>3. ASSUME NEW t \in Threads, Return(t)
      PROVE  Goto(t, "loop") /\ \A u \in Threads \ {t} : cb'[u] = cb[u]
  BY <1>0, <1>3 DEF Return, TypeOK
<1>4. ASSUME NEW k \in Conns, DoAccept(k) PROVE DescriptorOwnership'
  <2>1. PICK fd \in Fds \ OpenFds : sockOf' = [sockOf EXCEPT ![fd] = k] /\ accepted' = fd
    BY <1>4 DEF DoAccept
  <2>2. accepted = NoFd /\ UNCHANGED <<pipe, ctx, pc, cb>>
    BY <1>4 DEF DoAccept
  <2>3. sockOf[fd] = None /\ sockOf'[fd] = k /\ \A f \in Fds : f # fd => sockOf'[f] = sockOf[f]
    BY <1>0, <2>1 DEF OpenFds, TypeOK
  <2>4. \A t \in Threads, f \in Fds :
          (InPipe(f, t)' <=> InPipe(f, t)) /\ (Registering(f, t)' <=> Registering(f, t))
    BY <2>2 DEF InPipe, Registering
  <2>5. \A t \in Threads : ~InPipe(fd, t) /\ ~Registering(fd, t)
    BY <1>0, <2>1, <2>3 DEF DescriptorOwnership, QueuedOpen, QueuedOnce, ContextOwnsSocket
  <2>6. LiveCtxs' = LiveCtxs /\ \A c \in LiveCtxs : ctx[c].sock # fd
    BY <1>0, <2>1, <2>2, <2>3, CtxFields, SMTT(60) DEF DescriptorOwnership, ContextOwnsSocket, LiveCtxs
  <2>7. QueuedOpen'
    BY <1>0, <2>1, <2>2, <2>3, <2>4, <2>5, <2>6 DEF DescriptorOwnership, QueuedOpen
  <2>8. QueuedOnce'
    BY <1>0, <2>2 DEF DescriptorOwnership, QueuedOnce
  <2>9. ContextOwnsSocket'
    <3>1. ContextOwnsSocket
      BY <1>0 DEF DescriptorOwnership
    <3>2. \A c \in LiveCtxs :
            sockOf'[ctx[c].sock] = sockOf[ctx[c].sock] /\ accepted' # ctx[c].sock
      BY <1>0, <2>1, <2>3, <2>6, CtxFields
    <3>3. \A c \in LiveCtxs, t \in Threads :
            ~InPipe(ctx[c].sock, t)' /\ ~Registering(ctx[c].sock, t)'
      BY <1>0, <2>2, <2>4, <3>1, CtxFields DEF ContextOwnsSocket
    <3> QED
      BY <2>2, <3>1, <3>2, <3>3, ContextFrame
  <2> QED
    BY <2>7, <2>8, <2>9 DEF DescriptorOwnership
<1>5. CASE PushTask
  <2> DEFINE index == Index(accepted)
  <2>1. accepted \in Fds /\ index \in Threads
    BY <1>0, <1>5, IndexIsThread DEF TypeOK, PushTask
  <2>2. accepted' = NoFd /\ UNCHANGED <<sockOf, ctx, pc, cb>>
    BY <1>5 DEF PushTask
  <2>3. \A t \in Threads, f \in Fds :
          /\ Registering(f, t)' <=> Registering(f, t)
          /\ InPipe(f, t)' => InPipe(f, t) \/ (t = index /\ f = accepted)
    <3>1. CASE pipe' = pipe
      BY <2>2, <3>1 DEF InPipe, Registering
    <3>2. CASE pipe' = [pipe EXCEPT ![index] = Append(pipe[index], accepted)]
      <4>1. \A t \in Threads : t # index => pipe'[t] = pipe[t]
        BY <1>0, <2>1, <3>2 DEF TypeOK
      <4>2. \A t \in Threads : t = index => pipe'[t] = Append(pipe[t], accepted)
        BY <1>0, <2>1, <3>2 DEF TypeOK
      <4> HIDE DEF index
      <4>3. ASSUME NEW t \in Threads, NEW f \in Fds, t = index, InPipe(f, t)'
            PROVE  InPipe(f, t) \/ f = accepted
        <5>1. pipe[t] \in Seq(Fds) /\ pipe'[t] = Append(pipe[t], accepted)
          BY <1>0, <4>2, <4>3 DEF TypeOK
        <5>2. PICK i \in DOMAIN Append(pipe[t], accepted) : Append(pipe[t], accepted)[i] = f
          BY <4>3, <5>1 DEF InPipe
        <5> QED
          BY <2>1, <5>1, <5>2, SMT DEF InPipe
      <4>4. ASSUME NEW t \in Threads, NEW f \in Fds, t # index, InPipe(f, t)' PROVE InPipe(f, t)
        BY <4>1, <4>4 DEF InPipe
      <4>5. \A t \in Threads, f \in Fds : Registering(f, t)' <=> Registering(f, t)
        BY <2>2 DEF Registering
      <4> QED
        BY <4>3, <4>4, <4>5
    <3> QED
      BY <1>5, <3>1, <3>2, SMTT(60) DEF PushTask
  <2>4. \A t \in Threads : \A i, j \in DOMAIN pipe'[t] : pipe'[t][i] = pipe'[t][j] => i = j
    <3>1. CASE pipe' = pipe
      BY <1>0, <3>1 DEF DescriptorOwnership, QueuedOpen, QueuedOnce, ContextOwnsSocket
    <3>2. CASE pipe' = [pipe EXCEPT ![index] = Append(pipe[index], accepted)]
      <4>1. \A i \in DOMAIN pipe[index] : pipe[index][i] # accepted
        BY <1>0, <2>1 DEF DescriptorOwnership, QueuedOpen, QueuedOnce, ContextOwnsSocket, InPipe
      <4>2. \A i, j \in DOMAIN pipe[index] : pipe[index][i] = pipe[index][j] => i = j
        BY <1>0, <2>1 DEF DescriptorOwnership, QueuedOpen, QueuedOnce, ContextOwnsSocket
      <4>3. pipe[index] \in Seq(Fds)
        BY <1>0, <2>1 DEF TypeOK
      <4>4. \A i, j \in DOMAIN Append(pipe[index], accepted) :
              Append(pipe[index], accepted)[i] = Append(pipe[index], accepted)[j] => i = j
        BY <2>1, <4>1, <4>2, <4>3, SMTT(60)
      <4> QED
        BY <1>0, <2>1, <3>2, <4>4, SMTT(60) DEF DescriptorOwnership, QueuedOnce, TypeOK
    <3> QED
      BY <1>5, <3>1, <3>2 DEF PushTask
  <2>5. sockOf[accepted] # None /\ accepted # NoFd
        /\ \A t \in Threads : ~InPipe(accepted, t) /\ ~Registering(accepted, t)
    BY <1>0, <2>1, SMTT(60) DEF DescriptorOwnership, QueuedOpen
  <2>6. LiveCtxs' = LiveCtxs /\ \A c \in LiveCtxs : ctx[c].sock # accepted
    BY <1>0, <2>1, <2>2, CtxFields DEF DescriptorOwnership, QueuedOpen, QueuedOnce, ContextOwnsSocket, LiveCtxs
  <2> HIDE DEF index
  <2>7. index = Index(accepted)
    BY DEF index
  <2>8. QueuedOpen'
    <3>1. QueuedOpen
      BY <1>0 DEF DescriptorOwnership
    <3>2. ASSUME NEW t \in Threads, NEW f \in Fds, InPipe(f, t)' \/ Registering(f, t)'
          PROVE  sockOf[f] # None /\ t = Index(f) /\ ~(InPipe(f, t)' /\ Registering(f, t)')
      BY <2>3, <2>5, <2>7, <3>1, <3>2 DEF QueuedOpen
    <3>3. \A f \in Fds : f # NoFd
      BY FdAssumption, SMT
    <3> QED
      BY <2>2, <3>2, <3>3 DEF QueuedOpen
  <2>9. QueuedOnce'
    BY <2>4 DEF DescriptorOwnership, QueuedOnce
  <2>10. ContextOwnsSocket'
    <3>1. \A d \in LiveCtxs : ctx[d].sock \in Fds
      BY <1>0, CtxFields
    <3>2. ContextOwnsSocket
      BY <1>0 DEF DescriptorOwnership
    <3>3. \A d \in LiveCtxs :
            sockOf'[ctx[d].sock] = sockOf[ctx[d].sock] /\ accepted' # ctx[d].sock
      BY <2>2, <3>1, FdAssumption, SMT
    <3>4. \A d \in LiveCtxs, t \in Threads :
            ~InPipe(ctx[d].sock, t)' /\ ~Registering(ctx[d].sock, t)'
      BY <2>2, <2>3, <2>6, <3>1, <3>2 DEF ContextOwnsSocket
    <3> QED
      BY <2>2, <3>2, <3>3, <3>4, ContextFrame
  <2> QED
    BY <2>8, <2>9, <2>10 DEF DescriptorOwnership
<1>6. ASSUME NEW t \in Threads, PipeReadCallBack(t) PROVE DescriptorOwnership'
  <2> DEFINE fd == Head(pipe[t])
  <2>1. /\ fd \in Fds /\ InPipe(fd, t) /\ pc[t] = "loop"
        /\ pipe[t] \in Seq(Fds) /\ pipe[t] # <<>>
        /\ pipe' = [pipe EXCEPT ![t] = Tail(pipe[t])]
    BY <1>0, <1>6, SMTT(60) DEF TypeOK, PipeReadCallBack, InPipe
  <2>2. UNCHANGED <<sockOf, accepted, ctx>>
    BY <1>6 DEF PipeReadCallBack
  <2>3. \A u \in Threads, f \in Fds : Registering(f, u)' <=> (u # t /\ Registering(f, u)) \/ (u = t /\ f = fd)
    BY <1>0, <1>6 DEF TypeOK, PipeReadCallBack, Goto, Registering
  <2>4. \A i \in DOMAIN Tail(pipe[t]) : i + 1 \in DOMAIN pipe[t] /\ Tail(pipe[t])[i] = pipe[t][i + 1] /\ i \in Nat /\ i # 0
    BY <2>1, SMT
  <2>5. \A i, j \in DOMAIN pipe[t] : pipe[t][i] = pipe[t][j] => i = j
    BY <1>0 DEF DescriptorOwnership, QueuedOpen, QueuedOnce, ContextOwnsSocket
  <2>6. \A i, j \in DOMAIN Tail(pipe[t]) : Tail(pipe[t])[i] = Tail(pipe[t])[j] => i = j
    <3> SUFFICES ASSUME NEW i \in DOMAIN Tail(pipe[t]), NEW j \in DOMAIN Tail(pipe[t]),
                        Tail(pipe[t])[i] = Tail(pipe[t])[j]
                 PROVE  i = j
      OBVIOUS
    <3>1. i + 1 = j + 1 /\ i \in Nat /\ j \in Nat
      BY <2>4, <2>5
    <3> QED
      BY <3>1, SMT
  <2>7. \A i \in DOMAIN Tail(pipe[t]) : Tail(pipe[t])[i] # fd
    <3> SUFFICES ASSUME NEW i \in DOMAIN Tail(pipe[t]), Tail(pipe[t])[i] = fd PROVE FALSE
      OBVIOUS
    <3>1. 1 \in DOMAIN pipe[t] /\ pipe[t][1] = fd
      BY <2>1, SMT
    <3>2. i + 1 = 1 /\ i \in Nat /\ i # 0
      BY <2>4, <2>5, <3>1
    <3> QED
      BY <3>2, SMT
  <2>8. \A u \in Threads, f \in Fds : InPipe(f, u)' => InPipe(f, u) /\ (u = t => f # fd)
    <3>1. pipe'[t] = Tail(pipe[t]) /\ \A u \in Threads : u # t => pipe'[u] = pipe[u]
      BY <1>0, <2>1 DEF TypeOK
    <3>2. \A f \in Fds : InPipe(f, t)' => InPipe(f, t) /\ f # fd
      BY <2>4, <2>7, <3>1 DEF InPipe
    <3>3. \A u \in Threads, f \in Fds : u # t /\ InPipe(f, u)' => InPipe(f, u)
      BY <3>1 DEF InPipe
    <3> QED
      BY <3>2, <3>3
  <2>9. \A u \in Threads : \A i, j \in DOMAIN pipe'[u] : pipe'[u][i] = pipe'[u][j] => i = j
    BY <1>0, <2>1, <2>6, SMTT(60) DEF DescriptorOwnership, QueuedOnce, TypeOK
  <2>10. LiveCtxs' = LiveCtxs
    BY <2>2 DEF LiveCtxs
  <2> HIDE DEF fd
  <2>11. QueuedOpen'
    BY <1>0, <2>1, <2>2, <2>3, <2>8, <2>9, <2>10 DEF DescriptorOwnership, QueuedOpen
  <2>12. QueuedOnce'
    BY <2>9, SMTT(60) DEF DescriptorOwnership, QueuedOnce
  <2>13. ContextOwnsSocket'
    <3>1. \A d \in LiveCtxs : ctx[d].sock \in Fds
      BY <1>0, CtxFields
    <3>2. ContextOwnsSocket
      BY <1>0 DEF DescriptorOwnership
    <3>3. \A d \in LiveCtxs : ctx[d].sock # fd
      BY <2>1, <3>2 DEF ContextOwnsSocket
    <3>4. \A d \in LiveCtxs, u \in Threads :
            ~InPipe(ctx[d].sock, u)' /\ ~Registering(ctx[d].sock, u)'
      <4> TAKE d \in LiveCtxs, u \in Threads
      <4>1. /\ ctx'[d].sock = ctx[d].sock /\ ctx[d].sock \in Fds /\ ctx[d].sock # fd
            /\ ~InPipe(ctx[d].sock, u) /\ ~Registering(ctx[d].sock, u)
        BY <2>2, <3>1, <3>2, <3>3 DEF ContextOwnsSocket
      <4> QED
        BY <2>3, <2>8, <4>1
    <3> QED
      BY <2>2, <2>10, <3>2, <3>4 DEF ContextOwnsSocket
  <2> QED
    BY <2>11, <2>12, <2>13 DEF DescriptorOwnership
<1>7. ASSUME NEW t \in Threads, OnPipeReadCallback(t) PROVE DescriptorOwnership'
  <2> DEFINE fd == cb[t].fd
  <2>1. pc[t] = "accept" /\ fd \in Fds /\ Registering(fd, t) /\ Return(t)
    BY <1>0, <1>7, SMTT(60) DEF OnPipeReadCallback, CallbackLocals, Registering
  <2>2. PICK c \in Ctxs \ LiveCtxs :
          ctx' = [ctx EXCEPT ![c] = [sock |-> fd, base |-> t, peer |-> sockOf[fd]]]
    BY <1>7 DEF OnPipeReadCallback
  <2>3. UNCHANGED <<sockOf, accepted, pipe>>
    BY <1>7 DEF OnPipeReadCallback
  <2>4. sockOf[fd] \in Conns /\ fd # accepted /\ t = Index(fd) /\ ~InPipe(fd, t)
    <3>1. sockOf[fd] # None /\ fd # accepted /\ t = Index(fd) /\ ~InPipe(fd, t)
      BY <1>0, <2>1 DEF DescriptorOwnership, QueuedOpen
    <3> QED
      BY <1>0, <2>1, <3>1 DEF TypeOK
  <2>5. \A u \in Threads : u # t => ~InPipe(fd, u) /\ ~Registering(fd, u)
    BY <1>0, <2>1, <2>4 DEF DescriptorOwnership, QueuedOpen, QueuedOnce, ContextOwnsSocket
  <2>6. \A u \in Threads, f \in Fds :
          /\ Registering(f, u)' => u # t /\ Registering(f, u)
          /\ InPipe(f, u)' <=> InPipe(f, u)
    BY <1>0, <1>3, <2>1, <2>3, NotRegistering DEF InPipe
  <2>7. \A d \in LiveCtxs : d # c /\ ctx'[d] = ctx[d] /\ ctx[d].sock # fd
    <3> TAKE d \in LiveCtxs
    <3>1. d # c /\ ctx'[d] = ctx[d]
      BY <1>0, <2>2, CtxFields DEF TypeOK
    <3>2. ~Registering(ctx[d].sock, t)
      BY <1>0 DEF DescriptorOwnership, ContextOwnsSocket
    <3> QED
      BY <2>1, <3>1, <3>2
  <2>8. ctx'[c].sock = fd /\ ctx'[c].base = t /\ ctx'[c].peer = sockOf[fd]
    BY <1>0, <2>2, SMTT(60) DEF TypeOK
  <2>9. LiveCtxs' = LiveCtxs \cup {c}
    <3>1. [sock |-> fd, base |-> t, peer |-> sockOf[fd]] \in CtxType
      BY <2>1, <2>4, SMTT(60) DEF CtxType
    <3> QED
      BY <1>0, <2>2, <3>1, SMTT(60) DEF LiveCtxs, TypeOK
  <2> HIDE DEF fd
  <2>10. QueuedOpen'
    BY <1>0, <2>1, <2>3, <2>4, <2>5, <2>6, <2>7, <2>8, <2>9 DEF DescriptorOwnership, QueuedOpen
  <2>11. QueuedOnce'
    BY <1>0, <2>3, SMTT(60) DEF DescriptorOwnership, QueuedOnce
  <2>12. ContextOwnsSocket'
    <3>1. \A d \in LiveCtxs : ctx[d].sock \in Fds
      BY <1>0, CtxFields
    <3>2. ContextOwnsSocket
      BY <1>0 DEF DescriptorOwnership
    <3>3. \A d \in LiveCtxs, u \in Threads :
            ~InPipe(ctx[d].sock, u)' /\ ~Registering(ctx[d].sock, u)'
      <4> TAKE d \in LiveCtxs, u \in Threads
      <4>1. /\ ctx'[d].sock = ctx[d].sock /\ ctx[d].sock \in Fds
            /\ ~InPipe(ctx[d].sock, u) /\ ~Registering(ctx[d].sock, u)
        BY <2>7, <3>1, <3>2 DEF ContextOwnsSocket
      <4> QED
        BY <2>6, <4>1
    <3>4. \A u \in Threads : ~InPipe(ctx[c].sock, u)' /\ ~Registering(ctx[c].sock, u)'
      BY <2>1, <2>4, <2>5, <2>6, <2>8
    <3>5. ASSUME NEW d \in LiveCtxs PROVE
            /\ sockOf'[ctx'[d].sock] = ctx'[d].peer
            /\ ctx'[d].base = Index(ctx'[d].sock)
            /\ accepted' # ctx'[d].sock
            /\ ctx'[d].sock # ctx'[c].sock
            /\ \A e \in LiveCtxs : ctx'[e].sock = ctx'[d].sock => e = d
      <4>1. \A e \in LiveCtxs : ctx'[e] = ctx[e]
        BY <2>7
      <4>2. /\ sockOf[ctx[d].sock] = ctx[d].peer
            /\ ctx[d].base = Index(ctx[d].sock)
            /\ \A e \in LiveCtxs : ctx[e].sock = ctx[d].sock => e = d
        BY <3>2 DEF ContextOwnsSocket
      <4> QED
        BY <2>3, <2>7, <2>8, <3>2, <4>1, <4>2 DEF ContextOwnsSocket
    <3>6. /\ sockOf'[ctx'[c].sock] = ctx'[c].peer
          /\ ctx'[c].base = Index(ctx'[c].sock)
          /\ accepted' # ctx'[c].sock
      BY <2>3, <2>4, <2>8
    <3> QED
      BY <2>9, <3>3, <3>4, <3>5, <3>6 DEF ContextOwnsSocket
  <2> QED
    BY <2>10, <2>11, <2>12, SMTT(60) DEF DescriptorOwnership
<1>8. ASSUME NEW t \in Threads, RecvNothing(t) PROVE DescriptorOwnership'
  <2>1. CASE Abort
    BY <1>1, <2>1, SMTT(60) DEF Abort
  <2>2. CASE ~Abort
    BY <1>0, <1>3, <1>8, <2>2, NotRegistering, DescriptorDelete DEF RecvNothing
  <2> QED
    BY <2>1, <2>2
<1>9. ASSUME NEW t \in Threads, OnCheckActiveTime(t) PROVE DescriptorOwnership'
  <2>1. CASE Abort
    BY <1>1, <2>1 DEF Abort
  <2>2. CASE ~Abort
    <3>1. /\ ExpiredCtxs \subseteq LiveCtxs /\ DeleteCtxs(ExpiredCtxs)
          /\ pc' = pc /\ cb' = cb
      BY <1>9, <2>2 DEF OnCheckActiveTime, ExpiredCtxsSound
    <3>2. \A u \in Threads, f \in Fds : Registering(f, u)' => Registering(f, u)
      BY <3>1 DEF Registering
    <3> QED
      BY <1>0, <3>1, <3>2, DescriptorDelete
  <2> QED
    BY <2>1, <2>2
<1>10. ASSUME NEW t \in Threads, CreateSSLFails(t) \/ HandleFound(t) \/ InsertHandler(t) \/ SendReply(t)
       PROVE  DescriptorOwnership'
  <2>1. UNCHANGED <<sockOf, accepted, pipe, ctx>>
    BY <1>10 DEF CreateSSLFails, HandleFound, InsertHandler, SendReply, Abort
  <2>2. CASE Return(t)
    BY <1>2, <1>3, <2>1, <2>2
  <2>3. CASE ~Return(t)
    <3>1. CASE Abort
      BY <1>1, <3>1 DEF Abort
    <3>2. CASE ~Abort
      <4>1. Goto(t, "finish") /\ cb' = cb
        BY <1>10, <2>3, <3>2, SMTT(60) DEF CreateSSLFails, HandleFound, InsertHandler, SendReply
      <4> QED
        BY <1>2, <2>1, <4>1, SMTT(60)
    <3> QED
      BY <3>1, <3>2
  <2> QED
    BY <2>2, <2>3
<1>11. ASSUME NEW t \in Threads, NEW c \in Ctxs, EventCallBack(t, c) PROVE DescriptorOwnership'
  <2>1. \A u \in Threads \ {t} : cb'[u] = cb[u]
    BY <1>0, <1>11 DEF EventCallBack, TypeOK
  <2> QED
    BY <1>2, <1>11, <2>1, SMTT(60) DEF EventCallBack
<1>12. ASSUME NEW t \in Threads,
              RecvData(t) \/ HandleNotFound(t) \/ CreateHandler(t) \/ FinishRequest(t)
       PROVE  DescriptorOwnership'
  <2>1. PICK label \in Labels \ {"accept"} : Goto(t, label)
    BY <1>12 DEF RecvData, HandleNotFound, CreateHandler, FinishRequest
  <2>2. UNCHANGED <<sockOf, accepted, pipe, ctx, cb>>
    BY <1>12 DEF RecvData, HandleNotFound, CreateHandler, FinishRequest
  <2> QED
    BY <1>2, <2>1, <2>2, SMTT(60)
<1> QED
  BY <1>1, <1>4, <1>5, <1>6, <1>7, <1>8, <1>9, <1>10, <1>11, <1>12
     DEF Next, Worker, Tick, RecvOnFreedSsl, CheckDataThrows, SendToClosedPeer, Abort

-----------------------------------------------------------------------------
(* The theorems                                                            *)

(* The initial state satisfies the inductive invariant.                    *)
LEMMA InitInv ==
  ASSUME Init PROVE IndInv
<1>1. TypeOK
  BY SMTT(60) DEF Init, TypeOK, NoCall, CallType
<1>2. CallbackLocals /\ HandlerOwnership
  BY SMTT(60) DEF Init, CallbackLocals, HandlerOwnership, MapSound, HeldExclusive, Held, InCallback
<1>3. DescriptorOwnership
  BY SMTT(60) DEF Init, DescriptorOwnership, QueuedOpen, QueuedOnce, ContextOwnsSocket, InPipe, Registering, LiveCtxs
<1> QED
  BY <1>1, <1>2, <1>3, SMTT(60) DEF IndInv

(* The four parts together hold in every reachable state.                  *)
THEOREM Invariance == Spec => []IndInv
<1>1. Init => IndInv
  BY InitInv, SMTT(60)
<1>2. IndInv /\ [Next]_vars => IndInv'
  BY TypeStep, LocalsStep, HandlerStep, DescriptorStep DEF IndInv
<1> QED
  BY <1>1, <1>2, PTL DEF Spec

(* Type correctness of the connection and request core.                    *)
THEOREM TypeCorrect == Spec => []TypeOK
<1>1. IndInv => TypeOK
  BY DEF IndInv
<1> QED
  BY <1>1, Invariance, PTL

(* HandleRequest and OnCheckActiveTime never use a deleted handler nor     *)
(* delete one twice, for any number of worker threads.                     *)
THEOREM HandlersOwned == Spec => []HandlerOwnership
<1>1. IndInv => HandlerOwnership
  BY DEF IndInv
<1> QED
  BY <1>1, Invariance, PTL

(* From accept() to the destructor of its context a descriptor is open and *)
(* in one place, and a context reads the connection accepted for it.       *)
THEOREM DescriptorsOwned == Spec => []DescriptorOwnership
<1>1. IndInv => DescriptorOwnership
  BY DEF IndInv
<1> QED
  BY <1>1, Invariance, PTL

-----------------------------------------------------------------------------
(* One worker thread.  Nothing happens to the request map or the contexts  *)
(* while its callback runs, except what the callback itself does.          *)

(* The context of the running callback is the one it was raised for, the   *)
(* bytes came from its connection, and between the two critical sections   *)
(* of HandleRequest the map has no entry for the descriptor.               *)
Undisturbed(t) ==
  /\ InCallback(t) =>
       /\ cb[t].ctx \in LiveCtxs
       /\ ctx[cb[t].ctx].sock = cb[t].fd /\ ctx[cb[t].ctx].peer = cb[t].peer
  /\ InCallback(t) /\ pc[t] # "recv" => from[t] = cb[t].peer
  /\ pc[t] \in {"create", "insert"} => sockfd[t] = cb[t].fd /\ reqMap[sockfd[t]] = None

SoloInv == HandlersAccounted /\ \A t \in Threads : Undisturbed(t)

LEMMA OnlyThread ==
  ASSUME ThreadNum = 1, NEW t \in Threads, NEW u \in Threads PROVE u = t
BY SMT

(* Outside EventCallBack there is nothing to disturb.                      *)
LEMMA NothingToDisturb ==
  ASSUME ThreadNum = 1, NEW t \in Threads, pc'[t] \in {"loop", "accept"}
  PROVE  \A u \in Threads : Undisturbed(u)'
<1>1. Undisturbed(t)'
  BY DEF Undisturbed, InCallback
<1> QED
  BY <1>1, OnlyThread

(* Handlers stay where they are while nobody gives one up.                 *)
LEMMA AccountedFrame ==
  ASSUME HandlersAccounted, UNCHANGED <<obj, reqMap>>,
         \A u \in Threads : pObj[u] # None => pObj'[u] = pObj[u]
  PROVE  HandlersAccounted'
<1>1. \A o \in LiveObjs : o # None
  BY DEF LiveObjs
<1>2. LiveObjs' = LiveObjs
  BY DEF LiveObjs
<1> QED
  BY <1>1, <1>2, ZenonT(30) DEF HandlersAccounted

(* With one worker thread every step keeps its callback undisturbed and    *)
(* its handlers accounted for.                                             *)
LEMMA SoloStep ==
  ASSUME IndInv, ThreadNum = 1, SoloInv, [Next]_vars PROVE SoloInv'
<1>0. TypeOK /\ CallbackLocals /\ HandlerOwnership /\ DescriptorOwnership
  BY DEF IndInv
<1>a. HandlersAccounted /\ \A t \in Threads : Undisturbed(t)
  BY DEF SoloInv
<1>1. CASE UNCHANGED <<ctx, obj, reqMap, locals>>
  <2>1. HandlersAccounted'
    BY <1>a, <1>1, AccountedFrame
  <2>2. \A t \in Threads : Undisturbed(t)'
    BY <1>a, <1>1 DEF Undisturbed, InCallback, LiveCtxs
  <2> QED
    BY <2>1, <2>2 DEF SoloInv
<1>2. ASSUME NEW t \in Threads, pc[t] \notin {"insert", "finish"}, Return(t), UNCHANGED <<obj, reqMap>>
      PROVE  SoloInv'
  <2>1. pc'[t] = "loop" /\ \A u \in Threads : pObj[u] # None => pObj'[u] = pObj[u]
    BY <1>0, <1>2 DEF Return, Goto, TypeOK, CallbackLocals, Held
  <2> QED
    BY <1>a, <1>2, <2>1, NothingToDisturb, AccountedFrame DEF SoloInv
<1>3. ASSUME NEW t \in Threads, PipeReadCallBack(t) PROVE SoloInv'
  <2>1. pc'[t] = "accept" /\ UNCHANGED <<obj, reqMap, pObj>>
    BY <1>0, <1>3 DEF PipeReadCallBack, Goto, TypeOK
  <2> QED
    BY <1>a, <2>1, NothingToDisturb, AccountedFrame DEF SoloInv
<1>4. ASSUME NEW t \in Threads, CreateSSLFails(t) \/ OnPipeReadCallback(t) PROVE SoloInv'
  BY <1>2, <1>4 DEF CreateSSLFails, OnPipeReadCallback
<1>5. ASSUME NEW t \in Threads, NEW c \in Ctxs, EventCallBack(t, c) PROVE SoloInv'
  <2>1. /\ pc'[t] = "recv" /\ c \in LiveCtxs /\ UNCHANGED <<ctx, obj, reqMap, pObj>>
        /\ cb'[t] = [fd |-> ctx[c].sock, ctx |-> c, peer |-> ctx[c].peer]
    BY <1>0, <1>5 DEF EventCallBack, Goto, TypeOK
  <2>2. cb'[t].fd = ctx[c].sock /\ cb'[t].ctx = c /\ cb'[t].peer = ctx[c].peer
    BY <2>1, SMT
  <2>3. LiveCtxs' = LiveCtxs
    BY <2>1 DEF LiveCtxs
  <2>4. Undisturbed(t)'
    BY <2>1, <2>2, <2>3 DEF Undisturbed
  <2> QED
    BY <1>a, <2>1, <2>4, OnlyThread, AccountedFrame DEF SoloInv
<1>6. ASSUME NEW t \in Threads, RecvData(t) PROVE SoloInv'
  <2>1. /\ pc[t] = "recv" /\ pc'[t] = "handle" /\ UNCHANGED <<ctx, cb, obj, reqMap, pObj>>
        /\ from'[t] = sockOf[cb[t].fd]
    BY <1>0, <1>6 DEF RecvData, Goto, TypeOK
  <2>2. cb[t].ctx \in LiveCtxs /\ ctx[cb[t].ctx].sock = cb[t].fd /\ ctx[cb[t].ctx].peer = cb[t].peer
    BY <1>a, <2>1 DEF Undisturbed, InCallback
  <2>3. from'[t] = cb[t].peer
    BY <1>0, <2>1, <2>2 DEF DescriptorOwnership, ContextOwnsSocket
  <2>4. Undisturbed(t)'
    BY <2>1, <2>2, <2>3 DEF Undisturbed, LiveCtxs
  <2> QED
    BY <1>a, <2>1, <2>4, OnlyThread, AccountedFrame DEF SoloInv
<1>7. ASSUME NEW t \in Threads, RecvNothing(t) \/ SendReply(t) PROVE SoloInv'
  <2>1. CASE Abort
    BY <1>1, <2>1 DEF Abort
  <2>2. CASE ~Abort
    BY <1>2, <1>7, <2>2 DEF RecvNothing, SendReply
  <2> QED
    BY <2>1, <2>2
<1>8. ASSUME NEW t \in Threads, pc[t] = "handle" PROVE SockRead(t) = {cb[t].fd}
  <2>1. cb[t].ctx \in LiveCtxs /\ ctx[cb[t].ctx].sock = cb[t].fd
    BY <1>a, <1>8 DEF Undisturbed, InCallback
  <2> QED
    BY <2>1 DEF SockRead
<1>9. ASSUME NEW t \in Threads, HandleFound(t) PROVE SoloInv'
  <2>0. pc[t] = "handle" /\ cb[t].fd \in Keys /\ UNCHANGED <<ctx, obj>>
    BY <1>0, <1>9, CallFields DEF HandleFound
  <2>1. CASE Return(t) /\ UNCHANGED reqMap
    BY <1>2, <2>0, <2>1
  <2>2. CASE ~(Return(t) /\ UNCHANGED reqMap)
    <3>1. PICK key \in SockRead(t) :
            /\ Goto(t, "finish") /\ UNCHANGED <<cb, from, sockfd>>
            /\ pObj' = [pObj EXCEPT ![t] = reqMap[key]]
            /\ reqMap' = [reqMap EXCEPT ![key] = None]
      BY <1>9, <2>2 DEF HandleFound
    <3>a. key = cb[t].fd
      BY <1>8, <2>0
    <3>2. /\ pc'[t] = "finish" /\ pObj'[t] = reqMap[key] /\ key \in Keys
          /\ \A f \in Keys : f # key => reqMap'[f] = reqMap[f]
      BY <1>0, <2>0, <3>1, <3>a, SMT DEF Goto, TypeOK
    <3>3. Undisturbed(t)'
      BY <1>a, <2>0, <3>1, <3>2 DEF Undisturbed, InCallback, LiveCtxs
    <3>4. HandlersAccounted'
      <4>1. LiveObjs' = LiveObjs /\ pObj[t] = None /\ \A o \in LiveObjs : o # None
        BY <1>0, <2>0 DEF LiveObjs, CallbackLocals, Held
      <4>2. \A o \in LiveObjs : \E f \in Keys : reqMap[f] = o
        BY <1>a, <4>1, OnlyThread DEF HandlersAccounted
      <4> QED
        BY <3>2, <4>1, <4>2 DEF HandlersAccounted
    <3> QED
      BY <3>3, <3>4, OnlyThread DEF SoloInv
  <2> QED
    BY <2>1, <2>2
<1>10. ASSUME NEW t \in Threads, HandleNotFound(t) PROVE SoloInv'
  <2>1. pc[t] = "handle" /\ pc'[t] = "create" /\ UNCHANGED <<ctx, obj, reqMap, cb, from, pObj>>
    BY <1>0, <1>10 DEF HandleNotFound, Goto, TypeOK
  <2>a. PICK key \in SockRead(t) : reqMap[key] = None /\ sockfd' = [sockfd EXCEPT ![t] = key]
    BY <1>10 DEF HandleNotFound
  <2>b. key = cb[t].fd
    BY <1>8, <2>1
  <2>2. sockfd'[t] = cb[t].fd /\ reqMap[cb[t].fd] = None
    BY <1>0, <2>a, <2>b DEF TypeOK
  <2>3. Undisturbed(t)'
    BY <1>a, <2>1, <2>2 DEF Undisturbed, InCallback, LiveCtxs
  <2> QED
    BY <1>a, <2>1, <2>3, OnlyThread, AccountedFrame DEF SoloInv
<1>11. ASSUME NEW t \in Threads, CreateHandler(t) PROVE SoloInv'
  <2>1. PICK o \in Objs \ LiveObjs :
          /\ obj' = [obj EXCEPT ![o] = [arg |-> cb[t].ctx, peer |-> from[t]]]
          /\ pObj' = [pObj EXCEPT ![t] = o]
    BY <1>11 DEF CreateHandler
  <2>2. /\ pc[t] = "create" /\ UNCHANGED <<ctx, reqMap, cb, from, sockfd>>
        /\ pc'[t] \in {"insert", "finish"}
    BY <1>0, <1>11 DEF CreateHandler, Goto, TypeOK
  <2>3. Undisturbed(t)'
    BY <1>a, <2>2 DEF Undisturbed, InCallback, LiveCtxs
  <2>4. LiveObjs' \subseteq LiveObjs \cup {o} /\ pObj'[t] = o
    BY <1>0, <2>1 DEF LiveObjs, TypeOK
  <2>5. pObj[t] = None /\ \A p \in LiveObjs : p # None
    BY <1>0, <2>2 DEF LiveObjs, CallbackLocals, Held
  <2>6. \A p \in LiveObjs : \E f \in Keys : reqMap[f] = p
    BY <1>a, <2>5, OnlyThread DEF HandlersAccounted
  <2>7. HandlersAccounted'
    BY <2>2, <2>4, <2>6 DEF HandlersAccounted
  <2> QED
    BY <2>3, <2>7, OnlyThread DEF SoloInv
<1>12. ASSUME NEW t \in Threads, InsertHandler(t) PROVE SoloInv'
  <2>1. /\ pc[t] = "insert" /\ pc'[t] = "loop" /\ obj' = obj /\ sockfd[t] \in Keys
    BY <1>0, <1>12 DEF InsertHandler, Return, Goto, TypeOK
  <2>2. reqMap[sockfd[t]] = None
    BY <1>a, <2>1 DEF Undisturbed
  <2>3. reqMap'[sockfd[t]] = pObj[t] /\ \A f \in Keys : f # sockfd[t] => reqMap'[f] = reqMap[f]
    BY <1>0, <1>12, <2>1, <2>2 DEF InsertHandler, TypeOK
  <2>4. LiveObjs' = LiveObjs /\ \A o \in LiveObjs : o # None
    BY <2>1 DEF LiveObjs
  <2>5. \A o \in LiveObjs : \E f \in Keys : reqMap'[f] = o
    <3> SUFFICES ASSUME NEW o \in LiveObjs PROVE \E f \in Keys : reqMap'[f] = o
      OBVIOUS
    <3>1. CASE \E u \in Threads : pObj[u] = o
      BY <2>1, <2>3, <3>1, OnlyThread
    <3>2. CASE \E f \in Keys : reqMap[f] = o
      BY <2>2, <2>3, <2>4, <3>2
    <3> QED
      BY <1>a, <3>1, <3>2 DEF HandlersAccounted
  <2>6. HandlersAccounted'
    BY <2>4, <2>5 DEF HandlersAccounted
  <2> QED
    BY <2>1, <2>6, NothingToDisturb DEF SoloInv
<1>13. ASSUME NEW t \in Threads, FinishRequest(t) PROVE SoloInv'
  <2>1. /\ pc[t] = "finish" /\ pc'[t] = "send" /\ UNCHANGED <<ctx, reqMap, cb, from, sockfd>>
        /\ obj' = [obj EXCEPT ![pObj[t]] = None]
    BY <1>0, <1>13 DEF FinishRequest, Goto, TypeOK
  <2>2. Undisturbed(t)'
    BY <1>a, <2>1 DEF Undisturbed, InCallback, LiveCtxs
  <2>3. LiveObjs' \subseteq LiveObjs \ {pObj[t]}
    BY <1>0, <2>1 DEF LiveObjs, TypeOK
  <2>4. HandlersAccounted'
    BY <1>a, <2>1, <2>3, OnlyThread DEF HandlersAccounted
  <2> QED
    BY <2>2, <2>4, OnlyThread DEF SoloInv
<1>14. ASSUME NEW t \in Threads, OnCheckActiveTime(t) PROVE SoloInv'
  <2>1. CASE Abort
    BY <1>1, <2>1 DEF Abort
  <2>2. CASE ~Abort
    <3>1. /\ obj' = [o \in Objs |-> IF \E f \in Expired : reqMap[f] = o THEN None ELSE obj[o]]
          /\ reqMap' = [f \in Keys |-> IF f \in Expired THEN None ELSE reqMap[f]]
          /\ pc[t] = "loop" /\ UNCHANGED locals
      BY <1>14, <2>2 DEF OnCheckActiveTime
    <3>2. \A o \in LiveObjs' : o \in LiveObjs /\ \A f \in Expired : reqMap[f] # o
      BY <3>1 DEF LiveObjs
    <3>3. \A f \in Keys : f \notin Expired => reqMap'[f] = reqMap[f]
      BY <3>1
    <3>4. HandlersAccounted'
      BY <1>a, <3>1, <3>2, <3>3, ZenonT(30) DEF HandlersAccounted
    <3> QED
      BY <3>1, <3>4, NothingToDisturb DEF SoloInv
  <2> QED
    BY <2>1, <2>2
<1> QED
  BY <1>1, <1>3, <1>4, <1>5, <1>6, <1>7, <1>9, <1>10, <1>11, <1>12, <1>13, <1>14
     DEF Next, Worker, DoAccept, PushTask, Tick, RecvOnFreedSsl, CheckDataThrows, SendToClosedPeer, Abort

(* The invariant of the server with performance:threads set to 1.          *)
LEMMA SoloInvariance == Spec => [](ThreadNum = 1 => SoloInv)
<1>1. Init => SoloInv
  BY DEF Init, SoloInv, HandlersAccounted, LiveObjs, Undisturbed, InCallback
<1>2. IndInv /\ (ThreadNum = 1 => SoloInv) /\ [Next]_vars => (ThreadNum = 1 => SoloInv)'
  BY SoloStep
<1> QED
  BY <1>1, <1>2, Invariance, PTL DEF Spec

(* With one worker thread the context EventCallBack was raised for stays   *)
(* allocated while the callback runs: the pointers it copied are good.     *)
THEOREM ContextStaysAlive == Spec => [](ThreadNum = 1 => CallbackContextAlive)
<1>1. SoloInv => CallbackContextAlive
  BY DEF SoloInv, Undisturbed, CallbackContextAlive
<1> QED
  BY <1>1, SoloInvariance, PTL

(* With one worker thread a reply goes to the connection whose bytes made  *)
(* the request, although descriptors are reused.                           *)
THEOREM RepliesReachRequester == Spec => [](ThreadNum = 1 => ReplyToRequester)
<1>1. IndInv /\ SoloInv => ReplyToRequester
  <2> SUFFICES ASSUME IndInv, SoloInv, NEW t \in Threads, pc[t] = "send"
               PROVE  sockOf[cb[t].fd] = from[t]
    BY DEF ReplyToRequester
  <2>1. /\ cb[t].ctx \in LiveCtxs /\ ctx[cb[t].ctx].sock = cb[t].fd
        /\ ctx[cb[t].ctx].peer = cb[t].peer /\ from[t] = cb[t].peer
    BY DEF SoloInv, Undisturbed, InCallback
  <2> QED
    BY <2>1 DEF IndInv, DescriptorOwnership, ContextOwnsSocket
<1> QED
  BY <1>1, Invariance, SoloInvariance, PTL

(* With one worker thread HandleRequest loses no handler: each is in the   *)
(* map, where the timer finds it, or in the worker's hands.                *)
THEOREM NoHandlerLost == Spec => [](ThreadNum = 1 => HandlersAccounted)
<1>1. SoloInv => HandlersAccounted
  BY DEF SoloInv
<1> QED
  BY <1>1, SoloInvariance, PTL
=============================================================================
