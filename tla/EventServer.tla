----------------------------- MODULE EventServer -----------------------------
(***************************************************************************)
(* The connection and request core of the server (Linux build):            *)
(*   - CMainEventBase::DoAccept, the accepting thread;                     *)
(*   - CEventBaseMgr, one event loop per worker thread, fed through a pipe *)
(*     by PushTask and running PipeReadCallBack, EventCallBack and the     *)
(*     persistent 10 s timer TimeoutCallBack;                              *)
(*   - CMgrRequest, the map from descriptor to pending request handler,    *)
(*     shared by all worker threads under m_LockerReqMap.                  *)
(*                                                                         *)
(* A critical section of m_LockerReqMap is one step.  What a callback does *)
(* between two of them is split wherever another thread can intervene.     *)
(* What CheckData makes of the received bytes is a free choice here; the   *)
(* module HttpParse models the parser itself.                              *)
(*                                                                         *)
(* Heap blocks are addresses (Ctxs, Objs) that are reused after a free.    *)
(* Deleting a freed EventCtx, or calling into a freed SSL object, is taken *)
(* to end the process (up = FALSE): what a corrupted heap does afterwards  *)
(* is not followed, and the properties speak of the time before.  Reading  *)
(* the sock field of a freed EventCtx yields one of the values that can    *)
(* still be there.                                                         *)
(***************************************************************************)
EXTENDS Integers, Sequences

CONSTANTS
  ThreadNum,      \* m_iThreadnum, from performance:threads of server.conf
  Fds,            \* descriptor numbers the kernel may give to connections
  PipeCapacity,   \* descriptors a notify pipe holds before write() fails
  EnableSSL,      \* CConfiger::GetEnableSSL()
  Conns,          \* the connections clients open, each of them once
  Ctxs,           \* addresses of EventCtx blocks
  Objs,           \* addresses of CReqHandlerObj blocks
  ActivaTimeval,  \* ACTIVA_TIMEVAL, in ticks of the model's clock
  None            \* NULL

Threads == 0 .. (ThreadNum - 1)
NoFd    == -1
Keys    == Fds \cup {NoFd}
Ages    == 0 .. ActivaTimeval
CtxType == [sock : Fds, base : Threads, peer : Conns]
ObjType == [arg : Ctxs, peer : Conns]

ASSUME ThreadAssumption == ThreadNum \in Nat \ {0}
ASSUME FdAssumption     == Fds \subseteq Nat
ASSUME BoundAssumption  == PipeCapacity \in Nat \ {0} /\ ActivaTimeval \in Nat \ {0}
ASSUME SSLAssumption    == EnableSSL \in BOOLEAN
ASSUME NoneAssumption   == /\ None \notin Conns \cup Ctxs \cup Objs
                           /\ None \notin CtxType
                           /\ None \notin ObjType

VARIABLES
  up,        \* the process is running
  sockOf,    \* kernel: descriptor -> the connection it is open on, or None
  waiting,   \* connections whose client has not connected yet
  accepted,  \* DoAccept: the descriptor accept() returned, not pushed yet
  pipe,      \* per thread: descriptors in its notify pipe
  ctx,       \* EventCtx blocks: content, or None when the block is free
  obj,       \* CReqHandlerObj blocks: content, or None when free
  idle,      \* per handler block: ticks since m_activeTime
  reqMap,    \* m_ReqHandlerMap: descriptor -> handler, or None
  pc,        \* per thread: where its event loop is
  cb,        \* per thread: the arguments of the running callback
  from,      \* per thread: the connection the received bytes came from
  sockfd,    \* per thread: sockfd of HandleRequest
  pObj       \* per thread: pObj of HandleRequest while the thread owns it

network == <<sockOf, waiting, accepted, pipe>>
locals  == <<pc, cb, from, sockfd, pObj>>
vars    == <<up, network, ctx, obj, idle, reqMap, locals>>

(* fd and arg of a libevent callback, and the connection arg was made for  *)
CallType == [fd : Keys, ctx : Ctxs \cup {None}, peer : Conns \cup {None}]
NoCall   == [fd |-> NoFd, ctx |-> None, peer |-> None]

Labels == {"loop", "accept", "recv", "handle", "create", "insert", "finish", "send"}

TypeOK ==
  /\ up \in BOOLEAN
  /\ sockOf \in [Fds -> Conns \cup {None}]
  /\ waiting \subseteq Conns
  /\ accepted \in Keys
  /\ pipe \in [Threads -> Seq(Fds)]
  /\ ctx \in [Ctxs -> CtxType \cup {None}]
  /\ obj \in [Objs -> ObjType \cup {None}]
  /\ idle \in [Objs -> Ages]
  /\ reqMap \in [Keys -> Objs \cup {None}]
  /\ pc \in [Threads -> Labels]
  /\ cb \in [Threads -> CallType]
  /\ from \in [Threads -> Conns \cup {None}]
  /\ sockfd \in [Threads -> Keys]
  /\ pObj \in [Threads -> Objs \cup {None}]

Init ==
  /\ up = TRUE
  /\ sockOf = [f \in Fds |-> None]
  /\ waiting = Conns
  /\ accepted = NoFd
  /\ pipe = [t \in Threads |-> <<>>]
  /\ ctx = [c \in Ctxs |-> None]
  /\ obj = [o \in Objs |-> None]
  /\ idle = [o \in Objs |-> 0]
  /\ reqMap = [f \in Keys |-> None]
  /\ pc = [t \in Threads |-> "loop"]
  /\ cb = [t \in Threads |-> NoCall]
  /\ from = [t \in Threads |-> None]
  /\ sockfd = [t \in Threads |-> NoFd]
  /\ pObj = [t \in Threads |-> None]

-----------------------------------------------------------------------------
(* Heap, kernel and control                                                *)

LiveCtxs == {c \in Ctxs : ctx[c] # None}
LiveObjs == {o \in Objs : obj[o] # None}
OpenFds  == {f \in Fds : sockOf[f] # None}

(* The process aborts; nothing else it holds matters any more.             *)
Abort ==
  /\ up' = FALSE
  /\ UNCHANGED <<network, ctx, obj, idle, reqMap, locals>>

(* ~event_ctx of every context in C: the event is deleted, the socket      *)
(* closed and the block freed.                                             *)
DeleteCtxs(C) ==
  /\ ctx' = [c \in Ctxs |-> IF c \in C THEN None ELSE ctx[c]]
  /\ sockOf' = [f \in Fds |-> IF \E c \in C : ctx[c].sock = f THEN None ELSE sockOf[f]]
  /\ UNCHANGED <<waiting, accepted, pipe>>

(* The SSL object of the context thread t's callback was raised for is     *)
(* still there; the callback keeps a copy of the pointer.                  *)
SslAlive(t) == \E c \in LiveCtxs : ctx[c].peer = cb[t].peer

Goto(t, label) == pc' = [pc EXCEPT ![t] = label]

Return(t) ==
  /\ Goto(t, "loop")
  /\ cb' = [cb EXCEPT ![t] = NoCall]
  /\ from' = [from EXCEPT ![t] = None]
  /\ sockfd' = [sockfd EXCEPT ![t] = NoFd]
  /\ pObj' = [pObj EXCEPT ![t] = None]

-----------------------------------------------------------------------------
(* The accepting thread                                                    *)

(* accept() returns the lowest free descriptor.  With none left it fails   *)
(* and the loop goes round.                                                *)
DoAccept(k) ==
  /\ up /\ accepted = NoFd /\ k \in waiting
  /\ \E fd \in Fds \ OpenFds :
       /\ \A g \in Fds \ OpenFds : fd <= g
       /\ sockOf' = [sockOf EXCEPT ![fd] = k]
       /\ accepted' = fd
  /\ waiting' = waiting \ {k}
  /\ UNCHANGED <<up, pipe, ctx, obj, idle, reqMap, locals>>

(* The thread that serves a descriptor.                                    *)
Index(fd) == fd % ThreadNum

(* Mutant: the result of accept() is pushed unchecked.                     *)
PushTaskUnchecked ==
  /\ up
  /\ Len(pipe[Index(accepted)]) < PipeCapacity
  /\ pipe' = [pipe EXCEPT ![Index(accepted)] = Append(pipe[Index(accepted)], accepted)]
  /\ accepted' = NoFd
  /\ UNCHANGED <<up, sockOf, waiting, ctx, obj, idle, reqMap, locals>>

(* The descriptor is written to the pipe of thread Index(fd); when the     *)
(* pipe is full the write fails, and DoAccept ignores the result.          *)
PushTask ==
  /\ up /\ accepted # NoFd
  /\ LET index == Index(accepted)
     IN  pipe' = IF Len(pipe[index]) < PipeCapacity
                 THEN [pipe EXCEPT ![index] = Append(pipe[index], accepted)]
                 ELSE pipe
  /\ accepted' = NoFd
  /\ UNCHANGED <<up, sockOf, waiting, ctx, obj, idle, reqMap, locals>>

-----------------------------------------------------------------------------
(* A worker thread takes over a connection                                 *)

(* Mutant: the descriptor stays in the pipe.                               *)
PipePeekCallBack(t) ==
  /\ up /\ pc[t] = "loop" /\ pipe[t] # <<>>
  /\ Goto(t, "accept")
  /\ cb' = [cb EXCEPT ![t] = [fd |-> Head(pipe[t]), ctx |-> None, peer |-> None]]
  /\ UNCHANGED <<up, network, ctx, obj, idle, reqMap, from, sockfd, pObj>>

PipeReadCallBack(t) ==
  /\ up /\ pc[t] = "loop" /\ pipe[t] # <<>>
  /\ pipe' = [pipe EXCEPT ![t] = Tail(pipe[t])]
  /\ Goto(t, "accept")
  /\ cb' = [cb EXCEPT ![t] = [fd |-> Head(pipe[t]), ctx |-> None, peer |-> None]]
  /\ UNCHANGED <<up, sockOf, waiting, accepted, ctx, obj, idle, reqMap,
                 from, sockfd, pObj>>

(* CreateSSL gives up; the callback returns and leaves the socket open.    *)
CreateSSLFails(t) ==
  /\ up /\ pc[t] = "accept" /\ EnableSSL
  /\ Return(t)
  /\ UNCHANGED <<up, network, ctx, obj, idle, reqMap>>

(* With SSL on, this step is taken once the client has completed the       *)
(* handshake that SSL_accept is retried for.                               *)
OnPipeReadCallback(t) ==
  /\ up /\ pc[t] = "accept"
  /\ \E c \in Ctxs \ LiveCtxs :
       ctx' = [ctx EXCEPT ![c] = [sock |-> cb[t].fd, base |-> t, peer |-> sockOf[cb[t].fd]]]
  /\ Return(t)
  /\ UNCHANGED <<up, network, obj, idle, reqMap>>

-----------------------------------------------------------------------------
(* A worker thread serves a readable connection                            *)

EventCallBack(t, c) ==
  /\ up /\ pc[t] = "loop" /\ c \in LiveCtxs /\ ctx[c].base = t
  /\ Goto(t, "recv")
  /\ cb' = [cb EXCEPT ![t] = [fd |-> ctx[c].sock, ctx |-> c, peer |-> ctx[c].peer]]
  /\ UNCHANGED <<up, network, ctx, obj, idle, reqMap, from, sockfd, pObj>>

(* SSL_read on an SSL object that another thread has freed meanwhile.      *)
RecvOnFreedSsl(t) ==
  /\ up /\ pc[t] = "recv" /\ EnableSSL /\ ~SslAlive(t)
  /\ Abort

(* len > 0.  NormalRecv reads whatever connection the descriptor is open   *)
(* on by now.                                                              *)
RecvData(t) ==
  /\ up /\ pc[t] = "recv" /\ (EnableSSL => SslAlive(t))
  /\ sockOf[cb[t].fd] # None
  /\ Goto(t, "handle")
  /\ from' = [from EXCEPT ![t] = sockOf[cb[t].fd]]
  /\ UNCHANGED <<up, network, ctx, obj, idle, reqMap, cb, sockfd, pObj>>

(* Mutant: no return after EventCtx_free.                                  *)
RecvNothingWithoutReturn(t) ==
  /\ up /\ pc[t] = "recv" /\ cb[t].ctx \in LiveCtxs
  /\ DeleteCtxs({cb[t].ctx})
  /\ Goto(t, "handle")
  /\ UNCHANGED <<up, obj, idle, reqMap, cb, from, sockfd, pObj>>

(* len <= 0: the client closed, or recv failed.  EventCtx_free(pCtx); the  *)
(* request map is left as it is.                                           *)
RecvNothing(t) ==
  /\ up /\ pc[t] = "recv" /\ (EnableSSL => SslAlive(t))
  /\ \/ /\ cb[t].ctx \in LiveCtxs
        /\ DeleteCtxs({cb[t].ctx})
        /\ Return(t)
        /\ UNCHANGED <<up, obj, idle, reqMap>>
     \/ /\ cb[t].ctx \in LiveCtxs => ctx[cb[t].ctx].base # t
        /\ Abort

(* What HandleRequest reads as pev->sock, before it takes the lock: the    *)
(* descriptor the block was for, or what is there by now (of a freed block *)
(* the -1 the destructor stored, unless the compiler dropped that store).  *)
SockRead(t) ==
  {cb[t].fd, IF cb[t].ctx \in LiveCtxs THEN ctx[cb[t].ctx].sock ELSE NoFd}

(* HandleRequest with a pending handler in the map: CheckData appends the  *)
(* data and refreshes the activity time; an answer other than DATA_DEF     *)
(* takes the handler out of the map, all under the lock.                   *)
HandleFound(t) ==
  /\ up /\ pc[t] = "handle"
  /\ \E key \in SockRead(t) :
       /\ reqMap[key] # None
       /\ idle' = [idle EXCEPT ![reqMap[key]] = 0]
       /\ \/ Return(t) /\ UNCHANGED reqMap                            \* DATA_DEF
          \/ /\ Goto(t, "finish")                                     \* DATA_OK, DATA_ERROR
             /\ pObj' = [pObj EXCEPT ![t] = reqMap[key]]
             /\ reqMap' = [reqMap EXCEPT ![key] = None]
             /\ UNCHANGED <<cb, from, sockfd>>
  /\ UNCHANGED <<up, network, ctx, obj>>

(* HandleRequest with none: the lock is dropped before the pool is used.   *)
HandleNotFound(t) ==
  /\ up /\ pc[t] = "handle"
  /\ \E key \in SockRead(t) :
       /\ reqMap[key] = None
       /\ sockfd' = [sockfd EXCEPT ![t] = key]
  /\ Goto(t, "create")
  /\ UNCHANGED <<up, network, ctx, obj, idle, reqMap, cb, from, pObj>>

(* A new handler checks the data; DATA_DEF goes on to the insertion.       *)
CreateHandler(t) ==
  /\ up /\ pc[t] = "create"
  /\ \E o \in Objs \ LiveObjs :
       /\ obj' = [obj EXCEPT ![o] = [arg |-> cb[t].ctx, peer |-> from[t]]]
       /\ idle' = [idle EXCEPT ![o] = 0]
       /\ pObj' = [pObj EXCEPT ![t] = o]
  /\ Goto(t, "insert") \/ Goto(t, "finish")
  /\ UNCHANGED <<up, network, ctx, reqMap, cb, from, sockfd>>

(* std::map::insert keeps an entry that is already there.  DATA_DEF is not *)
(* answered: the callback returns.                                         *)
InsertHandler(t) ==
  /\ up /\ pc[t] = "insert"
  /\ reqMap' = IF reqMap[sockfd[t]] = None
               THEN [reqMap EXCEPT ![sockfd[t]] = pObj[t]] ELSE reqMap
  /\ Return(t)
  /\ UNCHANGED <<up, network, ctx, obj, idle>>

(* The parser throws std::out_of_range out of CheckData; nothing catches.  *)
CheckDataThrows(t) ==
  /\ up
  /\ \/ pc[t] = "create"
     \/ pc[t] = "handle" /\ \E key \in SockRead(t) : reqMap[key] # None
  /\ Abort

(* Mutant: the handler is not deleted.                                     *)
FinishRequestLeaks(t) ==
  /\ up /\ pc[t] = "finish"
  /\ pObj' = [pObj EXCEPT ![t] = None]
  /\ Goto(t, "send")
  /\ UNCHANGED <<up, network, ctx, obj, idle, reqMap, cb, from, sockfd>>

(* Mutant: "Connection: Close" is acted upon before the reply is sent.     *)
FinishRequestCloses(t) ==
  /\ up /\ pc[t] = "finish" /\ cb[t].ctx \in LiveCtxs
  /\ obj' = [obj EXCEPT ![pObj[t]] = None]
  /\ pObj' = [pObj EXCEPT ![t] = None]
  /\ DeleteCtxs({cb[t].ctx})
  /\ Goto(t, "send")
  /\ UNCHANGED <<up, idle, reqMap, cb, from, sockfd>>

(* OnHandle composes the reply for DATA_OK; the handler is deleted.        *)
FinishRequest(t) ==
  /\ up /\ pc[t] = "finish"
  /\ obj' = [obj EXCEPT ![pObj[t]] = None]
  /\ pObj' = [pObj EXCEPT ![t] = None]
  /\ Goto(t, "send")
  /\ UNCHANGED <<up, network, ctx, idle, reqMap, cb, from, sockfd>>

(* The reply goes to whatever the descriptor is open on, or nowhere; with  *)
(* SSL, through the copied pointer.                                        *)
SendReply(t) ==
  /\ up /\ pc[t] = "send"
  /\ \/ /\ EnableSSL => SslAlive(t)
        /\ Return(t)
        /\ UNCHANGED <<up, network, ctx, obj, idle, reqMap>>
     \/ EnableSSL /\ ~SslAlive(t) /\ Abort

(* The client has closed its side when the worker writes to it, in the SSL *)
(* handshake or with the reply.  SIGPIPE is neither handled nor masked.    *)
SendToClosedPeer(t) ==
  /\ up /\ (pc[t] = "send" \/ (pc[t] = "accept" /\ EnableSSL))
  /\ sockOf[cb[t].fd] # None
  /\ Abort

-----------------------------------------------------------------------------
(* Time                                                                    *)

Older(age) == IF age < ActivaTimeval THEN age + 1 ELSE age

Tick ==
  /\ up
  /\ idle' = [o \in Objs |-> IF o \in LiveObjs THEN Older(idle[o]) ELSE 0]
  /\ UNCHANGED <<up, network, ctx, obj, reqMap, locals>>

(* Mutant: requests of closed connections are skipped.                     *)
ExpiredIfOpen ==
  {f \in Keys : /\ reqMap[f] # None /\ idle[reqMap[f]] >= ActivaTimeval
                /\ obj[reqMap[f]].arg \in LiveCtxs}

(* Requests whose handler has seen no data for ACTIVA_TIMEVAL.             *)
Expired == {f \in Keys : reqMap[f] # None /\ idle[reqMap[f]] >= ActivaTimeval}

(* The contexts their handlers point to.                                   *)
ExpiredCtxs == {obj[reqMap[f]].arg : f \in Expired}

(* Every expired context is still allocated, and named by one handler only:*)
(* the scan deletes each of them exactly once.                             *)
ExpiredCtxsSound ==
  /\ ExpiredCtxs \subseteq LiveCtxs
  /\ \A f, g \in Expired : obj[reqMap[f]].arg = obj[reqMap[g]].arg => f = g

(* Mutant: the handlers are deleted and stay in the map.                   *)
OnCheckActiveTimeWithoutErase(t) ==
  /\ up /\ pc[t] = "loop" /\ ExpiredCtxsSound
  /\ DeleteCtxs(ExpiredCtxs)
  /\ obj' = [o \in Objs |-> IF \E f \in Expired : reqMap[f] = o THEN None ELSE obj[o]]
  /\ UNCHANGED <<up, idle, reqMap, locals>>

(* The timer of thread t scans the whole map, whichever threads its        *)
(* entries belong to, and deletes the context and the handler of each      *)
(* expired request.  libevent is not told about threads, so deleting an    *)
(* event of another thread's loop may corrupt that loop.                   *)
OnCheckActiveTime(t) ==
  /\ up /\ pc[t] = "loop"
  /\ \/ /\ ExpiredCtxsSound
        /\ DeleteCtxs(ExpiredCtxs)
        /\ obj' = [o \in Objs |-> IF \E f \in Expired : reqMap[f] = o THEN None ELSE obj[o]]
        /\ reqMap' = [f \in Keys |-> IF f \in Expired THEN None ELSE reqMap[f]]
        /\ UNCHANGED <<up, idle, locals>>
     \/ /\ \/ ~ExpiredCtxsSound
           \/ \E c \in ExpiredCtxs \cap LiveCtxs : ctx[c].base # t
        /\ Abort

-----------------------------------------------------------------------------
Worker(t) ==
  \/ PipeReadCallBack(t)
  \/ CreateSSLFails(t)
  \/ OnPipeReadCallback(t)
  \/ \E c \in Ctxs : EventCallBack(t, c)
  \/ RecvOnFreedSsl(t)
  \/ RecvData(t)
  \/ RecvNothing(t)
  \/ HandleFound(t)
  \/ HandleNotFound(t)
  \/ CreateHandler(t)
  \/ InsertHandler(t)
  \/ CheckDataThrows(t)
  \/ FinishRequest(t)
  \/ SendReply(t)
  \/ SendToClosedPeer(t)
  \/ OnCheckActiveTime(t)

Next ==
  \/ \E k \in Conns : DoAccept(k)
  \/ PushTask
  \/ \E t \in Threads : Worker(t)
  \/ Tick

Spec == Init /\ [][Next]_vars

(* A worker thread does not stop inside a callback by itself, and libevent *)
(* visits every ready event and every due timer on each round of its loop. *)
(* Nothing is assumed of the clients: the steps that wait for one (the end *)
(* of a handshake, data or a close for NormalRecv) carry no fairness.      *)
Fairness ==
  /\ WF_vars(PushTask)
  /\ WF_vars(Tick)
  /\ \A t \in Threads :
       /\ SF_vars(PipeReadCallBack(t))
       /\ SF_vars(OnCheckActiveTime(t))
       /\ WF_vars(HandleFound(t) \/ HandleNotFound(t))
       /\ WF_vars(CreateHandler(t) \/ InsertHandler(t))
       /\ WF_vars(FinishRequest(t) \/ SendReply(t))

FairSpec == Spec /\ Fairness

-----------------------------------------------------------------------------
(* Properties                                                              *)

Held(t)       == pObj[t] # None
InCallback(t) == pc[t] \notin {"loop", "accept"}

(* A handler in the map is allocated, and is there under one descriptor.   *)
MapSound ==
  \A f \in Keys : reqMap[f] # None =>
    /\ obj[reqMap[f]] # None
    /\ \A g \in Keys : reqMap[g] = reqMap[f] => g = f

(* A handler in a worker's hands is allocated, is not in the map and is in *)
(* no other worker's hands.                                                *)
HeldExclusive ==
  \A t \in Threads : Held(t) =>
    /\ obj[pObj[t]] # None
    /\ \A f \in Keys : reqMap[f] # pObj[t]
    /\ \A u \in Threads : pObj[u] = pObj[t] => u = t

(* HandleRequest and OnCheckActiveTime share handlers only through the     *)
(* map: no handler is used after it was deleted, or deleted twice,         *)
(* whatever the threads do.                                                *)
HandlerOwnership == MapSound /\ HeldExclusive

(* The places a descriptor on its way to a worker's loop can be.           *)
InPipe(f, t)      == \E i \in DOMAIN pipe[t] : pipe[t][i] = f
Registering(f, t) == pc[t] = "accept" /\ cb[t].fd = f

(* On its way a descriptor is open, in one place and at the right thread.  *)
QueuedOpen ==
  /\ accepted # NoFd => sockOf[accepted] # None
  /\ \A t \in Threads, f \in Fds : InPipe(f, t) \/ Registering(f, t) =>
       /\ sockOf[f] # None /\ f # accepted /\ t = Index(f)
       /\ ~(InPipe(f, t) /\ Registering(f, t))

(* A pipe holds no descriptor twice.                                       *)
QueuedOnce ==
  \A t \in Threads : \A i, j \in DOMAIN pipe[t] : pipe[t][i] = pipe[t][j] => i = j

(* A context is the only one for its descriptor, which is open on the      *)
(* connection the context was made for and is on its way nowhere.          *)
ContextOwnsSocket ==
  \A c \in LiveCtxs :
    /\ sockOf[ctx[c].sock] = ctx[c].peer
    /\ ctx[c].base = Index(ctx[c].sock)
    /\ accepted # ctx[c].sock
    /\ \A t \in Threads : ~InPipe(ctx[c].sock, t) /\ ~Registering(ctx[c].sock, t)
    /\ \A d \in LiveCtxs : ctx[d].sock = ctx[c].sock => d = c

(* A descriptor handed from DoAccept through a pipe to a worker is always  *)
(* open, is in one place at a time, and only in the pipe or the loop of    *)
(* thread fd % m_iThreadnum; a registered context reads the connection     *)
(* that was accepted for it, although descriptors and blocks are reused.   *)
DescriptorOwnership == QueuedOpen /\ QueuedOnce /\ ContextOwnsSocket

(* While EventCallBack runs, the context it was raised for stays           *)
(* allocated: the pointers it copied from it remain good.  Holds with one  *)
(* worker thread; main.cpp:18 says that with several the pipes make locks  *)
(* unnecessary.                                                            *)
CallbackContextAlive ==
  \A t \in Threads : up /\ InCallback(t) =>
    /\ cb[t].ctx \in LiveCtxs
    /\ ctx[cb[t].ctx].peer = cb[t].peer

(* The reply of a request is sent on the connection its bytes came from.   *)
ReplyToRequester ==
  \A t \in Threads : up /\ pc[t] = "send" => sockOf[cb[t].fd] = from[t]

(* No handler is lost: every allocated one is in the map, where the timer  *)
(* finds it, or in the hands of a worker that will delete or insert it.    *)
HandlersAccounted ==
  \A o \in LiveObjs : (\E f \in Keys : reqMap[f] = o) \/ (\E t \in Threads : pObj[t] = o)

(* CReqHandlerObj.h:10, each request is one handler object: the handler    *)
(* that completes a request is the one created for that connection.        *)
RequestKeepsItsHandler ==
  \A t \in Threads : pc[t] = "finish" => obj[pObj[t]].peer = from[t]

(* No client keeps a worker inside a callback for ever.                    *)
WorkersReturn == \A t \in Threads : []<>(pc[t] = "loop" \/ ~up)

(* If the workers keep returning to their loops, a descriptor in a pipe is *)
(* taken out of it.                                                        *)
QueuedIsTaken ==
  WorkersReturn => \A f \in Fds, t \in Threads : InPipe(f, t) ~> (~InPipe(f, t) \/ ~up)

(* If the workers keep returning to their loops, a pending request either  *)
(* receives data again or is removed from the map by OnCheckActiveTime.    *)
PendingExpires ==
  WorkersReturn =>
    \A f \in Keys, o \in Objs :
      (reqMap[f] = o /\ idle[o] > 0) ~> (reqMap[f] # o \/ idle[o] = 0 \/ ~up)
=============================================================================
