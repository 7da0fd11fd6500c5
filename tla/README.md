# A verification project for NetServer

NetServer is an event-driven HTTP server in C++ (libevent, OpenSSL, hiredis,
MySQL). One thread accepts connections and passes their descriptors through
pipes to worker threads; each worker runs one event loop. A request that needs
more data is kept in a map shared by all workers, and a timer removes requests
that wait too long. Handlers are allocated from a memory pool of fixed-size
blocks.

This directory models the Linux build in TLA+, checks small instances with TLC
and proves the central safety properties with TLAPS for every value of the
constants. Paths below are relative to `src/MainServer/source/` unless they
start with `src/`.

## Inventory of the system

| Part | State | Operations | Hard behaviour |
|---|---|---|---|
| `Connection/CMainEventBase` (Linux) | listening socket | `DoAccept` | ignores the result of `PushTask` |
| `Connection/CEventBaseMgr` | per thread: event loop, notify pipe; per connection: `EventCtx` | `PushTask`, `PipeReadCallBack`, `OnPipeReadCallback`, `CreateSSL`, `EventCallBack`, `SslRecv`, `NormalRecv`, `SslSend`, `NormalSend`, `TimeoutCallBack` | full pipe, failing handshake, descriptors and heap blocks reused, contexts freed by another thread's timer, SIGPIPE |
| `Request/CMgrRequest` | `m_ReqHandlerMap` under `m_LockerReqMap` | `HandleRequest`, `OnCheckActiveTime`, `ReleaseHandler` (no caller), singleton | lock dropped between lookup and insertion, handlers left by closed connections |
| `Request/CReqHandlerObj` | received text, activity time, pointer to its context | `CheckData`, `OnHandle` | signed length compared as unsigned |
| `Request/CHttpParse` | header fields, content, a reference to the handler's text | `parse_request`, `parse_line_data_type`, `get_line`, `parse_line` | requests cut anywhere, `npos + 2` |
| `src/MemPool` | per size class: free list, count, mutex | `Malloc`, `Free`, constructor, destructor | free list threaded through client memory |
| `Request/CObjPoolTmpl.h` | none | `Create`, `Delete` | no test for NULL |
| `Redis/*` | connection, reconnect counter; map of clients | `ExecCommand`, `ReConnect`, `TestOnline`, `OnTestOnLine`, `GetRedisClient` | check-then-act on the map, uninitialised counter |
| `Mysql/CSqlClient`, `CSqlServiceMgr` | connection, autocommit; map of clients | `ExecSqlCmd`, `BeginTrans`, `TransCommit`, `TransRollback`, `TestOnline`, `GetSqlClient` | autocommit not restored, check-then-act |
| `Mysql/CRecord`, `CField`, `CUtilSql` | rows, cursor | `ExecuteSQL`, `Move*`, getters | rows accumulate over queries |
| `OptRecords/*` (not in the Makefile) | keys, batches, condition, threads | `ProccessTargetKey`, `OnThreadWorker`, `OnStart`, `OnStop` | crash between Redis and MySQL, condition deleted before the join |
| `Config/CConfiger` | settings | `OnInit`, `ReadLine`, `ParaseLine`, lookups | blank-line limit, `threads=0` |
| `WLog/wLog` | current file, list of files | `WriteLog`, `SwitchNewFile`, `CleanFile_` | names repeat within a second, cleaning removes files, restarts |
| `Common/*` | Base64 tables, locks | `Encode`, `Decode`, `GetCRC`, lock classes | padding |
| `main.cpp` | singletons | `SystemInit`, `SystemQuit` | double-checked creation |
| WIN32 branch of `CMainEventBase` | as `CEventBaseMgr`, one thread | copies of its callbacks | none of the threads |
| `src/SSLTestC`, vendored libraries | | | test program; third-party code |

What makes each part correct, in short: a descriptor is served by one thread and
closed once; a context outlives the callbacks that use it; a handler belongs to
the map or to one worker, is deleted once and is never lost; a request is
handled when, and only when, all of it has arrived; silent connections are
closed; a pool block has one owner and finds its way back; a client in a map of
Redis or MySQL clients is the only one for its key and is replaced when its
server is gone; a record taken from Redis reaches MySQL; a log file respects its
limit.

## Modules

| Module | What it is |
|---|---|
| `EventServer` | the connection and request core: `CMainEventBase`, `CEventBaseMgr`, `CMgrRequest` composed, with kernel descriptors and heap blocks |
| `EventServerProofs` | its inductive invariants and theorems |
| `RecvSend` | one connection in detail: `EventCallBack` with `SslRecv`, `NormalRecv`, `SslSend`, `NormalSend` |
| `RecvSendProofs` | its inductive invariant and theorems |
| `HttpParse` | `CReqHandlerObj::CheckData` over `CHttpParse`, fed with segments |
| `HttpParseProofs` | its inductive invariant, the induction along the parser's loop, and the theorems |
| `Allocator` | what a client of the memory pool may rely on |
| `MemPool` | `MemoryPool` and `MemoryChunk` used by several threads |
| `MemPoolProofs` | its inductive invariant, the theorems, and the proof that `MemPool` implements `Allocator` |
| `Configer` | `CConfiger::OnInit` |
| `RedisService` | `CRedisServiceMgr` and its `CRedisClient` objects |
| `SqlService` | `CSqlServiceMgr` and its `CSqlClient` objects |
| `Pointers` | the two constants these share |
| `Services` | `SystemInit`: the configuration composed with both managers |
| `ConfigerProofs` | the invariant of the configuration loop, the induction along the scan of `SplitString2`, and the theorems |
| `ServiceProofs` | the inductive invariants of both managers and their theorems |
| `RcdLog` | `CRcdLogClient` and its stop by `CRcdServiceMgr` |
| `RcdLogProofs` | its inductive invariant and theorems |
| `WLog` | the log |
| `WLogProofs` | its inductive invariant and theorems |
| `MCEventServer`, `MCHttpParse`, `MCMemPool`, `MCServices` | symmetry sets and constant values for TLC |

Operators whose comment begins with "Mutant" are faulty variants of the operator
that follows. No specification uses them; they serve to see that each property
fails when the code it is about goes wrong.

### EventServer

One action is one callback, or the part of a callback up to the next point where
another thread can intervene: `pc[t]` says where worker `t` is. A critical
section of `m_LockerReqMap` is one step.

- `DoAccept`, `PushTask`: the accepting thread. The kernel returns the lowest
  free descriptor. A full pipe drops the descriptor, which stays open.
- `PipeReadCallBack`, `CreateSSLFails`, `OnPipeReadCallback`: a worker takes a
  descriptor over; a failing handshake leaves the socket open and unregistered.
- `EventCallBack`, `RecvData`, `RecvNothing`, `RecvOnFreedSsl`: the callback
  copies its pointers from the context and receives. `RecvNothing` frees the
  context and leaves the map alone, as the code does.
- `HandleFound`, `HandleNotFound`, `CreateHandler`, `InsertHandler`,
  `CheckDataThrows`, `FinishRequest`: `CMgrRequest::HandleRequest`. What
  `CheckData` answers is a free choice; `HttpParse` says which answers exist.
- `SendReply`, `SendToClosedPeer`: the reply; SIGPIPE has its default action.
  The loops inside receiving and sending are `RecvSend`.
- `OnCheckActiveTime`: the timer of a thread. It scans the whole map.
- `Tick`: time. Ages stop at `ActivaTimeval`, the only value they are compared
  with.

A second delete of a context and a call into a freed SSL object are undefined
and may go unnoticed for a while. By convention they end the process here (`up =
FALSE`): what a corrupted heap does afterwards is not followed, and the
properties speak of the time before it. An event deleted in another thread's loop
may end the process or go unnoticed; the `sock` field of a freed block reads as
its old value or as -1. Freed blocks and closed descriptors are reused.

Left out: allocation failure of a handler (`MemPool` has it), `exit` on a short
read from the notify pipe (four bytes are written and read whole), and
`OnStop`, which `DoAccept` never lets the program reach.

### RecvSend

One connection, with or without SSL, from its registration to `EventCtx_free`.
The client sends, closes, is reset, reads replies and renegotiates when it
likes; the network delivers any part of what was sent. Bytes are numbered, and
one of them may be a zero byte (`nul`). Each `recv`, `SSL_read`, `send` and
`SSL_write` is a step:

- `NormalRecv` retries on `EAGAIN` and returns with a full buffer, or at the end
  of the stream. `SslRecv` returns on any error, `WANT_READ` included; OpenSSL
  hands out bytes of complete records only, keeps partial ones and what did not
  fit the buffer, and libevent sees only what is still in the socket.
- `HandleRequest` gets the buffer as a C string (`CString`): up to the first zero
  byte, and whatever is found behind a full buffer.
- `NormalSend` retries while the socket buffer is full; `SslSend` gives up on
  `WANT_WRITE`.

### HttpParse

Bytes are tokens: the text of a line, of which the parser distinguishes a method
line, a header, a length header and a line that is none of these, and the single
bytes CR, LF and body byte. `Init` chooses a request; `CheckData(n)` delivers the
next `n` tokens to the waiting handler or to a new one. `ParseLine` is one turn of
the loop of `parse_line_data_type`, `ParseLines` the loop; `NoLineEnd` is the
branch of `get_line` in which `npos + 2` wraps round to 1. `m_requestData` is a
reference to the handler's text, so what the parser consumes is gone:
`requestStr'` is what it leaves. `Request(b)` is the header, the empty line and
`b`; a first segment that has the header is `Request(Arrived)`, with `Arrived` the
part of the body that came with it.

### MemPool and Allocator

Each chunk has a free list through the first word of its blocks, which is also
the first word of the client's memory (`ClientWrite` destroys it). Taking the
mutex and reading the head is one step, writing the head and releasing the mutex
another. `DeleteBlock` is one round of the destructor's loop, up to its
assertion.

`Allocator` has no lists, headers or mutexes: memory nobody holds is given out
with enough room, only its client changes it, and the pool is destroyed when all
of it is back. `MemPool!Implements` states that `MemPool` does this under the
mapping `Pool`: `held` is the request a block was handed out for, `room` the
length in its header, `content` its first word while a client holds it.

### Configer, RedisService, SqlService, Services

`Configer` is the loop of `OnInit` over a file of lines. A line is its head and
the tokens right of the equals sign; a text that is no number has the value 0
(`Atoi`), and a number is read up to the first separator. `SplitString2` is
modelled as it scans, a character a turn (`SplitTurn`), and `FieldsOf` says what
it should return (a separator in front is skipped, two in a row enclose an empty
field, nothing behind the last is not a field). `ReadLine` sets failbit on an
overlong line, and the fifth blank line in a row ends the file.

`RedisService` and `SqlService` have the same shape: a map from zone to client
under the manager's lock, a connection under each client's lock, threads that
look up and use clients, the tester thread that pings every client of the map,
and servers that go down, hang and come back. Each lock is a variable, and each
stretch between two lock operations a step. `rwire` holds the commands a Redis
connection has still to answer, in order, because replies carry no tag. The
constructor of `CRedisClient` leaves `m_iReconnectCount` uninitialised: a new
client has any value of `Uninit`. No code of the repository calls
`GetRedisClient` or `GetSqlClient`; the users are modelled as threads that call
them, run commands and drop the client. `MakeAndInsert`, with which `GetSqlClient`
makes a client for a zone the map does not have, is one step and always fails to
connect: it takes the address from the zone's Redis line
(`CSqlServiceMgr.cpp:134`), and a Redis server is assumed not to accept a MySQL
client. The success path of `MakeSqlClient` is left out with it.

`Services` composes the three: the configuration is read, and the zones it gives
are what the managers start with. The managers share nothing after that, so a
behaviour follows the threads of one of them, and `Followed` (a bound) says for
which files.

### RcdLog

The thread visits the keys in turn, counts, pops a batch record by record and
sends one statement; each Redis or MySQL command is a step and may fail. Other
processes fill the sets, the manager stops the thread, the process dies at any
point. The number of records is finite; a record that was stored or lost is
recycled as a new one, so that producers never stop.

### WLog

A call of `WriteLog` holds the one lock from beginning to end and is one action:
cleaning, if it is due (`Cleaned(k)`: the numbers of files the two loops may take
off the list), then the message to the open file, to a new one, or nowhere.
Between calls time passes and the process stops and starts. `plainName` is whether
`argv[0]` has no directory part.

The code goes on after every call that fails, and each may: `scandir`, which
leaves the list empty; `stat`, and `mkdir`, after which nothing is written
(`NotListed`); any `unlink` (`Without(gone)`, where `gone` is what was really
removed of the files taken off the list); `fopen` (`WriteFails`); `fwrite`
(`Written`). Files are named by local time, to the second, and local time may be
set back (`SetBack`): daylight saving does so every year. Two history variables
name what the properties exclude: `missed` are the files a failing call has
made the process lose sight of, `back` is whether the time was ever set back.

## Runs

| Run | Instance | States | Shows |
|---|---|---|---|
| `server_one_thread` | 1 thread, SSL, 2 descriptors, 3 connections, 2 contexts, 2 handlers, expiry after 1 tick | 70,043 | contexts alive during callbacks, replies to the requester, no handler lost; queued descriptors are taken, pending requests continue or expire |
| `server_two_threads` | 2 threads, SSL, 2 descriptors, 3 connections, 2 contexts, 3 handlers, expiry after 1 tick | 94,068 | ownership of handlers and descriptors under interleaving |
| `recv_send` | 4 bytes, buffer of 2, replies of 2 bytes, socket buffer of 3 | 224,086 | no byte lost or repeated, what the handler sees, when a context is freed, replies in order; callbacks return, and what was sent before a close is handled |
| `pool_two_threads` | 2 threads, 4 blocks, 2 classes, sizes at and around the class boundaries | 22,947 | free lists sound, blocks handed out once, large enough, none lost, destructor's assertion, refinement of `Allocator` |
| `http_first_segment` | up to 2 header lines, 3 body bytes, lengths -1, 0, 1, 3, every cut | 284,937 | verdict on a first segment with the header and any part of the body |
| `services` | 2,586 files (most of the states); 2 users and a tester; 2 Redis clients, 1 MySQL client, 1 zone | 37,055 | settings against the file; replies to their callers, map entries, handles in use; outages end, lookups return |
| `rcd_log` | 3 keys, batches of 2, 3 records, `iMaxFlag` 0 | 70,602 | nothing stored twice; all keys served, stop ends |
| `log_files` | 3 local times, 7 messages, 2 to 3 files kept, 2 switches per second | 1,075,000 | counter, list, directory and open file agree; messages in order, oldest files go first |
| `handler_reuse` | violation | | a new connection continues the request of a closed one |
| `cross_thread_free` | violation | | a timer frees the context another worker is using |
| `ssl_record` | violation | | a partial SSL record or a renegotiation frees the context of an open connection |
| `http_split_request` | violation | | a complete request in two segments is not accepted |

A violation run states what a comment of the code says and shows a behaviour of
the code that contradicts it; `PROJECT.json` quotes the comment.

Bounds. Two descriptors and two contexts with three connections make every
descriptor and block be reused at least once, which is what the ownership
properties are about; a pipe of capacity 1 is full as soon as a second descriptor
arrives for the same thread; with two threads each serves one of descriptors 4 and
5. Two handlers let the map hold one while a worker holds another, three do so for
two workers. In `recv_send` a request may be shorter than the buffer, fill it and
exceed it, a connection has two full callbacks, and the second reply finds room
for one of its two bytes. In the pool, two threads contend for a chunk and the
sizes 1, 3, 4, 5 are below a class, between classes, the largest class and beyond
it; the constructor makes one block per class so that the list runs empty. The
HTTP bodies are as long as the largest declared length and may be all CR and LF.
The configuration files have up to three lines with four or five blank ones
between them, and every data source of up to five tokens. Two Redis clients are
the two that threads create for one zone at once; `Uninit` is 0, after which
eviction is far, or 3, after which it is next. In `rcd_log` a key holds more
records than one batch. In `log_files` a second may open as many files as are
kept, the directory outgrows its limit, and a file of each local time may be left
by an earlier process. (With 4 local times and 8 messages, 23 million states, the
properties hold, too.)

Runs of `EventServer` and `RecvSend` allow deadlock: the process may end, and all
clients may have come and gone. The pool ends when it is destroyed, a request
when its bytes have arrived, a configuration that is not followed when it has
been read, the process of `RcdLog` when it dies, the log at its bounds.

Symmetry is used for connections and blocks, in the pool and in the runs of
`EventServer` that check invariants only; a run with a liveness property has none.

### Fairness

`EventServer!FairSpec` assumes that the accepting thread pushes what it accepted,
that time passes, that a worker does not stop inside a callback by itself (weak
fairness of its internal steps), and that libevent serves a ready pipe and a due
timer on each round of the loop although other events are ready too (strong
fairness of `PipeReadCallBack` and `OnCheckActiveTime`: they are disabled while
another callback runs). Nothing is assumed of clients. `CreateSSL` and
`NormalRecv` retry without waiting, so that a client can keep a worker inside a
callback for ever; the liveness properties are therefore conditional on
`WorkersReturn`.

`RecvSend!FairSpec`: the thread runs, libevent reports what is readable, TCP
delivers, and the kernel of a closed client rejects data. Nothing else is assumed
of the client; `CallbackReturns` names the three ways in which an open one keeps
a callback waiting.

`RedisFairness`, `SqlFairness`: threads inside a call go on; a mutex that is
released again and again is granted (strong fairness), as is the reply of a
server that runs again and again. A server that hangs for good blocks the tester,
which waits for its reply without a timeout, and with it every lookup: the
liveness properties exclude that server by their premise. `OutageEnds` also
supposes that the server is up when the tester reconnects; what happens otherwise
is told below.

`RcdLog!FairSpec`: the threads run, and `spop` does not fail for ever while
`scard` succeeds; otherwise the loop over a key, which counts successful batches
only, would not end.

## Proofs

Each theorem holds for every value of the constants that satisfies the named
assumptions of its component. `PROJECT.json` lists the theorems.

| Module | Theorems |
|---|---|
| `EventServerProofs` | `TypeCorrect`, `HandlersOwned`, `DescriptorsOwned`; for one worker thread `ContextStaysAlive`, `RepliesReachRequester`, `NoHandlerLost` |
| `RecvSendProofs` | `StreamCorrect`, `TextCorrect`, `FreedCorrect`, `RepliesCorrect` |
| `MemPoolProofs` | `FreeListsSound`, `BlocksHandedOutOnce`, `MemoryIsLargeEnough`, `NoBlockIsLost`, `ReleaseIsComplete`, `Refinement` |
| `HttpParseProofs` | `FirstSegmentCorrect`, `ParserTerminates` |
| `ConfigerProofs` | `SettingsCorrect`, `SplitCorrect` |
| `ServiceProofs` | `ReplyCorrect`, `ClientCorrect`, `EntryCorrect`, `HandleCorrect`, `SqlClientCorrect` |
| `RcdLogProofs` | `StoredOnceCorrect`, `DeleteCorrect` |
| `WLogProofs` | `CountCorrect`, `ListCorrect`, `OpenFileCorrect`, `OldestCorrect`, `OrderCorrect` |

### EventServer

Assumed: at least one thread, descriptors are naturals, positive bounds, `None`
is none of the values.

`Invariance` proves `IndInv`, the conjunction of `TypeOK`, `CallbackLocals`,
`HandlerOwnership` and `DescriptorOwnership`, for any number of threads.
`CallbackLocals`, a predicate of the proofs only, is the strengthening: a worker
holds a handler exactly at `insert` and `finish`, and its descriptor and context
are real ones inside a callback; without it nothing says that a step at `insert`
inserts a handler, or that the type of the received data is right. The handler
part rests on `HeldExclusive`: a handler that has left the map is in one worker's
hands, so neither the timer nor another worker reaches it. The descriptor part
rests on every open descriptor on its way being in one place (`accepted`, one
pipe, one registering worker or one context), so that closing a context's socket
cannot close one that is queued. `Index` stays folded in the proofs; only that it
yields a thread is used.

The last three theorems have the form `Spec => [](ThreadNum = 1 => ...)`. One
thread is what `src/MainServer/server.conf` sets (without that line the code takes
10); for two, `cross_thread_free` shows that the first of them is false. Their
invariant is `SoloInv`: `HandlersAccounted`, and that a callback is `Undisturbed`,
because the timer and all other callbacks run in the same thread: its context is
allocated and still has the descriptor and the connection that were copied from
it, and between the two critical sections of `HandleRequest` the map has no entry
for the descriptor, so that the insertion takes place. `RepliesReachRequester`
adds `ContextOwnsSocket`: the descriptor of a living context is open on the
connection accepted for it.

### RecvSend

For any number of bytes and any lengths of buffer, reply and socket buffer.
`RecvInvariant` adds to the properties what each label knows (`Progress`: how far
the loops have come) and why a context is freed (`Cause`). `RepliesCorrect` rests
on `Replies`: as long as no reply was cut, each byte of `out` follows the one
before it, and the last is byte `scount` of the present reply.

### HttpParse

For any number of headers, any body and any integers as lengths; assumed is that
the text of a line has more than two bytes.

`HttpInv` is the inductive invariant: the first segment meets an empty handler, so
that one which has the header was parsed as the request with the part of the body
that arrived (`FirstTokens`).

What the parser makes of such a request is `ParseMessage`. The loop is a recursive
function of the number of turns, and the proofs are inductions over that number,
in the form of a set of numbers that holds 0 and, with each, the next
(`SetInduction`, from the well-foundedness of the naturals). `LoopExists` shows
that the recursive definition has a solution, without which nothing follows from
it. `LoopInvariant` says that after `k` turns the loop has ended or has removed at
least `k` tokens: this is `ParserTerminates`, and shows that the `Len(s) + 1`
turns of `ParseLines` are all that the `while (true)` of the code takes.
`ParseHeaders` is the invariant of the loop over a request: after `k` turns it has
met a bad header, or it stands at line `k + 1` with the last length declared so
far. In front of the body it then meets the empty line, so line ends in the body
are not looked at.

### MemPool

For any number of threads and size classes and any finite set of blocks.
`PoolInv` adds to the properties what a thread inside a chunk knows
(`InsideChunk`: it holds the mutex; in `malloc` its block is the head of the
list, in `free` its block points to the head), what the headers say
(`HeadersSound`), and that each free block of a chunk is in every set that has
the head of its list and, with a block, the next one (`FreeBlocksLinked`). No
history of the list is needed: that no two free blocks point to the same block,
and none points to the head, is inductive.

`NoBlockIsLost` says that the blocks reachable from the head of a chunk's list
are its free blocks, where `Reachable` is what all such closed sets have in
common. One inclusion is `FreeBlocksLinked`; the other holds because the free
blocks are a closed set themselves (`FreeListSound`). Quantifying over closed
sets takes the place of an induction along the list: pushing or popping a block
turns a closed set of the new list into one of the old.
`ReleaseIsComplete` counts: `count[i]` is `tempcount[i]` plus the number of blocks
the chunk has (`BlocksCounted`, the one place where `Blocks` must be finite), and
an empty list at the end means there are none.

`Refinement` is `Spec => Implements`: the initial states map to the initial state
of `Allocator`, and under `PoolInv` every step maps to a step of it or changes
nothing its clients see. `NotHandedOutTwice` is what makes `MallocPop` a `Malloc`
of memory nobody holds; `MemoryLargeEnough` gives the room.

### Configer and the service managers

`SettingsCorrect` is `Spec => []SettingsOfFile`, for files of any length. Assumed
is that `Files` are sequences of lines, in which texts are separated. The property
reads a line by `FieldsOf`, the loop by `SplitString2`; `KindsSound` and
`SettingsMatch` carry one over to the other. `CfgInv` says that all consumed lines
count (`CfgScan`), that `iCount` is the length of the run of blank lines the loop
is in, until `getline()` fails, and that no run of five came before (`CfgBlanks`),
and that items and maps are those of the consumed lines (`CfgItems`,
`CfgSources`). When the loop ends, either the file is exhausted or a fifth blank
line was met, and in both cases no further line counts.

The other half of `SettingsOfFile`, `FieldsOfLine`, is `SplitCorrect`, for lines
of any length: `SplitString2` returns `FieldsOf`, in which field `k` lies between
the positions with `k - 2` and `k - 1` others before them. Its loop is unfolded
like that of the parser (`ScanExists`, `SplitScan`). The invariant `SplitUpTo`
says that after `m` characters behind the leading separator the loop has the
fields ended by the `c` separators among them, and starts the next where field `c
+ 1` starts; `TurnSeparator`, `TurnInside` and `TurnLast` are its three steps.
Positions are numbered by counting those before them, which tells them apart
(`BeforeMonotone`).

The theorems about the managers hold for any number of threads, clients and
zones. Assumed is that every non-empty set of zones has a least one, which any
finite set has: the tester visits the map in the order of `std::map`. `RInv` and
`SInv` say what each thread has in hand at each label, that the tester holds the
manager's lock through its pass, so that the entries it has still to visit stay,
and that a client's lock is held exactly by the thread inside the library with
it (`RLockInv`, `SLockInv`). For Redis the connection then owes one reply, to the
holder of the lock: this is `ReplyCorrect`. `EntryCorrect` is an action property.

### RcdLog

For any number of keys, any batch size and any `iMaxFlag`. `RcdInv` adds to
`StoredOnce` that the sets of Redis share no record (`RecordsOK`), that the
statement has rows only while a batch is popped and that the rest of the batch
fits (`LoopInv`).
`DeleteCorrect` is the safety half of `StopEnds`.

### WLog

For any limits. The invariant `LogInv` says that the queue is as long as its
counter, that it has every file of the directory that no failing call has lost
sight of (`Directory`), and, as long as the local time was never set back, that it
is sorted and has at most `MaxSwitches` entries of a name, side by side (`Aged`),
that no file has a name of the future (`Past`) and that the open file is its last
entry (`OpenFile`). Taking entries off the front, down to `MinFiles`, then meets
the name of the open file only if a second opened more than `MinFiles` files.
`OrderCorrect` adds `Order`: the messages on disk are of the past, and no file is
newer than the open one, to which the next message goes. `CountCorrect`, the first
half of `ListCorrect` and the order within a file need no assumption on the time.

### Only model-checked

Liveness, everywhere: TLAPS proves neither properties under fairness nor
`ENABLED`.

Every invariant and action property of the passing runs is proved.
`CallbackContextAlive`, `ReplyToRequester` and `HandlersAccounted` are stated,
checked and proved for one worker thread only.

## What the models show of the code

Each of the four violation runs contradicts a comment. The behaviours below are
part of the models, too. Where a comment says otherwise it is named; the passing
properties leave these cases open, and a property that holds does not mean that
the code does what such a comment says.

- Requests of two workers. With two workers two callbacks may insert a handler
  under one descriptor, `std::map::insert` keeps the first, and the second is
  lost; `HandlersAccounted` is therefore stated for one worker.
- Connections. A timer looks only at connections with a pending request
  (`CEventBaseMgr.h:105` speaks of connections). The timer may delete the context
  of a handler whose connection is gone, and with it a connection that reuses the
  block. A dropped descriptor (full pipe, failed handshake) stays open.
- Receiving. With SSL, a record that has arrived in part, or a renegotiation,
  frees the connection, which the comment at `CEventBaseMgr.cpp:317` attributes to
  a close by the client or an error (run `ssl_record`); the passing
  `FreedOnlyAtEnd` says of SSL only that the bytes that arrived were in a buffer
  of the handler. Data inside the SSL object that did not fit the buffer waits
  until the client sends more. Without SSL a client that waits for its answer
  keeps the worker spinning, unless its request fills the buffer. A full buffer is
  not terminated.
- Sending. `SslSend` cuts a reply at `WANT_WRITE`, and OpenSSL refuses later ones.
- HTTP. A line the parser does not understand does not make a request invalid
  (`CReqHandlerObj.cpp:29`).
- Configuration. Five blank lines, or a line of 127 characters or more, silently
  end the file. `threads` that is 0 or no number is accepted and makes
  `CEventBaseMgr.cpp:212` divide by zero. The MySQL line documented at
  `CConfiger.h:14` has six fields, and `CConfiger.cpp:275` rejects it together
  with the file: seven are needed. `SettingsOfFile` takes a line of seven fields
  for well-formed, one of five for malformed, and says nothing of six. The Redis
  line at `CConfiger.h:16` has an empty field.
- Redis. After one failed reconnection the context is NULL, and the next command
  or ping dereferences it (`rphase = "crash"`), unless the uninitialised counter
  happens to evict the client first; `CRedisClient.cpp:46` has the client removed
  after three failed attempts. `OutageEnds` is about a server that is back when
  the tester reconnects, and says nothing of the others. A failed lookup leaves a
  NULL entry for ever.
- MySQL. A client is evicted after one failed reconnection, at the next test
  (`CSqlClient.cpp:185` speaks of three), and its zone does not come back, because
  `GetSqlClient` reads the zone's Redis line (`CSqlServiceMgr.cpp:134`).
- Operation records. Records that were popped are lost with a failing statement
  or with the process. The statement of the last key keeps the header an earlier
  key of the round has left (`CRcdLogClient.cpp:277`), and is then not the update
  that line 188 takes it for but a row of that key's insert; no property covers
  it. A visit ends after `iMaxFlag + 2` batches, where the comment at
  `CRcdLogClient.cpp:248` has `iMaxFlag`; `KeysServed` says that it ends.
- Log. A file whose `unlink` failed, or that a failing `scandir` did not list, is
  not cleaned any more until a restart lists it again. When local time was set
  back, the list is no longer in the order of age: an older file may outlive a
  newer one, and cleaning may remove the open one. A file reopened within its
  second is truncated. `OpenFileOnDisk` needs that a second opens no more files
  than `MinFiles`, which `main` sets to 10 with files of 512 KB. Started as
  `./Server`, the program never lists the files of earlier runs, and cleaning
  leaves them.

## Not modelled

- `Mysql/CRecord`, `CField`, `CUtilSql`, `Redis/CUtilRedis`: conversion and
  composition of text. Their only state is the cursor of a record set, used by one
  thread; nothing in the server uses it.
- `BeginTrans`, `TransCommit`, `TransRollback`: single library calls without a
  caller.
- `CRcdServiceMgr::OnInit`, `OnStart` and `OnStop`: `OnStop` deletes the condition
  before it joins the thread that waits on it (lines 32 to 42); what a wait on a
  deleted condition does is not defined. The Makefile does not build the
  directory.
- `Common/*`: Base64 and CRC are sequential functions that a unit test settles.
  The lock classes wrap `pthread` calls one to one and appear as the locks of the
  other modules.
- `main.cpp` beyond `SystemInit`: a straight line. The singletons are created by
  `main` before any other thread runs.
- The WIN32 branch of `CMainEventBase`: a single-threaded copy of the callbacks,
  not part of the Linux build.
- `src/SSLTestC`: a manual test program.
- Vendored code. Almost all of the lines under `src/` are third-party sources and
  headers (OpenSSL, MySQL, libevent, hiredis, jsoncpp, pthreads-win32); the models
  take their behaviour from how the server uses it. The share of `src/` that can
  be mapped is therefore small, although the state-changing code of the server
  itself is covered.
