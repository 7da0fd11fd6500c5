------------------------------- MODULE MemPool -------------------------------
(***************************************************************************)
(* The fixed-size memory pool (MemoryPool, MemoryChunk) that the request   *)
(* handlers are allocated from, used by several threads.                   *)
(*                                                                         *)
(* A chunk is one size class.  Its free list is threaded through the       *)
(* blocks themselves: the word pNext points with is the first word of the  *)
(* memory the client gets, so a client's write destroys it (ClientWrite).  *)
(* LOCK(hMutex) with the reads that follow it, and the writes with         *)
(* UNLOCK(hMutex), are separate steps.                                     *)
(***************************************************************************)
EXTENDS Integers, FiniteSets

CONSTANTS
  Threads,       \* the threads that allocate and free
  Blocks,        \* addresses ::malloc may return
  ChunkCount,    \* chunkcount, the number of size classes
  MinSize,       \* MIN_SIZE
  MaxSize,       \* MAX_SIZE
  Requests,      \* sizes the clients ask for
  Preallocated,  \* blocks per chunk made by the constructor (1000)
  None,          \* NULL
  Garbage        \* what a client writes into its memory

Chunks == 0 .. (ChunkCount - 1)

(* The size of the blocks of each chunk, doubling from MIN_SIZE.           *)
ChunkSize[i \in Nat] == IF i = 0 THEN MinSize ELSE 2 * ChunkSize[i - 1]

(* The header in front of a block: its chunk, None for memory taken        *)
(* directly from the heap, and its length, which BlockHeader and           *)
(* HeapHeader keep in the same place.                                      *)
HeaderType == [chunk : Chunks \cup {None}, len : Nat]

ASSUME SizeAssumption ==
  /\ ChunkCount \in Nat \ {0} /\ MinSize \in Nat \ {0} /\ MaxSize \in Nat
  /\ Requests \subseteq Nat \ {0}
  /\ \A i \in Chunks : ChunkSize[i] \in Nat /\ ChunkSize[i] <= MaxSize
ASSUME PoolNoneAssumption ==
  /\ None \notin Blocks \cup Chunks \cup Threads \cup HeaderType
  /\ Garbage \notin Blocks \cup {None}
ASSUME PreallocatedAssumption == Preallocated \in Nat
ASSUME BlocksAssumption == IsFiniteSet(Blocks)

VARIABLES
  header,     \* block -> its header, or None while ::malloc has the block
  data,       \* block -> its first word: pNext, or what the client wrote
  pFreeList,  \* chunk -> first block of its free list
  count,      \* chunk -> blocks created
  hMutex,     \* chunk -> the thread that holds its mutex
  want,       \* block -> the size its client asked for, 0 if it has none
  pc,         \* thread -> "idle", or inside malloc() or free(pBlock)
  chunk,      \* thread -> the chunk it works on
  pBlock,     \* thread -> pBlock of malloc() and free(pBlock)
  size,       \* thread -> the size asked for
  phase,      \* "build", "run", "destroy": the pool's life
  tempcount   \* chunk -> tempcount of its destructor

locals == <<pc, chunk, pBlock, size>>
vars   == <<header, data, pFreeList, count, hMutex, want, locals, phase, tempcount>>

PoolTypeOK ==
  /\ header \in [Blocks -> HeaderType \cup {None}]
  /\ data \in [Blocks -> Blocks \cup {None, Garbage}]
  /\ pFreeList \in [Chunks -> Blocks \cup {None}]
  /\ count \in [Chunks -> Nat]
  /\ hMutex \in [Chunks -> Threads \cup {None}]
  /\ want \in [Blocks -> Requests \cup {0}]
  /\ pc \in [Threads -> {"idle", "malloc", "free"}]
  /\ chunk \in [Threads -> Chunks \cup {None}]
  /\ pBlock \in [Threads -> Blocks \cup {None}]
  /\ size \in [Threads -> Requests \cup {0}]
  /\ phase \in {"build", "run", "destroy"}
  /\ tempcount \in [Chunks -> Nat]

Init ==
  /\ header = [b \in Blocks |-> None]
  /\ data = [b \in Blocks |-> None]
  /\ pFreeList = [i \in Chunks |-> None]
  /\ count = [i \in Chunks |-> 0]
  /\ hMutex = [i \in Chunks |-> None]
  /\ want = [b \in Blocks |-> 0]
  /\ pc = [t \in Threads |-> "idle"]
  /\ chunk = [t \in Threads |-> None]
  /\ pBlock = [t \in Threads |-> None]
  /\ size = [t \in Threads |-> 0]
  /\ phase = "build"
  /\ tempcount = [i \in Chunks |-> 0]

-----------------------------------------------------------------------------

(* Mutant: the block is not counted.                                       *)
CreateBlockUncounted(b, i) ==
  /\ header[b] = None
  /\ header' = [header EXCEPT ![b] = [chunk |-> i, len |-> ChunkSize[i]]]
  /\ UNCHANGED count

(* CreateBlock: ::malloc returns a block it has, and the block is counted. *)
CreateBlock(b, i) ==
  /\ header[b] = None
  /\ header' = [header EXCEPT ![b] = [chunk |-> i, len |-> ChunkSize[i]]]
  /\ count' = [count EXCEPT ![i] = count[i] + 1]

(* The loop of the constructor puts a new block in front of the list.      *)
Preallocate(i, b) ==
  /\ phase = "build" /\ count[i] < Preallocated
  /\ CreateBlock(b, i)
  /\ data' = [data EXCEPT ![b] = pFreeList[i]]
  /\ pFreeList' = [pFreeList EXCEPT ![i] = b]
  /\ UNCHANGED <<hMutex, want, locals, phase, tempcount>>

(* The constructor is done with every chunk; where ::malloc failed it has  *)
(* made fewer than Preallocated blocks.                                    *)
Constructed ==
  /\ phase = "build"
  /\ phase' = "run"
  /\ UNCHANGED <<header, data, pFreeList, count, hMutex, want, locals, tempcount>>

-----------------------------------------------------------------------------
(* Mutant: the class below the one that is large enough.                   *)
FitsHalf(n, i) == 2 * ChunkSize[i] >= n /\ \A j \in 0 .. (i - 1) : 2 * ChunkSize[j] < n

(* The first class that is large enough.                                   *)
Fits(n, i) == ChunkSize[i] >= n /\ \A j \in 0 .. (i - 1) : ChunkSize[j] < n

(* Malloc of more than MAX_SIZE goes to ::malloc.                          *)
MallocHeap(n, b) ==
  /\ phase = "run" /\ n > MaxSize /\ header[b] = None
  /\ header' = [header EXCEPT ![b] = [chunk |-> None, len |-> n]]
  /\ want' = [want EXCEPT ![b] = n]
  /\ UNCHANGED <<data, pFreeList, count, hMutex, locals, phase, tempcount>>

(* Mutant: the mutex is not waited for.                                    *)
MallocWithoutLock(t, n, i) ==
  /\ phase = "run" /\ pc[t] = "idle" /\ n <= MaxSize /\ Fits(n, i)
  /\ pc' = [pc EXCEPT ![t] = "malloc"]
  /\ chunk' = [chunk EXCEPT ![t] = i]
  /\ pBlock' = [pBlock EXCEPT ![t] = pFreeList[i]]
  /\ size' = [size EXCEPT ![t] = n]
  /\ UNCHANGED <<header, data, pFreeList, count, hMutex, want, phase, tempcount>>

(* MemoryChunk::malloc up to the test of pFreeList.                        *)
MallocLock(t, n, i) ==
  /\ phase = "run" /\ pc[t] = "idle" /\ n <= MaxSize
  /\ Fits(n, i) /\ hMutex[i] = None
  /\ hMutex' = [hMutex EXCEPT ![i] = t]
  /\ pc' = [pc EXCEPT ![t] = "malloc"]
  /\ chunk' = [chunk EXCEPT ![t] = i]
  /\ pBlock' = [pBlock EXCEPT ![t] = pFreeList[i]]
  /\ size' = [size EXCEPT ![t] = n]
  /\ UNCHANGED <<header, data, pFreeList, count, want, phase, tempcount>>

Leave(t) ==
  /\ hMutex' = [hMutex EXCEPT ![chunk[t]] = None]
  /\ pc' = [pc EXCEPT ![t] = "idle"]
  /\ chunk' = [chunk EXCEPT ![t] = None]
  /\ pBlock' = [pBlock EXCEPT ![t] = None]
  /\ size' = [size EXCEPT ![t] = 0]

(* Mutant: the head is handed out and stays on the list.                   *)
MallocPeek(t) ==
  /\ pc[t] = "malloc" /\ pBlock[t] # None
  /\ want' = [want EXCEPT ![pBlock[t]] = size[t]]
  /\ Leave(t)
  /\ UNCHANGED <<header, data, pFreeList, count, phase, tempcount>>

(* The head of the free list is unlinked and handed out.                   *)
MallocPop(t) ==
  /\ pc[t] = "malloc" /\ pBlock[t] # None
  /\ pFreeList' = [pFreeList EXCEPT ![chunk[t]] = data[pBlock[t]]]
  /\ want' = [want EXCEPT ![pBlock[t]] = size[t]]
  /\ Leave(t)
  /\ UNCHANGED <<header, data, count, phase, tempcount>>

(* The list is empty: a new block is made and handed out.                  *)
MallocCreate(t, b) ==
  /\ pc[t] = "malloc" /\ pBlock[t] = None
  /\ CreateBlock(b, chunk[t])
  /\ want' = [want EXCEPT ![b] = size[t]]
  /\ Leave(t)
  /\ UNCHANGED <<data, pFreeList, phase, tempcount>>

(* The list is empty and ::malloc fails: NULL.                             *)
MallocFails(t) ==
  /\ pc[t] = "malloc" /\ pBlock[t] = None
  /\ Leave(t)
  /\ UNCHANGED <<header, data, pFreeList, count, want, phase, tempcount>>

(* A client uses its memory.                                               *)
ClientWrite(b) ==
  /\ phase = "run" /\ want[b] > 0
  /\ data' = [data EXCEPT ![b] = Garbage]
  /\ UNCHANGED <<header, pFreeList, count, hMutex, want, locals, phase, tempcount>>

(* Free of a block whose header says more than MAX_SIZE: ::free.           *)
FreeHeap(b) ==
  /\ phase = "run" /\ want[b] > 0 /\ header[b].len > MaxSize
  /\ header' = [header EXCEPT ![b] = None]
  /\ want' = [want EXCEPT ![b] = 0]
  /\ UNCHANGED <<data, pFreeList, count, hMutex, locals, phase, tempcount>>

(* Mutant: the block is not linked to the list.                            *)
FreeLockWithoutLink(t, b) ==
  /\ phase = "run" /\ pc[t] = "idle" /\ want[b] > 0 /\ header[b].len <= MaxSize
  /\ hMutex[header[b].chunk] = None
  /\ hMutex' = [hMutex EXCEPT ![header[b].chunk] = t]
  /\ chunk' = [chunk EXCEPT ![t] = header[b].chunk]
  /\ want' = [want EXCEPT ![b] = 0]
  /\ pc' = [pc EXCEPT ![t] = "free"]
  /\ pBlock' = [pBlock EXCEPT ![t] = b]
  /\ UNCHANGED <<header, data, pFreeList, count, size, phase, tempcount>>

(* Free of any other block: its chunk locks and links it to the list.      *)
FreeLock(t, b) ==
  /\ phase = "run" /\ pc[t] = "idle" /\ want[b] > 0 /\ header[b].len <= MaxSize
  /\ LET i == header[b].chunk
     IN  /\ hMutex[i] = None
         /\ hMutex' = [hMutex EXCEPT ![i] = t]
         /\ chunk' = [chunk EXCEPT ![t] = i]
         /\ data' = [data EXCEPT ![b] = pFreeList[i]]
  /\ want' = [want EXCEPT ![b] = 0]
  /\ pc' = [pc EXCEPT ![t] = "free"]
  /\ pBlock' = [pBlock EXCEPT ![t] = b]
  /\ UNCHANGED <<header, pFreeList, count, size, phase, tempcount>>

(* Mutant: pFreeList is not updated.                                       *)
FreeWithoutPush(t) ==
  /\ pc[t] = "free"
  /\ Leave(t)
  /\ UNCHANGED <<header, data, pFreeList, count, want, phase, tempcount>>

(* The block becomes the head of the list.                                 *)
FreePush(t) ==
  /\ pc[t] = "free"
  /\ pFreeList' = [pFreeList EXCEPT ![chunk[t]] = pBlock[t]]
  /\ Leave(t)
  /\ UNCHANGED <<header, data, count, want, phase, tempcount>>

-----------------------------------------------------------------------------
(* ~MemoryPool, once the threads are done and have freed what they had.    *)
Destroy ==
  /\ phase = "run"
  /\ \A t \in Threads : pc[t] = "idle"
  /\ \A b \in Blocks : want[b] = 0
  /\ phase' = "destroy"
  /\ UNCHANGED <<header, data, pFreeList, count, hMutex, want, locals, tempcount>>

(* One round of the loop of ~MemoryChunk.                                  *)
DeleteBlock(i) ==
  /\ phase = "destroy" /\ pFreeList[i] # None
  /\ pFreeList' = [pFreeList EXCEPT ![i] = data[pFreeList[i]]]
  /\ header' = [header EXCEPT ![pFreeList[i]] = None]
  /\ tempcount' = [tempcount EXCEPT ![i] = tempcount[i] + 1]
  /\ UNCHANGED <<data, count, hMutex, want, locals, phase>>

Next ==
  \/ \E i \in Chunks, b \in Blocks : Preallocate(i, b)
  \/ Constructed
  \/ \E n \in Requests, b \in Blocks : MallocHeap(n, b)
  \/ \E t \in Threads, n \in Requests, i \in Chunks : MallocLock(t, n, i)
  \/ \E t \in Threads : MallocPop(t)
  \/ \E t \in Threads, b \in Blocks : MallocCreate(t, b)
  \/ \E t \in Threads : MallocFails(t)
  \/ \E b \in Blocks : ClientWrite(b)
  \/ \E b \in Blocks : FreeHeap(b)
  \/ \E t \in Threads, b \in Blocks : FreeLock(t, b)
  \/ \E t \in Threads : FreePush(t)
  \/ Destroy
  \/ \E i \in Chunks : DeleteBlock(i)

Spec == Init /\ [][Next]_vars

-----------------------------------------------------------------------------
(* Properties                                                              *)

(* The blocks of chunk i that neither a client nor a free() in progress    *)
(* has: the ones its free list is made of.                                 *)
Pushing(b)      == \E t \in Threads : pc[t] = "free" /\ pBlock[t] = b
PoolBlock(b, i) == header[b] # None /\ header[b].chunk = i
FreeBlock(b, i) == PoolBlock(b, i) /\ want[b] = 0 /\ ~Pushing(b)

(* The free list of every chunk leads only over free blocks of that chunk, *)
(* and to each of them along one way: a block is never on two lists, never *)
(* twice on one, and never on a list while a client may write to it.       *)
FreeListSound ==
  \A i \in Chunks :
    /\ pFreeList[i] # None => FreeBlock(pFreeList[i], i)
    /\ \A b \in Blocks : FreeBlock(b, i) /\ data[b] # None =>
         /\ data[b] \in Blocks /\ FreeBlock(data[b], i)
         /\ data[b] # pFreeList[i]
         /\ \A c \in Blocks : FreeBlock(c, i) /\ data[c] = data[b] => c = b

(* malloc() hands out a block that no client has: between reading          *)
(* pFreeList and unlinking its head, nobody else obtains that head.        *)
NotHandedOutTwice ==
  \A t \in Threads : pc[t] = "malloc" /\ pBlock[t] # None =>
    /\ want[pBlock[t]] = 0
    /\ \A u \in Threads : pBlock[u] = pBlock[t] => u = t

(* A client's memory is as large as it asked for, and comes from the heap  *)
(* exactly when it asked for more than MAX_SIZE, so that Free() takes it   *)
(* back where Malloc() got it.                                             *)
MemoryLargeEnough ==
  \A b \in Blocks : want[b] > 0 =>
    /\ header[b] # None /\ header[b].len >= want[b]
    /\ (header[b].chunk = None) <=> (header[b].len > MaxSize)
    /\ header[b].chunk # None => \A j \in 0 .. (header[b].chunk - 1) : ChunkSize[j] < want[b]

(* The blocks the free list of chunk i leads to, from its head: the least  *)
(* set that has the head and, with a block, the next one.                  *)
ListClosed(S, i) ==
  /\ pFreeList[i] # None => pFreeList[i] \in S
  /\ \A b \in S : data[b] \in Blocks => data[b] \in S
Reachable(i) ==
  {b \in Blocks : \A S \in SUBSET Blocks : ListClosed(S, i) => b \in S}

(* No block is lost: each free one can be reached from its chunk's list.   *)
NoBlockLost ==
  \A i \in Chunks : {b \in Blocks : FreeBlock(b, i)} = Reachable(i)

(* MemChunk.h:81, the assertion of ~MemoryChunk: when every client has     *)
(* freed its memory, the list holds as many blocks as were created.        *)
ReleasedCompletely ==
  \A i \in Chunks : phase = "destroy" /\ pFreeList[i] = None => tempcount[i] = count[i]

-----------------------------------------------------------------------------
(* Refinement: the view the clients have of the pool.                      *)
Pool == INSTANCE Allocator WITH
  Rooms   <- {ChunkSize[i] : i \in Chunks} \cup Requests,
  Words   <- Blocks \cup {None, Garbage},
  held    <- want,
  room    <- [b \in Blocks |-> IF want[b] > 0 THEN header[b].len ELSE 0],
  content <- [b \in Blocks |-> IF want[b] > 0 THEN data[b] ELSE None],
  open    <- phase = "run"

(* MemoryPool is an allocator: whatever the threads inside malloc() and    *)
(* free() do to lists, links and headers, memory a client holds is given   *)
(* to nobody else, keeps its room and what the client wrote to it, and the *)
(* pool is destroyed only when all of it is back.                          *)
Implements == Pool!Spec
=============================================================================
