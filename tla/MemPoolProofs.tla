---------------------------- MODULE MemPoolProofs ----------------------------
(* The theorems about MemPool for any number of threads, blocks and size   *)
(* classes: the threads inside a chunk, the free lists, the counts of      *)
(* ~MemoryChunk, and the refinement of Allocator.                          *)
EXTENDS MemPool, FiniteSetTheorems, TLAPS

USE SizeAssumption, PoolNoneAssumption, Zenon DEF Chunks, locals, vars

-----------------------------------------------------------------------------
(* The inductive invariant                                                 *)

(* A thread inside malloc() or free() holds the mutex of its chunk; in     *)
(* malloc() it has the head of the list in its hands, in free() a block of *)
(* the chunk that no one else has and that points to the head.             *)
Inside(t) ==
  /\ pc[t] = "idle" => pBlock[t] = None
  /\ pc[t] # "idle" => chunk[t] \in Chunks /\ hMutex[chunk[t]] = t /\ phase = "run"
  /\ pc[t] = "malloc" =>
       /\ pBlock[t] = pFreeList[chunk[t]]
       /\ size[t] > 0 /\ Fits(size[t], chunk[t])
  /\ pc[t] = "free" =>
       /\ pBlock[t] \in Blocks /\ PoolBlock(pBlock[t], chunk[t])
       /\ want[pBlock[t]] = 0 /\ data[pBlock[t]] = pFreeList[chunk[t]]

InsideChunk == \A t \in Threads : Inside(t)

(* A header says what the block is; memory is handed out only by a running *)
(* pool.                                                                   *)
HeadersSound ==
  \A b \in Blocks :
    /\ header[b] # None =>
         IF header[b].chunk = None THEN header[b].len > MaxSize
                                   ELSE header[b].len = ChunkSize[header[b].chunk]
    /\ want[b] > 0 => header[b] # None /\ phase = "run"

(* Each free block is in every set that has the head of its chunk's list   *)
(* and, with a block, the next one.  Together with FreeListSound this is   *)
(* NoBlockLost.                                                            *)
FreeBlocksLinked ==
  \A i \in Chunks, b \in Blocks, S \in SUBSET Blocks :
    FreeBlock(b, i) /\ ListClosed(S, i) => b \in S

ListsWhole == FreeListSound /\ FreeBlocksLinked

PoolInv ==
  PoolTypeOK /\ InsideChunk /\ HeadersSound /\ ListsWhole /\ MemoryLargeEnough

-----------------------------------------------------------------------------
(* Clients ask for at least one byte.                                      *)
LEMMA RequestPositive ==
  ASSUME NEW n \in Requests PROVE n \in Nat /\ n > 0
BY SMT

(* The types of what a thread that leaves a chunk writes.                  *)
LEMMA LeaveTypes ==
  ASSUME PoolTypeOK, NEW t \in Threads, Leave(t)
  PROVE  /\ hMutex' \in [Chunks -> Threads \cup {None}]
         /\ pc' \in [Threads -> {"idle", "malloc", "free"}]
         /\ chunk' \in [Threads -> Chunks \cup {None}]
         /\ pBlock' \in [Threads -> Blocks \cup {None}]
         /\ size' \in [Threads -> Requests \cup {0}]
BY DEF PoolTypeOK, Leave

(* A new block has a well-typed header.                                    *)
LEMMA CreateTypes ==
  ASSUME PoolTypeOK, NEW b \in Blocks, NEW i \in Chunks, CreateBlock(b, i)
  PROVE  header' \in [Blocks -> HeaderType \cup {None}] /\ count' \in [Chunks -> Nat]
<1>1. [chunk |-> i, len |-> ChunkSize[i]] \in HeaderType
  BY DEF HeaderType
<1> QED
  BY <1>1, SMTT(60) DEF PoolTypeOK, CreateBlock

(* The header of an allocated block.                                       *)
LEMMA HeaderFields ==
  ASSUME PoolTypeOK, NEW b \in Blocks, header[b] # None
  PROVE  header[b].chunk \in Chunks \cup {None} /\ header[b].len \in Nat
BY SMT DEF PoolTypeOK, HeaderType

(* The head of a list that is not empty is a free block of its chunk.      *)
LEMMA HeadIsFree ==
  ASSUME PoolInv, NEW i \in Chunks, pFreeList[i] # None
  PROVE  /\ pFreeList[i] \in Blocks /\ FreeBlock(pFreeList[i], i)
         /\ header[pFreeList[i]] # None /\ data[pFreeList[i]] \in Blocks \cup {None}
<1>1. pFreeList[i] \in Blocks /\ FreeBlock(pFreeList[i], i)
  BY SMT DEF PoolInv, PoolTypeOK, ListsWhole, FreeListSound
<1>2. data[pFreeList[i]] # None => data[pFreeList[i]] \in Blocks
  BY <1>1 DEF PoolInv, ListsWhole, FreeListSound
<1> QED
  BY <1>1, <1>2 DEF FreeBlock, PoolBlock

(* Each step keeps the types.                                              *)
LEMMA PoolTypeStep ==
  ASSUME PoolInv, [Next]_vars PROVE PoolTypeOK'
<1>0. PoolTypeOK /\ InsideChunk /\ HeadersSound
  BY DEF PoolInv
<1>1. ASSUME NEW i \in Chunks, NEW b \in Blocks, Preallocate(i, b) PROVE PoolTypeOK'
  BY <1>0, <1>1, CreateTypes DEF PoolTypeOK, Preallocate
<1>2. CASE Constructed \/ Destroy
  BY <1>0, <1>2 DEF PoolTypeOK, Constructed, Destroy
<1>3. ASSUME NEW n \in Requests, NEW b \in Blocks, MallocHeap(n, b) PROVE PoolTypeOK'
  <2>1. [chunk |-> None, len |-> n] \in HeaderType
    BY DEF HeaderType
  <2> QED
    BY <1>0, <1>3, <2>1 DEF PoolTypeOK, MallocHeap
<1>4. ASSUME NEW t \in Threads, NEW n \in Requests, NEW i \in Chunks, MallocLock(t, n, i)
      PROVE  PoolTypeOK'
  BY <1>0, <1>4, SMTT(60) DEF PoolTypeOK, MallocLock
<1>5. ASSUME NEW t \in Threads, MallocPop(t) PROVE PoolTypeOK'
  <2>1. chunk[t] \in Chunks /\ pBlock[t] = pFreeList[chunk[t]] /\ pBlock[t] # None
    BY <1>0, <1>5 DEF MallocPop, InsideChunk, Inside
  <2>2. data[pBlock[t]] \in Blocks \cup {None} /\ pBlock[t] \in Blocks
    BY <2>1, HeadIsFree
  <2>3. pFreeList' \in [Chunks -> Blocks \cup {None}] /\ want' \in [Blocks -> Requests \cup {0}]
    BY <1>0, <1>5, <2>1, <2>2 DEF PoolTypeOK, MallocPop
  <2> QED
    BY <1>0, <1>5, <2>3, LeaveTypes, SMTT(60) DEF PoolTypeOK, MallocPop
<1>6. ASSUME NEW t \in Threads, NEW b \in Blocks, MallocCreate(t, b) PROVE PoolTypeOK'
  <2>1. chunk[t] \in Chunks
    BY <1>0, <1>6 DEF MallocCreate, InsideChunk, Inside
  <2>2. header' \in [Blocks -> HeaderType \cup {None}] /\ count' \in [Chunks -> Nat]
    BY <1>0, <1>6, <2>1, CreateTypes DEF MallocCreate
  <2> QED
    BY <1>0, <1>6, <2>2, LeaveTypes DEF PoolTypeOK, MallocCreate
<1>7. ASSUME NEW t \in Threads, MallocFails(t) PROVE PoolTypeOK'
  BY <1>0, <1>7, LeaveTypes DEF PoolTypeOK, MallocFails
<1>8. ASSUME NEW b \in Blocks, ClientWrite(b) \/ FreeHeap(b) PROVE PoolTypeOK'
  BY <1>0, <1>8, ZenonT(30) DEF PoolTypeOK, ClientWrite, FreeHeap
<1>9. ASSUME NEW t \in Threads, NEW b \in Blocks, FreeLock(t, b) PROVE PoolTypeOK'
  <2>1. header[b].chunk \in Chunks
    BY <1>0, <1>9, HeaderFields, SMT DEF FreeLock, HeadersSound
  <2> QED
    BY <1>0, <1>9, <2>1, SMTT(60) DEF PoolTypeOK, FreeLock
<1>10. ASSUME NEW t \in Threads, FreePush(t) PROVE PoolTypeOK'
  BY <1>0, <1>10, LeaveTypes DEF PoolTypeOK, FreePush
<1>11. ASSUME NEW i \in Chunks, DeleteBlock(i) PROVE PoolTypeOK'
  <2>1. pFreeList[i] \in Blocks /\ data[pFreeList[i]] \in Blocks \cup {None}
    BY <1>11, HeadIsFree DEF DeleteBlock
  <2>2. header' \in [Blocks -> HeaderType \cup {None}]
    BY <1>0, <1>11, <2>1 DEF PoolTypeOK, DeleteBlock
  <2>3. pFreeList' \in [Chunks -> Blocks \cup {None}] /\ tempcount' \in [Chunks -> Nat]
    BY <1>0, <1>11, <2>1, SMTT(60) DEF PoolTypeOK, DeleteBlock
  <2> QED
    BY <1>0, <1>11, <2>2, <2>3, SMTT(60) DEF PoolTypeOK, DeleteBlock
<1>12. CASE UNCHANGED vars
  BY <1>0, <1>12, SMTT(60) DEF PoolTypeOK
<1> QED
  BY <1>1, <1>2, <1>3, <1>4, <1>5, <1>6, <1>7, <1>8, <1>9, <1>10, <1>11, <1>12 DEF Next

-----------------------------------------------------------------------------
(* Headers and sizes                                                       *)

(* Headers are written once per life of a block.                           *)
LEMMA HeaderStep ==
  ASSUME PoolInv, [Next]_vars PROVE HeadersSound' /\ MemoryLargeEnough'
<1>0. PoolTypeOK /\ InsideChunk /\ HeadersSound /\ MemoryLargeEnough
  BY DEF PoolInv
<1> DEFINE P(b) == /\ header[b] # None =>
                        IF header[b].chunk = None THEN header[b].len > MaxSize
                                                  ELSE header[b].len = ChunkSize[header[b].chunk]
                   /\ want[b] > 0 =>
                        /\ header[b] # None /\ phase = "run" /\ header[b].len >= want[b]
                        /\ (header[b].chunk = None) <=> (header[b].len > MaxSize)
                        /\ header[b].chunk # None =>
                             \A j \in 0 .. (header[b].chunk - 1) : ChunkSize[j] < want[b]
<1>a. \A b \in Blocks : P(b)
  BY <1>0 DEF HeadersSound, MemoryLargeEnough
<1>b. SUFFICES \A b \in Blocks : P(b)'
  BY DEF HeadersSound, MemoryLargeEnough
<1>c. CASE UNCHANGED <<header, want, phase>>
  BY <1>a, <1>c
<1>1. ASSUME NEW i \in Chunks, NEW b \in Blocks, Preallocate(i, b) PROVE \A c \in Blocks : P(c)'
  <2>1. want[b] = 0 /\ want' = want /\ phase' = phase
    <3>1. header[b] = None /\ want' = want /\ phase' = phase
      BY <1>1 DEF Preallocate, CreateBlock
    <3>2. ~(want[b] > 0) /\ want[b] \in Requests \cup {0}
      BY <1>0, <3>1 DEF HeadersSound, PoolTypeOK
    <3>3. want[b] = 0
      BY <3>2, RequestPositive
    <3> QED
      BY <3>1, <3>3
  <2>2. header' = [header EXCEPT ![b] = [chunk |-> i, len |-> ChunkSize[i]]]
    BY <1>1 DEF Preallocate, CreateBlock
  <2> QED
    BY <1>0, <1>a, <2>1, <2>2, SMTT(60) DEF PoolTypeOK
<1>2. CASE Constructed
  BY <1>a, <1>2 DEF Constructed
<1>3. CASE Destroy
  BY <1>a, <1>3, SMT DEF Destroy
<1>4. ASSUME NEW n \in Requests, NEW b \in Blocks, MallocHeap(n, b) PROVE \A c \in Blocks : P(c)'
  <2>1. /\ header' = [header EXCEPT ![b] = [chunk |-> None, len |-> n]]
        /\ want' = [want EXCEPT ![b] = n] /\ phase' = phase /\ phase = "run" /\ n > MaxSize
    BY <1>4 DEF MallocHeap
  <2>2. header'[b] = [chunk |-> None, len |-> n] /\ want'[b] = n
    BY <1>0, <2>1 DEF PoolTypeOK
  <2>3. header'[b].chunk = None /\ header'[b].len = n /\ header'[b] # None /\ n \in Nat
    <3>1. [chunk |-> None, len |-> n] \in HeaderType
      BY DEF HeaderType
    <3>2. header'[b] # None
      BY <2>2, <3>1
    <3>3. header'[b].chunk = None /\ header'[b].len = n
      BY <2>2, SMT
    <3>4. n \in Nat
      BY RequestPositive
    <3> QED
      BY <3>2, <3>3, <3>4
  <2>4. P(b)'
    BY <2>1, <2>2, <2>3, SMT
  <2>5. \A c \in Blocks : c # b => P(c)'
    BY <1>0, <1>a, <2>1 DEF PoolTypeOK
  <2> QED
    BY <2>4, <2>5
<1>5. ASSUME NEW t \in Threads, MallocPop(t) PROVE \A c \in Blocks : P(c)'
  <2>1. /\ chunk[t] \in Chunks /\ pBlock[t] = pFreeList[chunk[t]] /\ pBlock[t] # None
        /\ size[t] > 0 /\ Fits(size[t], chunk[t]) /\ phase = "run"
    BY <1>0, <1>5 DEF MallocPop, InsideChunk, Inside
  <2>2. PICK b \in Blocks, i \in Chunks : b = pBlock[t] /\ i = chunk[t]
    BY <2>1, HeadIsFree
  <2>3. header[b] # None /\ header[b].chunk = i
    BY <2>1, <2>2, HeadIsFree, SMT DEF FreeBlock, PoolBlock
  <2>4. want' = [want EXCEPT ![b] = size[t]] /\ header' = header /\ phase' = phase
    BY <1>5, <2>2 DEF MallocPop
  <2>5. P(b)'
    <3>1. want'[b] = size[t] /\ ChunkSize[i] >= size[t] /\ \A j \in 0 .. (i - 1) : ChunkSize[j] < size[t]
      BY <1>0, <2>1, <2>2, <2>4 DEF Fits, PoolTypeOK
    <3>2. header[b].len = ChunkSize[i] /\ ChunkSize[i] \in Nat /\ ChunkSize[i] <= MaxSize
      BY <1>a, <2>3
    <3> QED
      BY <2>1, <2>3, <2>4, <3>1, <3>2, SMT
  <2>6. \A c \in Blocks : c # b => P(c)'
    BY <1>0, <1>a, <2>4 DEF PoolTypeOK
  <2> QED
    BY <2>5, <2>6
<1>6. ASSUME NEW t \in Threads, NEW b \in Blocks, MallocCreate(t, b) PROVE \A c \in Blocks : P(c)'
  <2>1. /\ chunk[t] \in Chunks /\ size[t] > 0 /\ Fits(size[t], chunk[t]) /\ phase = "run"
    BY <1>0, <1>6 DEF MallocCreate, InsideChunk, Inside
  <2>2. /\ want' = [want EXCEPT ![b] = size[t]] /\ phase' = phase
        /\ header' = [header EXCEPT ![b] = [chunk |-> chunk[t], len |-> ChunkSize[chunk[t]]]]
    BY <1>6 DEF MallocCreate, CreateBlock
  <2>3. P(b)'
    <3>1. PICK i \in Chunks : i = chunk[t]
      BY <2>1
    <3>2. want'[b] = size[t] /\ ChunkSize[i] >= size[t] /\ \A j \in 0 .. (i - 1) : ChunkSize[j] < size[t]
      BY <1>0, <2>1, <2>2, <3>1 DEF Fits, PoolTypeOK
    <3>3. header'[b] = [chunk |-> i, len |-> ChunkSize[i]]
      BY <1>0, <2>2, <3>1 DEF PoolTypeOK
    <3>4. [chunk |-> i, len |-> ChunkSize[i]] \in HeaderType /\ ChunkSize[i] <= MaxSize
      BY DEF HeaderType
    <3> QED
      BY <2>1, <2>2, <3>2, <3>3, <3>4, SMT
  <2>4. \A c \in Blocks : c # b => P(c)'
    BY <1>0, <1>a, <2>2, SMT DEF PoolTypeOK
  <2> QED
    BY <2>3, <2>4
<1>7. ASSUME NEW b \in Blocks, FreeHeap(b) PROVE \A c \in Blocks : P(c)'
  BY <1>0, <1>a, <1>7, SMT DEF FreeHeap, PoolTypeOK
<1>8. ASSUME NEW t \in Threads, NEW b \in Blocks, FreeLock(t, b) PROVE \A c \in Blocks : P(c)'
  BY <1>0, <1>a, <1>8, SMT DEF FreeLock, PoolTypeOK
<1>9. ASSUME NEW i \in Chunks, DeleteBlock(i) PROVE \A c \in Blocks : P(c)'
  <2>1. pFreeList[i] \in Blocks
    BY <1>9, HeadIsFree DEF DeleteBlock
  <2>2. /\ header' = [header EXCEPT ![pFreeList[i]] = None]
        /\ phase = "destroy" /\ phase' = phase /\ want' = want
    BY <1>9 DEF DeleteBlock
  <2> QED
    BY <1>0, <1>a, <2>1, <2>2 DEF PoolTypeOK
<1> HIDE DEF P
<1> QED
  BY <1>c, <1>1, <1>2, <1>3, <1>4, <1>5, <1>6, <1>7, <1>8, <1>9
     DEF Next, MallocLock, MallocFails, ClientWrite, FreePush

-----------------------------------------------------------------------------
(* Threads inside a chunk                                                  *)

(* A step of another thread that leaves alone what thread u works on.      *)
LEMMA InsideFrame ==
  ASSUME NEW u \in Threads, Inside(u), phase' = phase \/ pc[u] = "idle",
         pc'[u] = pc[u], chunk'[u] = chunk[u], pBlock'[u] = pBlock[u], size'[u] = size[u],
         pc[u] # "idle" => /\ hMutex'[chunk[u]] = hMutex[chunk[u]]
                           /\ pFreeList'[chunk[u]] = pFreeList[chunk[u]],
         pc[u] = "free" => /\ header'[pBlock[u]] = header[pBlock[u]]
                           /\ want'[pBlock[u]] = want[pBlock[u]]
                           /\ data'[pBlock[u]] = data[pBlock[u]]
  PROVE  Inside(u)'
BY DEF Inside, PoolBlock

(* The mutex admits one thread per chunk.                                  *)
LEMMA MutexExclusive ==
  ASSUME InsideChunk, NEW t \in Threads, NEW u \in Threads,
         pc[t] # "idle", pc[u] # "idle", chunk[t] = chunk[u]
  PROVE  t = u
BY SMT DEF InsideChunk, Inside

(* A thread that leaves is idle; the others stay inside.                   *)
LEMMA InsideLeave ==
  ASSUME PoolTypeOK, InsideChunk, NEW t \in Threads, pc[t] # "idle", Leave(t), phase' = phase,
         \A i \in Chunks : i # chunk[t] => pFreeList'[i] = pFreeList[i],
         \A u \in Threads : u # t /\ pc[u] = "free" =>
           /\ header'[pBlock[u]] = header[pBlock[u]]
           /\ want'[pBlock[u]] = want[pBlock[u]]
           /\ data'[pBlock[u]] = data[pBlock[u]]
  PROVE  InsideChunk'
<1>1. Inside(t)'
  BY DEF PoolTypeOK, Leave, Inside
<1>2. ASSUME NEW u \in Threads, u # t PROVE Inside(u)'
  <2>1. pc'[u] = pc[u] /\ chunk'[u] = chunk[u] /\ pBlock'[u] = pBlock[u] /\ size'[u] = size[u]
    BY <1>2, SMT DEF PoolTypeOK, Leave
  <2>2. pc[u] # "idle" => chunk[u] \in Chunks /\ chunk[u] # chunk[t]
    BY <1>2, MutexExclusive DEF InsideChunk, Inside
  <2>3. chunk[t] \in Chunks
    BY DEF InsideChunk, Inside
  <2>4. pc[u] # "idle" => hMutex'[chunk[u]] = hMutex[chunk[u]]
    BY <2>2, <2>3 DEF PoolTypeOK, Leave
  <2> QED
    BY <1>2, <2>1, <2>2, <2>4, InsideFrame DEF InsideChunk
<1> QED
  BY <1>1, <1>2 DEF InsideChunk

(* Each step keeps every thread's hold on its chunk.                       *)
LEMMA InsideStep ==
  ASSUME PoolInv, [Next]_vars PROVE InsideChunk'
<1>0. PoolTypeOK /\ InsideChunk /\ HeadersSound
  BY DEF PoolInv
<1>a. \A u \in Threads : Inside(u)
  BY <1>0 DEF InsideChunk
<1>b. ASSUME NEW u \in Threads, pc[u] = "free"
      PROVE  pBlock[u] \in Blocks /\ header[pBlock[u]] # None /\ want[pBlock[u]] = 0
  BY <1>a, <1>b DEF Inside, PoolBlock
<1>1. ASSUME NEW i \in Chunks, NEW b \in Blocks, Preallocate(i, b) PROVE InsideChunk'
  <2>1. \A u \in Threads : pc[u] = "idle"
    BY <1>a, <1>1 DEF Preallocate, Inside
  <2> QED
    BY <1>a, <1>1, <2>1 DEF Preallocate, InsideChunk, Inside
<1>2. CASE Constructed
  <2>1. \A u \in Threads : pc[u] = "idle"
    BY <1>a, <1>2 DEF Constructed, Inside
  <2> QED
    BY <1>a, <1>2, <2>1 DEF Constructed, InsideChunk, Inside
<1>3. CASE Destroy
  BY <1>a, <1>3 DEF Destroy, InsideChunk, Inside
<1>4. ASSUME NEW n \in Requests, NEW b \in Blocks, MallocHeap(n, b) PROVE InsideChunk'
  <2>1. \A u \in Threads : pc[u] = "free" => pBlock[u] # b
    BY <1>b, <1>4 DEF MallocHeap
  <2> QED
    BY <1>0, <1>a, <1>b, <1>4, <2>1, InsideFrame DEF MallocHeap, InsideChunk, PoolTypeOK
<1>5. ASSUME NEW t \in Threads, NEW n \in Requests, NEW i \in Chunks, MallocLock(t, n, i)
      PROVE  InsideChunk'
  <2>1. Inside(t)'
    BY <1>0, <1>5, RequestPositive DEF MallocLock, Inside, PoolTypeOK
  <2>2. ASSUME NEW u \in Threads, u # t PROVE Inside(u)'
    <3>1. pc[u] # "idle" => chunk[u] \in Chunks /\ chunk[u] # i
      BY <1>a, <1>5, SMT DEF MallocLock, Inside
    <3> QED
      BY <1>0, <1>a, <1>5, <2>2, <3>1, InsideFrame DEF MallocLock, PoolTypeOK
  <2> QED
    BY <2>1, <2>2 DEF InsideChunk
<1>6. ASSUME NEW t \in Threads, MallocPop(t) PROVE InsideChunk'
  <2>1. /\ chunk[t] \in Chunks /\ pBlock[t] = pFreeList[chunk[t]]
        /\ pBlock[t] # None /\ pc[t] = "malloc"
    BY <1>a, <1>6 DEF MallocPop, Inside
  <2>2. pBlock[t] \in Blocks /\ \A u \in Threads : pc[u] = "free" => pBlock[u] # pBlock[t]
    BY <2>1, HeadIsFree, SMT DEF FreeBlock, Pushing
  <2>3. \A i \in Chunks : i # chunk[t] => pFreeList'[i] = pFreeList[i]
    BY <1>0, <1>6, <2>1 DEF MallocPop, PoolTypeOK
  <2>4. \A u \in Threads : pc[u] = "free" => want'[pBlock[u]] = want[pBlock[u]]
    BY <1>0, <1>b, <1>6, <2>2 DEF MallocPop, PoolTypeOK
  <2> QED
    BY <1>0, <1>6, <2>1, <2>3, <2>4, InsideLeave DEF MallocPop
<1>7. ASSUME NEW t \in Threads, NEW b \in Blocks, MallocCreate(t, b) PROVE InsideChunk'
  <2>1. \A u \in Threads : pc[u] = "free" => pBlock[u] # b
    BY <1>b, <1>7 DEF MallocCreate, CreateBlock
  <2>2. \A u \in Threads : pc[u] = "free" =>
          header'[pBlock[u]] = header[pBlock[u]] /\ want'[pBlock[u]] = want[pBlock[u]]
    BY <1>0, <1>b, <1>7, <2>1 DEF MallocCreate, CreateBlock, PoolTypeOK
  <2> QED
    BY <1>0, <1>7, <2>2, InsideLeave DEF MallocCreate
<1>8. ASSUME NEW t \in Threads, MallocFails(t) PROVE InsideChunk'
  BY <1>0, <1>8, InsideLeave DEF MallocFails
<1>9. ASSUME NEW b \in Blocks, ClientWrite(b) \/ FreeHeap(b) PROVE InsideChunk'
  <2>1. \A u \in Threads : pc[u] = "free" => pBlock[u] # b
    BY <1>b, <1>9, SMT DEF ClientWrite, FreeHeap
  <2>2. CASE ClientWrite(b)
    BY <1>0, <1>a, <1>b, <2>1, <2>2, InsideFrame DEF ClientWrite, InsideChunk, PoolTypeOK
  <2>3. CASE FreeHeap(b)
    BY <1>0, <1>a, <1>b, <2>1, <2>3, InsideFrame DEF FreeHeap, InsideChunk, PoolTypeOK
  <2> QED
    BY <1>9, <2>2, <2>3
<1>10. ASSUME NEW t \in Threads, NEW b \in Blocks, FreeLock(t, b) PROVE InsideChunk'
  <2>1. PICK i \in Chunks : i = header[b].chunk /\ header[b] # None
    BY <1>0, <1>10, HeaderFields, SMT DEF FreeLock, HeadersSound
  <2>2. /\ phase = "run" /\ pc[t] = "idle" /\ hMutex[i] = None /\ want[b] > 0
        /\ hMutex' = [hMutex EXCEPT ![i] = t]
        /\ chunk' = [chunk EXCEPT ![t] = i]
        /\ data' = [data EXCEPT ![b] = pFreeList[i]]
        /\ want' = [want EXCEPT ![b] = 0]
        /\ pc' = [pc EXCEPT ![t] = "free"]
        /\ pBlock' = [pBlock EXCEPT ![t] = b]
        /\ UNCHANGED <<header, pFreeList, count, size, phase, tempcount>>
    BY <1>10, <2>1 DEF FreeLock
  <2>3. Inside(t)'
    BY <1>0, <2>1, <2>2, SMT DEF Inside, PoolBlock, PoolTypeOK
  <2>4. ASSUME NEW u \in Threads, u # t PROVE Inside(u)'
    <3>1. pc[u] # "idle" => chunk[u] \in Chunks /\ chunk[u] # i
      BY <1>a, <2>2, SMT DEF Inside
    <3>2. pc[u] = "free" => pBlock[u] \in Blocks /\ pBlock[u] # b
      BY <1>b, <2>2, SMT
    <3> QED
      BY <1>0, <1>a, <2>2, <2>4, <3>1, <3>2, InsideFrame DEF PoolTypeOK
  <2> QED
    BY <2>3, <2>4 DEF InsideChunk
<1>11. ASSUME NEW t \in Threads, FreePush(t) PROVE InsideChunk'
  <2>1. chunk[t] \in Chunks
    BY <1>a, <1>11 DEF FreePush, Inside
  <2>2. \A i \in Chunks : i # chunk[t] => pFreeList'[i] = pFreeList[i]
    BY <1>0, <1>11, <2>1 DEF FreePush, PoolTypeOK
  <2> QED
    BY <1>0, <1>11, <2>2, InsideLeave DEF FreePush
<1>12. ASSUME NEW i \in Chunks, DeleteBlock(i) PROVE InsideChunk'
  <2>1. \A u \in Threads : pc[u] = "idle"
    BY <1>a, <1>12 DEF DeleteBlock, Inside
  <2> QED
    BY <1>a, <1>12, <2>1 DEF DeleteBlock, InsideChunk, Inside
<1>13. CASE UNCHANGED vars
  BY <1>a, <1>13 DEF InsideChunk, Inside, PoolBlock, Fits
<1> QED
  BY <1>1, <1>2, <1>3, <1>4, <1>5, <1>6, <1>7, <1>8, <1>9, <1>10, <1>11, <1>12, <1>13 DEF Next

-----------------------------------------------------------------------------
(* Free lists                                                              *)

(* A step that changes neither the lists' heads nor a free block.          *)
LEMMA ListFrame ==
  ASSUME PoolTypeOK, ListsWhole, pFreeList' = pFreeList,
         \A b \in Blocks, i \in Chunks : FreeBlock(b, i)' <=> FreeBlock(b, i),
         \A b \in Blocks, i \in Chunks : FreeBlock(b, i) => data'[b] = data[b]
  PROVE  ListsWhole'
<1>1. \A i \in Chunks : pFreeList[i] \in Blocks \cup {None}
  BY DEF PoolTypeOK
<1>2. FreeListSound /\ FreeBlocksLinked
  BY DEF ListsWhole
<1>3. FreeListSound'
  BY <1>1, <1>2, SMT DEF FreeListSound
<1>4. ASSUME NEW i \in Chunks, NEW b \in Blocks, NEW S \in SUBSET Blocks,
             FreeBlock(b, i)', ListClosed(S, i)'
      PROVE  b \in S
  <2>1. ListClosed({c \in S : FreeBlock(c, i)}, i)
    BY <1>1, <1>2, <1>4, SMT DEF ListClosed, FreeListSound
  <2> QED
    BY <1>2, <1>4, <2>1 DEF FreeBlocksLinked
<1> QED
  BY <1>3, <1>4 DEF ListsWhole, FreeBlocksLinked

(* Linking a block that is on no list in front of list i.                  *)
LEMMA ListPush ==
  ASSUME PoolTypeOK, ListsWhole, NEW i \in Chunks, NEW b \in Blocks,
         pFreeList' = [pFreeList EXCEPT ![i] = b],
         data'[b] = pFreeList[i],
         \A j \in Chunks : ~FreeBlock(b, j),
         \A c \in Blocks, j \in Chunks :
           FreeBlock(c, j)' <=> FreeBlock(c, j) \/ (c = b /\ j = i),
         \A c \in Blocks, j \in Chunks : FreeBlock(c, j) => data'[c] = data[c]
  PROVE  ListsWhole'
<1>1. pFreeList'[i] = b /\ \A j \in Chunks : j # i => pFreeList'[j] = pFreeList[j]
  BY SMT DEF PoolTypeOK
<1>2. \A j \in Chunks : pFreeList[j] # None => pFreeList[j] \in Blocks /\ FreeBlock(pFreeList[j], j)
  BY SMT DEF PoolTypeOK, ListsWhole, FreeListSound
<1>3. \A c \in Blocks, j \in Chunks : FreeBlock(c, j) /\ data[c] # None =>
        /\ data[c] \in Blocks /\ FreeBlock(data[c], j)
        /\ data[c] # pFreeList[j] /\ data[c] # b
        /\ \A d \in Blocks : FreeBlock(d, j) /\ data[d] = data[c] => d = c
  BY SMT DEF ListsWhole, FreeListSound
<1>4. \A j \in Chunks : pFreeList'[j] # None => FreeBlock(pFreeList[j], j)'
  BY <1>1, <1>2
<1>5. ASSUME NEW j \in Chunks, NEW c \in Blocks, FreeBlock(c, j)', data'[c] # None
      PROVE  /\ data'[c] \in Blocks /\ FreeBlock(data[c], j)'
             /\ data'[c] # pFreeList'[j]
             /\ \A d \in Blocks : FreeBlock(d, j)' /\ data'[d] = data'[c] => d = c
  <2>1. CASE c = b
    <3>1. j = i /\ data'[c] = pFreeList[i] /\ pFreeList[i] # None
      BY <1>5, <2>1
    <3>2. data'[c] \in Blocks /\ FreeBlock(data[c], j)' /\ data'[c] # b
      BY <1>2, <3>1, SMT
    <3> QED
      BY <1>1, <1>3, <1>5, <2>1, <3>1, <3>2, SMT
  <2>2. CASE c # b
    <3>1. FreeBlock(c, j) /\ data'[c] = data[c]
      BY <1>5, <2>2
    <3>2. data'[c] \in Blocks /\ FreeBlock(data[c], j)' /\ data'[c] # pFreeList'[j]
      BY <1>1, <1>3, <1>5, <3>1, SMT
    <3> QED
      BY <1>1, <1>3, <1>5, <3>1, <3>2, SMT
  <2> QED
    BY <2>1, <2>2
<1>6. ASSUME NEW j \in Chunks, NEW c \in Blocks, NEW S \in SUBSET Blocks,
             FreeBlock(c, j)', ListClosed(S, j)'
      PROVE  c \in S
  <2>1. ListClosed({d \in S : FreeBlock(d, j)}, j)
    <3>1. pFreeList[j] # None => pFreeList[j] \in S
      BY <1>1, <1>2, <1>6 DEF ListClosed
    <3> QED
      BY <1>2, <1>3, <1>6, <3>1, SMT DEF ListClosed
  <2>2. c = b => c \in S
    BY <1>1, <1>6, SMT DEF ListClosed
  <2> QED
    BY <1>6, <2>1, <2>2 DEF ListsWhole, FreeBlocksLinked
<1> QED
  BY <1>4, <1>5, <1>6 DEF ListsWhole, FreeListSound, FreeBlocksLinked

(* Unlinking the head of list i.                                           *)
LEMMA ListPop ==
  ASSUME PoolTypeOK, ListsWhole, NEW i \in Chunks, NEW b \in Blocks, b = pFreeList[i],
         pFreeList' = [pFreeList EXCEPT ![i] = data[b]], data' = data,
         \A c \in Blocks, j \in Chunks : FreeBlock(c, j)' <=> FreeBlock(c, j) /\ c # b
  PROVE  ListsWhole'
<1>1. pFreeList'[i] = data[b] /\ \A j \in Chunks : j # i => pFreeList'[j] = pFreeList[j]
  BY DEF PoolTypeOK
<1>2. \A j \in Chunks : pFreeList[j] # None => pFreeList[j] \in Blocks /\ FreeBlock(pFreeList[j], j)
  BY SMTT(60) DEF PoolTypeOK, ListsWhole, FreeListSound
<1>3. FreeBlock(b, i) /\ \A j \in Chunks : FreeBlock(b, j) => j = i
  BY <1>2 DEF FreeBlock, PoolBlock
<1>4. \A c \in Blocks, j \in Chunks : FreeBlock(c, j) /\ data[c] # None =>
        /\ data[c] \in Blocks /\ FreeBlock(data[c], j)
        /\ data[c] # pFreeList[j] /\ data[c] # b
        /\ \A d \in Blocks : FreeBlock(d, j) /\ data[d] = data[c] => d = c
  BY <1>3 DEF ListsWhole, FreeListSound
<1>5. \A j \in Chunks : pFreeList'[j] # None => FreeBlock(pFreeList[j], j)'
  BY <1>1, <1>2, <1>3, <1>4, SMT
<1>6. ASSUME NEW j \in Chunks, NEW c \in Blocks, FreeBlock(c, j)', data'[c] # None
      PROVE  /\ data'[c] \in Blocks /\ FreeBlock(data[c], j)'
             /\ data'[c] # pFreeList'[j]
             /\ \A d \in Blocks : FreeBlock(d, j)' /\ data'[d] = data'[c] => d = c
  <2>1. FreeBlock(c, j) /\ c # b /\ data'[c] = data[c]
    BY <1>6
  <2>2. data'[c] \in Blocks /\ FreeBlock(data[c], j)'
    BY <1>4, <1>6, <2>1
  <2>3. data'[c] # pFreeList'[j]
    BY <1>1, <1>3, <1>4, <1>6, <2>1, SMTT(60)
  <2> QED
    BY <1>4, <1>6, <2>1, <2>2, <2>3
<1>7. ASSUME NEW j \in Chunks, NEW c \in Blocks, NEW S \in SUBSET Blocks,
             FreeBlock(c, j)', ListClosed(S, j)'
      PROVE  c \in S
  <2> DEFINE T == {d \in S : FreeBlock(d, j)} \cup {d \in {b} : j = i}
  <2>1. ListClosed(T, j)
    <3>1. pFreeList[j] # None => pFreeList[j] \in T
      BY <1>1, <1>2, <1>7 DEF ListClosed
    <3>2. j = i /\ data[b] \in Blocks => data[b] \in T
      BY <1>1, <1>3, <1>4, <1>7, SMT DEF ListClosed
    <3>3. \A d \in S : FreeBlock(d, j) /\ data[d] \in Blocks => data[d] \in T
      BY <1>4, <1>7 DEF ListClosed
    <3> QED
      BY <3>1, <3>2, <3>3 DEF ListClosed
  <2>2. c \in T /\ c # b
    BY <1>7, <2>1, SMT DEF ListsWhole, FreeBlocksLinked
  <2> QED
    BY <2>2
<1> QED
  BY <1>5, <1>6, <1>7 DEF ListsWhole, FreeListSound, FreeBlocksLinked

(* Each step keeps the lists sound.                                        *)
LEMMA ListStep ==
  ASSUME PoolInv, [Next]_vars PROVE ListsWhole'
<1>0. PoolTypeOK /\ InsideChunk /\ HeadersSound /\ ListsWhole
  BY DEF PoolInv
<1>a. \A b \in Blocks : header[b] = None => want[b] = 0 /\ \A i \in Chunks : ~FreeBlock(b, i)
  <2> SUFFICES ASSUME NEW b \in Blocks, header[b] = None
               PROVE  want[b] = 0 /\ \A i \in Chunks : ~FreeBlock(b, i)
    OBVIOUS
  <2>1. ~(want[b] > 0) /\ want[b] \in Requests \cup {0}
    BY <1>0 DEF HeadersSound, PoolTypeOK
  <2>2. want[b] = 0
    BY <2>1, RequestPositive
  <2> QED
    BY <2>2 DEF FreeBlock, PoolBlock
<1>b. \A t \in Threads : pc[t] = "free" => pBlock[t] \in Blocks /\ header[pBlock[t]] # None /\ want[pBlock[t]] = 0
  BY <1>0 DEF InsideChunk, Inside, PoolBlock
<1>c. CASE UNCHANGED <<header, data, pFreeList, want, pc, pBlock>>
  BY <1>0, <1>c, ListFrame DEF FreeBlock, PoolBlock, Pushing
<1>1. ASSUME NEW i \in Chunks, NEW b \in Blocks, Preallocate(i, b) PROVE ListsWhole'
  <2>1. /\ header[b] = None
        /\ header' = [header EXCEPT ![b] = [chunk |-> i, len |-> ChunkSize[i]]]
        /\ data' = [data EXCEPT ![b] = pFreeList[i]]
        /\ pFreeList' = [pFreeList EXCEPT ![i] = b]
        /\ UNCHANGED <<want, pc, pBlock>>
    BY <1>1 DEF Preallocate, CreateBlock
  <2>2. \A c \in Blocks : Pushing(c)' <=> Pushing(c)
    BY <2>1 DEF Pushing
  <2>3. ~Pushing(b) /\ want[b] = 0 /\ \A j \in Chunks : ~FreeBlock(b, j)
    BY <1>a, <1>b, <2>1 DEF Pushing
  <2>4. [chunk |-> i, len |-> ChunkSize[i]] \in HeaderType
    BY DEF HeaderType
  <2>5. \A j \in Chunks : FreeBlock(b, j)' <=> j = i
    BY <1>0, <2>1, <2>2, <2>3, <2>4 DEF FreeBlock, PoolBlock, PoolTypeOK
  <2>6. \A c \in Blocks, j \in Chunks : c # b => (FreeBlock(c, j)' <=> FreeBlock(c, j))
    BY <1>0, <2>1, <2>2 DEF FreeBlock, PoolBlock, PoolTypeOK
  <2>7. data'[b] = pFreeList[i] /\ \A c \in Blocks : c # b => data'[c] = data[c]
    BY <1>0, <2>1 DEF PoolTypeOK
  <2>8. \A c \in Blocks, j \in Chunks : FreeBlock(c, j)' <=> FreeBlock(c, j) \/ (c = b /\ j = i)
    BY <2>3, <2>5, <2>6
  <2>9. \A c \in Blocks, j \in Chunks : FreeBlock(c, j) => data'[c] = data[c]
    BY <2>3, <2>7
  <2>10. pFreeList' = [pFreeList EXCEPT ![i] = b] /\ data'[b] = pFreeList[i]
    BY <2>1, <2>7
  <2>11. \A j \in Chunks : ~FreeBlock(b, j)
    BY <2>3
  <2> QED
    BY <1>0, <2>8, <2>9, <2>10, <2>11, ListPush
<1>2. ASSUME NEW n \in Requests, NEW b \in Blocks, MallocHeap(n, b) PROVE ListsWhole'
  <2>1. /\ header[b] = None
        /\ header' = [header EXCEPT ![b] = [chunk |-> None, len |-> n]]
        /\ want' = [want EXCEPT ![b] = n]
        /\ UNCHANGED <<data, pFreeList, pc, pBlock>>
    BY <1>2 DEF MallocHeap
  <2>2. \A c \in Blocks, j \in Chunks : FreeBlock(c, j)' <=> FreeBlock(c, j)
    BY <1>0, <1>a, <2>1, RequestPositive, SMT DEF FreeBlock, PoolBlock, Pushing, PoolTypeOK
  <2> QED
    BY <1>0, <2>1, <2>2, ListFrame
<1>3. ASSUME NEW t \in Threads, NEW n \in Requests, NEW i \in Chunks, MallocLock(t, n, i)
      PROVE  ListsWhole'
  <2>1. UNCHANGED <<header, data, pFreeList, want>>
    BY <1>3 DEF MallocLock
  <2>2. \A c \in Blocks : Pushing(c)' <=> Pushing(c)
    BY <1>0, <1>3 DEF MallocLock, Pushing, PoolTypeOK
  <2> QED
    BY <1>0, <2>1, <2>2, ListFrame DEF FreeBlock, PoolBlock
<1>4. ASSUME NEW t \in Threads, pc[t] = "malloc", Leave(t)
      PROVE  \A c \in Blocks : Pushing(c)' <=> Pushing(c)
  BY <1>0, <1>4 DEF Leave, Pushing, PoolTypeOK
<1>5. ASSUME NEW t \in Threads, MallocPop(t) PROVE ListsWhole'
  <2>1. PICK i \in Chunks, b \in Blocks : i = chunk[t] /\ b = pBlock[t] /\ b = pFreeList[i]
    BY <1>0, <1>5, SMT DEF MallocPop, InsideChunk, Inside, PoolTypeOK
  <2>2. /\ pFreeList' = [pFreeList EXCEPT ![i] = data[b]] /\ UNCHANGED <<header, data>>
        /\ want' = [want EXCEPT ![b] = size[t]] /\ pc[t] = "malloc" /\ Leave(t) /\ size[t] > 0
    BY <1>0, <1>5, <2>1 DEF MallocPop, InsideChunk, Inside
  <2>3. \A c \in Blocks, j \in Chunks : FreeBlock(c, j)' <=> FreeBlock(c, j) /\ c # b
    BY <1>0, <1>4, <2>2, SMT DEF FreeBlock, PoolBlock, PoolTypeOK
  <2> QED
    BY <1>0, <2>1, <2>2, <2>3, ListPop
<1>6. ASSUME NEW t \in Threads, NEW b \in Blocks, MallocCreate(t, b) PROVE ListsWhole'
  <2>1. /\ header[b] = None /\ pc[t] = "malloc" /\ Leave(t) /\ size[t] > 0
        /\ header' = [header EXCEPT ![b] = [chunk |-> chunk[t], len |-> ChunkSize[chunk[t]]]]
        /\ want' = [want EXCEPT ![b] = size[t]]
        /\ UNCHANGED <<data, pFreeList>>
    BY <1>0, <1>6 DEF MallocCreate, CreateBlock, InsideChunk, Inside
  <2>2. \A c \in Blocks, j \in Chunks : FreeBlock(c, j)' <=> FreeBlock(c, j)
    BY <1>0, <1>4, <1>a, <2>1, SMT DEF FreeBlock, PoolBlock, PoolTypeOK
  <2> QED
    BY <1>0, <2>1, <2>2, ListFrame, SMTT(60)
<1>7. ASSUME NEW t \in Threads, MallocFails(t) PROVE ListsWhole'
  BY <1>0, <1>4, <1>7, ListFrame DEF MallocFails, FreeBlock, PoolBlock
<1>8. ASSUME NEW b \in Blocks, ClientWrite(b) PROVE ListsWhole'
  <2>1. /\ want[b] > 0 /\ data' = [data EXCEPT ![b] = Garbage]
        /\ UNCHANGED <<header, pFreeList, want, pc, pBlock>>
    BY <1>8 DEF ClientWrite
  <2>2. \A c \in Blocks, j \in Chunks : FreeBlock(c, j)' <=> FreeBlock(c, j)
    BY <2>1 DEF FreeBlock, PoolBlock, Pushing
  <2>3. \A c \in Blocks, j \in Chunks : FreeBlock(c, j) => data'[c] = data[c]
    BY <1>0, <2>1, SMT DEF FreeBlock, PoolTypeOK
  <2> QED
    BY <1>0, <2>1, <2>2, <2>3, ListFrame
<1>9. ASSUME NEW b \in Blocks, FreeHeap(b) PROVE ListsWhole'
  <2>1. /\ want[b] > 0 /\ header[b].len > MaxSize
        /\ header' = [header EXCEPT ![b] = None] /\ want' = [want EXCEPT ![b] = 0]
        /\ UNCHANGED <<data, pFreeList, pc, pBlock>>
    BY <1>9 DEF FreeHeap
  <2>2. \A c \in Blocks, j \in Chunks : FreeBlock(c, j)' <=> FreeBlock(c, j)
    BY <1>0, <2>1, SMT DEF FreeBlock, PoolBlock, Pushing, PoolTypeOK
  <2> QED
    BY <1>0, <2>1, <2>2, ListFrame
<1>10. ASSUME NEW t \in Threads, NEW b \in Blocks, FreeLock(t, b) PROVE ListsWhole'
  <2>1. /\ want[b] > 0 /\ pc[t] = "idle"
        /\ data' = [data EXCEPT ![b] = pFreeList[header[b].chunk]]
        /\ want' = [want EXCEPT ![b] = 0]
        /\ pc' = [pc EXCEPT ![t] = "free"] /\ pBlock' = [pBlock EXCEPT ![t] = b]
        /\ UNCHANGED <<header, pFreeList>>
    BY <1>10 DEF FreeLock
  <2>2. \A c \in Blocks : Pushing(c)' <=> Pushing(c) \/ c = b
    BY <1>0, <2>1, SMT DEF Pushing, PoolTypeOK
  <2>3. \A c \in Blocks, j \in Chunks : FreeBlock(c, j)' <=> FreeBlock(c, j)
    BY <1>0, <2>1, <2>2, SMT DEF FreeBlock, PoolBlock, PoolTypeOK
  <2>4. \A c \in Blocks, j \in Chunks : FreeBlock(c, j) => data'[c] = data[c]
    BY <1>0, <2>1, SMT DEF FreeBlock, PoolTypeOK
  <2> QED
    BY <1>0, <2>1, <2>3, <2>4, ListFrame
<1>11. ASSUME NEW t \in Threads, FreePush(t) PROVE ListsWhole'
  <2>1. PICK i \in Chunks, b \in Blocks : i = chunk[t] /\ b = pBlock[t]
    BY <1>0, <1>11 DEF FreePush, InsideChunk, Inside
  <2>2. PoolBlock(b, i) /\ want[b] = 0 /\ data[b] = pFreeList[i] /\ pc[t] = "free" /\ Pushing(b)
    BY <1>0, <1>11, <2>1 DEF FreePush, InsideChunk, Inside, Pushing
  <2>3. pFreeList' = [pFreeList EXCEPT ![i] = b] /\ Leave(t) /\ UNCHANGED <<header, data, want>>
    BY <1>11, <2>1 DEF FreePush
  <2>4. \A u \in Threads : pc[u] = "free" /\ pBlock[u] = b => u = t
    <3> SUFFICES ASSUME NEW u \in Threads, pc[u] = "free", pBlock[u] = b PROVE u = t
      OBVIOUS
    <3>1. chunk[u] = i
      BY <1>0, <2>2 DEF InsideChunk, Inside, PoolBlock
    <3> QED
      BY <1>0, <2>1, <2>2, <3>1, MutexExclusive
  <2>5. \A c \in Blocks : Pushing(c)' <=> Pushing(c) /\ c # b
    BY <1>0, <2>1, <2>2, <2>3, <2>4, SMTT(60) DEF Pushing, Leave, PoolTypeOK
  <2>6. \A c \in Blocks, j \in Chunks : FreeBlock(c, j)' <=> FreeBlock(c, j) \/ (c = b /\ j = i)
    <3>1. \A c \in Blocks, j \in Chunks :
            (PoolBlock(c, j)' <=> PoolBlock(c, j)) /\ (want'[c] = 0 <=> want[c] = 0)
      BY <2>3 DEF PoolBlock
    <3>2. \A j \in Chunks : PoolBlock(b, j) <=> j = i
      BY <2>2 DEF PoolBlock
    <3> QED
      BY <2>2, <2>5, <3>1, <3>2 DEF FreeBlock
  <2>7. \A j \in Chunks : ~FreeBlock(b, j)
    BY <2>2 DEF FreeBlock
  <2>8. \A c \in Blocks, j \in Chunks : FreeBlock(c, j) => data'[c] = data[c]
    BY <2>3
  <2>9. pFreeList' = [pFreeList EXCEPT ![i] = b] /\ data'[b] = pFreeList[i]
    BY <2>2, <2>3
  <2> QED
    BY <1>0, <2>6, <2>7, <2>8, <2>9, ListPush
<1>12. ASSUME NEW i \in Chunks, DeleteBlock(i) PROVE ListsWhole'
  <2>1. PICK b \in Blocks : b = pFreeList[i]
    BY <1>12, HeadIsFree DEF DeleteBlock
  <2>2. /\ pFreeList' = [pFreeList EXCEPT ![i] = data[b]] /\ header' = [header EXCEPT ![b] = None]
        /\ UNCHANGED <<data, want, pc, pBlock>>
    BY <1>12, <2>1 DEF DeleteBlock
  <2>3. \A c \in Blocks, j \in Chunks : FreeBlock(c, j)' <=> FreeBlock(c, j) /\ c # b
    BY <1>0, <2>2 DEF FreeBlock, PoolBlock, Pushing, PoolTypeOK
  <2> QED
    BY <1>0, <2>1, <2>2, <2>3, ListPop
<1> QED
  BY <1>c, <1>1, <1>2, <1>3, <1>5, <1>6, <1>7, <1>8, <1>9, <1>10, <1>11, <1>12
     DEF Next, Constructed, Destroy

-----------------------------------------------------------------------------
(* The theorems                                                            *)

(* The invariant of the pool holds in every reachable state.               *)
THEOREM PoolInvariance == Spec => []PoolInv
<1>1. Init => PoolInv
  BY SMTT(60) DEF Init, PoolInv, PoolTypeOK, InsideChunk, Inside, HeadersSound, ListsWhole,
         FreeListSound, FreeBlocksLinked, FreeBlock, PoolBlock, MemoryLargeEnough
<1>2. PoolInv /\ [Next]_vars => PoolInv'
  BY PoolTypeStep, HeaderStep, InsideStep, ListStep DEF PoolInv
<1> QED
  BY <1>1, <1>2, PTL DEF Spec

(* The free lists of MemoryChunk lead over free blocks only, once each.    *)
THEOREM FreeListsSound == Spec => []FreeListSound
<1>1. PoolInv => FreeListSound
  BY DEF PoolInv, ListsWhole
<1> QED
  BY <1>1, PoolInvariance, PTL

(* MemoryChunk::malloc() gives no block to two clients at the same time.   *)
THEOREM BlocksHandedOutOnce == Spec => []NotHandedOutTwice
<1>1. PoolInv => NotHandedOutTwice
  <2> SUFFICES ASSUME PoolInv, NEW t \in Threads, pc[t] = "malloc", pBlock[t] # None
               PROVE  /\ want[pBlock[t]] = 0
                      /\ \A u \in Threads : pBlock[u] = pBlock[t] => u = t
    BY DEF NotHandedOutTwice
  <2>1. InsideChunk /\ PoolTypeOK
    BY DEF PoolInv
  <2>2. chunk[t] \in Chunks /\ pBlock[t] = pFreeList[chunk[t]]
    BY <2>1 DEF InsideChunk, Inside
  <2>3. FreeBlock(pBlock[t], chunk[t])
    BY <2>2, HeadIsFree
  <2>4. ASSUME NEW u \in Threads, pBlock[u] = pBlock[t] PROVE u = t
    <3>1. pc[u] = "malloc"
      BY <2>1, <2>3, <2>4, SMTT(60) DEF InsideChunk, Inside, FreeBlock, Pushing, PoolTypeOK
    <3>2. chunk[u] \in Chunks /\ pBlock[u] = pFreeList[chunk[u]]
      BY <2>1, <3>1 DEF InsideChunk, Inside
    <3>3. FreeBlock(pBlock[t], chunk[u])
      BY <2>4, <3>2, HeadIsFree
    <3>4. chunk[u] = chunk[t]
      BY <2>3, <3>3 DEF FreeBlock, PoolBlock
    <3> QED
      BY <2>1, <3>1, <3>4, MutexExclusive
  <2> QED
    BY <2>3, <2>4 DEF FreeBlock
<1> QED
  BY <1>1, PoolInvariance, PTL

(* MemoryPool::Malloc() returns enough memory, from the place Free() will  *)
(* return it to.                                                           *)
THEOREM MemoryIsLargeEnough == Spec => []MemoryLargeEnough
<1>1. PoolInv => MemoryLargeEnough
  BY DEF PoolInv
<1> QED
  BY <1>1, PoolInvariance, PTL

(* MemoryChunk loses no block: the free list leads to every block of the   *)
(* chunk that neither a client nor a free() in progress has.               *)
THEOREM NoBlockIsLost == Spec => []NoBlockLost
<1>1. PoolInv => NoBlockLost
  <2> SUFFICES ASSUME PoolInv, NEW i \in Chunks
               PROVE  {b \in Blocks : FreeBlock(b, i)} = Reachable(i)
    BY DEF NoBlockLost
  <2>1. \A b \in Blocks : FreeBlock(b, i) => b \in Reachable(i)
    BY DEF PoolInv, ListsWhole, FreeBlocksLinked, Reachable
  <2>2. ListClosed({b \in Blocks : FreeBlock(b, i)}, i)
    BY SMT DEF PoolInv, PoolTypeOK, ListsWhole, FreeListSound, ListClosed
  <2>3. \A b \in Reachable(i) : b \in Blocks /\ FreeBlock(b, i)
    BY <2>2 DEF Reachable
  <2> QED
    BY <2>1, <2>3
<1> QED
  BY <1>1, PoolInvariance, PTL

-----------------------------------------------------------------------------
(* The counts of ~MemoryChunk                                              *)

PoolBlocks(i) == {b \in Blocks : PoolBlock(b, i)}

(* A chunk has created the blocks it has and the ones it has deleted.      *)
BlocksCounted ==
  \A i \in Chunks : count[i] = tempcount[i] + Cardinality(PoolBlocks(i))

LEMMA PoolBlocksFinite ==
  ASSUME NEW i \in Chunks
  PROVE  IsFiniteSet(PoolBlocks(i)) /\ Cardinality(PoolBlocks(i)) \in Nat
<1>1. PoolBlocks(i) \subseteq Blocks
  BY DEF PoolBlocks
<1>2. IsFiniteSet(PoolBlocks(i))
  BY <1>1, BlocksAssumption, FS_Subset
<1> QED
  BY <1>2, FS_CardinalityType

(* A step that neither makes nor deletes a block of a chunk.               *)
LEMMA CountFrame ==
  ASSUME BlocksCounted, UNCHANGED <<count, tempcount>>,
         \A b \in Blocks, i \in Chunks : PoolBlock(b, i)' <=> PoolBlock(b, i)
  PROVE  BlocksCounted'
<1>1. \A i \in Chunks : PoolBlocks(i)' = PoolBlocks(i)
  BY DEF PoolBlocks
<1> QED
  BY <1>1 DEF BlocksCounted

(* CreateBlock() counts the block it makes.                                *)
LEMMA CountCreate ==
  ASSUME PoolTypeOK, BlocksCounted, NEW i \in Chunks, NEW b \in Blocks,
         CreateBlock(b, i), tempcount' = tempcount
  PROVE  BlocksCounted'
<1>1. [chunk |-> i, len |-> ChunkSize[i]] \in HeaderType
  BY DEF HeaderType
<1>2. PoolBlocks(i)' = PoolBlocks(i) \cup {b} /\ b \notin PoolBlocks(i)
  BY <1>1, SMT DEF PoolBlocks, PoolBlock, CreateBlock, PoolTypeOK
<1>3. Cardinality(PoolBlocks(i) \cup {b}) = Cardinality(PoolBlocks(i)) + 1
  BY <1>2, PoolBlocksFinite, FS_AddElement
<1>4. \A j \in Chunks : j # i => PoolBlocks(j)' = PoolBlocks(j)
  BY <1>1 DEF PoolBlocks, PoolBlock, CreateBlock, PoolTypeOK
<1>5. count'[i] = count[i] + 1 /\ \A j \in Chunks : j # i => count'[j] = count[j]
  BY DEF CreateBlock, PoolTypeOK
<1>6. count[i] \in Nat /\ tempcount[i] \in Nat
  BY DEF PoolTypeOK
<1>7. count'[i] = tempcount'[i] + Cardinality(PoolBlocks(i))'
  BY <1>2, <1>3, <1>5, <1>6, PoolBlocksFinite, SMT DEF BlocksCounted
<1>8. \A j \in Chunks : j # i => count'[j] = tempcount'[j] + Cardinality(PoolBlocks(j))'
  BY <1>4, <1>5 DEF BlocksCounted
<1> QED
  BY <1>7, <1>8 DEF BlocksCounted

(* The loop of ~MemoryChunk counts the block it deletes.                   *)
LEMMA CountDelete ==
  ASSUME PoolInv, BlocksCounted, NEW i \in Chunks, DeleteBlock(i)
  PROVE  BlocksCounted'
<1>1. PICK b \in Blocks : b = pFreeList[i] /\ PoolBlock(b, i)
  BY HeadIsFree DEF DeleteBlock, FreeBlock
<1>2. /\ header' = [header EXCEPT ![b] = None] /\ count' = count
      /\ tempcount' = [tempcount EXCEPT ![i] = tempcount[i] + 1] /\ PoolTypeOK
  BY <1>1 DEF DeleteBlock, PoolInv
<1>3. PoolBlocks(i)' = PoolBlocks(i) \ {b} /\ b \in PoolBlocks(i)
  BY <1>1, <1>2 DEF PoolBlocks, PoolBlock, PoolTypeOK
<1>4. Cardinality(PoolBlocks(i) \ {b}) = Cardinality(PoolBlocks(i)) - 1
  BY <1>3, PoolBlocksFinite, FS_RemoveElement
<1>5. \A j \in Chunks : j # i => PoolBlocks(j)' = PoolBlocks(j)
  BY <1>1, <1>2 DEF PoolBlocks, PoolBlock, PoolTypeOK
<1>6. tempcount'[i] = tempcount[i] + 1 /\ \A j \in Chunks : j # i => tempcount'[j] = tempcount[j]
  BY <1>2 DEF PoolTypeOK
<1>7. count[i] \in Nat /\ tempcount[i] \in Nat
  BY <1>2 DEF PoolTypeOK
<1>8. count'[i] = tempcount'[i] + Cardinality(PoolBlocks(i))'
  BY <1>2, <1>3, <1>4, <1>6, <1>7, PoolBlocksFinite, SMT DEF BlocksCounted
<1>9. \A j \in Chunks : j # i => count'[j] = tempcount'[j] + Cardinality(PoolBlocks(j))'
  BY <1>2, <1>5, <1>6 DEF BlocksCounted
<1> QED
  BY <1>8, <1>9 DEF BlocksCounted

(* Each step keeps the counts.                                             *)
LEMMA CountStep ==
  ASSUME PoolInv, BlocksCounted, [Next]_vars PROVE BlocksCounted'
<1>0. PoolTypeOK /\ InsideChunk /\ HeadersSound
  BY DEF PoolInv
<1>c. CASE UNCHANGED <<header, count, tempcount>>
  BY <1>c, CountFrame DEF PoolBlock
<1>1. ASSUME NEW i \in Chunks, NEW b \in Blocks, Preallocate(i, b) PROVE BlocksCounted'
  BY <1>0, <1>1, CountCreate DEF Preallocate
<1>2. ASSUME NEW n \in Requests, NEW b \in Blocks, MallocHeap(n, b) PROVE BlocksCounted'
  <2>1. \A c \in Blocks, i \in Chunks : PoolBlock(c, i)' <=> PoolBlock(c, i)
    BY <1>0, <1>2 DEF MallocHeap, PoolBlock, PoolTypeOK
  <2> QED
    BY <1>2, <2>1, CountFrame DEF MallocHeap
<1>3. ASSUME NEW t \in Threads, NEW b \in Blocks, MallocCreate(t, b) PROVE BlocksCounted'
  <2>1. chunk[t] \in Chunks
    BY <1>0, <1>3 DEF MallocCreate, InsideChunk, Inside
  <2> QED
    BY <1>0, <1>3, <2>1, CountCreate DEF MallocCreate
<1>4. ASSUME NEW b \in Blocks, FreeHeap(b) PROVE BlocksCounted'
  <2>1. \A i \in Chunks : ~PoolBlock(b, i)
    <3>1. header[b].len > MaxSize /\ want[b] > 0
      BY <1>4 DEF FreeHeap
    <3>2. header[b].chunk = None
      BY <3>1 DEF PoolInv, MemoryLargeEnough
    <3> QED
      BY <3>2 DEF PoolBlock
  <2>2. \A c \in Blocks, i \in Chunks : PoolBlock(c, i)' <=> PoolBlock(c, i)
    BY <1>0, <1>4, <2>1 DEF FreeHeap, PoolBlock, PoolTypeOK
  <2> QED
    BY <1>4, <2>2, CountFrame DEF FreeHeap
<1>5. ASSUME NEW i \in Chunks, DeleteBlock(i) PROVE BlocksCounted'
  BY <1>5, CountDelete
<1> QED
  BY <1>c, <1>1, <1>2, <1>3, <1>4, <1>5
     DEF Next, Constructed, MallocLock, MallocPop, MallocFails, ClientWrite, FreeLock, FreePush, Destroy

(* The assertion of ~MemoryChunk holds: once the list is empty, as many    *)
(* blocks have been deleted as were created.                               *)
THEOREM ReleaseIsComplete == Spec => []ReleasedCompletely
<1>1. Init => BlocksCounted
  <2> SUFFICES ASSUME Init, NEW i \in Chunks
               PROVE  count[i] = tempcount[i] + Cardinality(PoolBlocks(i))
    BY DEF BlocksCounted
  <2>1. PoolBlocks(i) = {} /\ count[i] = 0 /\ tempcount[i] = 0
    BY DEF Init, PoolBlocks, PoolBlock
  <2> QED
    BY <2>1, FS_EmptySet, SMT
<1>2. PoolInv /\ BlocksCounted /\ [Next]_vars => BlocksCounted'
  BY CountStep
<1>3. PoolInv /\ BlocksCounted => ReleasedCompletely
  <2> SUFFICES ASSUME PoolInv, BlocksCounted, NEW i \in Chunks, phase = "destroy", pFreeList[i] = None
               PROVE  tempcount[i] = count[i]
    BY DEF ReleasedCompletely
  <2>1. \A b \in Blocks : ~FreeBlock(b, i)
    <3>1. ListClosed({}, i)
      BY DEF ListClosed
    <3> QED
      BY <3>1 DEF PoolInv, ListsWhole, FreeBlocksLinked
  <2>2. \A b \in Blocks : want[b] = 0
    <3> SUFFICES ASSUME NEW b \in Blocks PROVE want[b] = 0
      OBVIOUS
    <3>1. ~(want[b] > 0) /\ want[b] \in Requests \cup {0}
      BY DEF PoolInv, HeadersSound, PoolTypeOK
    <3> QED
      BY <3>1, RequestPositive
  <2>3. \A b \in Blocks : ~Pushing(b)
    BY DEF PoolInv, InsideChunk, Inside, Pushing
  <2>4. PoolBlocks(i) = {}
    BY <2>1, <2>2, <2>3 DEF FreeBlock, PoolBlocks
  <2>5. count[i] = tempcount[i] + Cardinality(PoolBlocks(i)) /\ tempcount[i] \in Nat
    BY DEF BlocksCounted, PoolInv, PoolTypeOK
  <2> QED
    BY <2>4, <2>5, FS_EmptySet, SMT
<1> QED
  BY <1>1, <1>2, <1>3, PoolInvariance, PTL DEF Spec

-----------------------------------------------------------------------------
(* The refinement of Allocator: each step of a thread is a step of the     *)
(* abstract allocator, or one that no client can see.                      *)
Rooms   == {ChunkSize[i] : i \in Chunks} \cup Requests
Words   == Blocks \cup {None, Garbage}
room    == [b \in Blocks |-> IF want[b] > 0 THEN header[b].len ELSE 0]
content == [b \in Blocks |-> IF want[b] > 0 THEN data[b] ELSE None]
open    == phase = "run"

(* A step that changes nothing a client can see.                           *)
LEMMA Invisible ==
  ASSUME want' = want, phase' = phase,
         \A b \in Blocks : want[b] > 0 => header'[b] = header[b] /\ data'[b] = data[b]
  PROVE  UNCHANGED Pool!view
<1>1. room' = room
  BY DEF room
<1>2. content' = content
  BY DEF content
<1>3. open' = open
  BY DEF open
<1> QED
  BY <1>1, <1>2, <1>3 DEF Pool!view, room, content, open

(* A step that gives block b to a client.                                  *)
LEMMA HandedOut ==
  ASSUME PoolTypeOK, NEW b \in Blocks, NEW n \in Requests,
         open, phase' = phase, want[b] = 0, want' = [want EXCEPT ![b] = n],
         header'[b].len \in Rooms, header'[b].len >= n, data'[b] \in Words,
         \A c \in Blocks : c # b => header'[c] = header[c] /\ data'[c] = data[c]
  PROVE  Pool!Next
<1>1. n > 0 /\ want'[b] = n /\ \A c \in Blocks : c # b => want'[c] = want[c]
  BY RequestPositive DEF PoolTypeOK
<1>2. PICK m \in Rooms, w \in Words : m = header'[b].len /\ w = data'[b]
  OBVIOUS
<1>3. room' = [room EXCEPT ![b] = m]
  BY <1>1, <1>2 DEF room
<1>4. content' = [content EXCEPT ![b] = w]
  BY <1>1, <1>2 DEF content
<1>5. Pool!Malloc(b, n, m, w)
  BY <1>2, <1>3, <1>4 DEF Pool!Malloc, room, content, open
<1> QED
  BY <1>5 DEF Pool!Next, Rooms, Words

(* A step by which a client gives block b back.                            *)
LEMMA GivenBack ==
  ASSUME PoolTypeOK, NEW b \in Blocks,
         open, phase' = phase, want[b] > 0, want' = [want EXCEPT ![b] = 0],
         \A c \in Blocks : c # b => header'[c] = header[c] /\ data'[c] = data[c]
  PROVE  Pool!Next
<1>1. ~(want'[b] > 0) /\ \A c \in Blocks : c # b => want'[c] = want[c]
  BY SMT DEF PoolTypeOK
<1>2. room' = [room EXCEPT ![b] = 0]
  BY <1>1 DEF room
<1>3. content' = [content EXCEPT ![b] = None]
  BY <1>1 DEF content
<1>4. Pool!Free(b)
  BY <1>2, <1>3 DEF Pool!Free, room, content, open
<1> QED
  BY <1>4 DEF Pool!Next

-----------------------------------------------------------------------------
(* Every step of the pool is a step of the allocator or invisible.         *)
LEMMA RefinementStep ==
  ASSUME PoolInv, [Next]_vars PROVE [Pool!Next]_(Pool!view)
<1>0. PoolTypeOK /\ InsideChunk /\ HeadersSound /\ MemoryLargeEnough
  BY DEF PoolInv
<1>h. \A b \in Blocks : want[b] > 0 => header[b] # None /\ phase = "run"
  BY <1>0 DEF HeadersSound
<1>u. CASE UNCHANGED vars
  BY <1>u, Invisible
<1>1. ASSUME NEW i \in Chunks, NEW b \in Blocks, Preallocate(i, b) PROVE UNCHANGED Pool!view
  <2>1. \A c \in Blocks : ~(want[c] > 0)
    BY <1>h, <1>1 DEF Preallocate
  <2> QED
    BY <1>1, <2>1, Invisible DEF Preallocate
<1>2. CASE Constructed
  <2>1. \A b \in Blocks : want[b] = 0
    BY <1>0, <1>h, <1>2, RequestPositive DEF Constructed, PoolTypeOK
  <2>2. room' = room /\ content' = content /\ open'
    BY <1>2 DEF Constructed, room, content, open
  <2>3. Pool!Open
    BY <1>2, <2>1, <2>2 DEF Constructed, Pool!Open, room, content, open
  <2> QED
    BY <2>3 DEF Pool!Next
<1>3. ASSUME NEW n \in Requests, NEW b \in Blocks, MallocHeap(n, b) PROVE Pool!Next
  <2>1. /\ open /\ phase' = phase /\ want' = [want EXCEPT ![b] = n]
        /\ header[b] = None /\ header' = [header EXCEPT ![b] = [chunk |-> None, len |-> n]]
        /\ data' = data
    BY <1>3 DEF MallocHeap, open
  <2>2. want[b] = 0
    BY <1>0, <1>h, <2>1, RequestPositive DEF PoolTypeOK
  <2>3. header'[b].len = n /\ \A c \in Blocks : c # b => header'[c] = header[c]
    BY <1>0, <2>1 DEF PoolTypeOK
  <2>4. data'[b] \in Words /\ n \in Rooms /\ n >= n
    BY <1>0, <2>1, RequestPositive, SMT DEF PoolTypeOK, Words, Rooms
  <2> QED
    BY <1>0, <2>1, <2>2, <2>3, <2>4, HandedOut
<1>4. ASSUME NEW t \in Threads, NEW n \in Requests, NEW i \in Chunks, MallocLock(t, n, i)
      PROVE  UNCHANGED Pool!view
  BY <1>4, Invisible DEF MallocLock
<1>5. ASSUME NEW t \in Threads, MallocPop(t) PROVE Pool!Next
  <2> DEFINE b == pBlock[t]  n == size[t]
  <2>1. /\ chunk[t] \in Chunks /\ phase = "run" /\ b = pFreeList[chunk[t]] /\ b # None
        /\ n > 0 /\ Fits(n, chunk[t])
    BY <1>0, <1>5 DEF MallocPop, InsideChunk, Inside
  <2>2. /\ b \in Blocks /\ want[b] = 0 /\ header[b] # None /\ header[b].chunk = chunk[t]
        /\ data[b] \in Words
    BY <2>1, HeadIsFree, SMT DEF FreeBlock, PoolBlock, Words
  <2>3. header[b].len = ChunkSize[chunk[t]]
    BY <1>0, <2>1, <2>2 DEF HeadersSound
  <2>4. header[b].len \in Rooms /\ header[b].len >= n
    BY <2>1, <2>3 DEF Rooms, Fits
  <2>5. n \in Requests
    BY <1>0, <2>1, SMT DEF PoolTypeOK
  <2>6. open /\ phase' = phase /\ want' = [want EXCEPT ![b] = n] /\ header' = header /\ data' = data
    BY <1>5, <2>1 DEF MallocPop, open
  <2> HIDE DEF b, n
  <2> QED
    BY <1>0, <2>2, <2>4, <2>5, <2>6, HandedOut
<1>6. ASSUME NEW t \in Threads, NEW b \in Blocks, MallocCreate(t, b) PROVE Pool!Next
  <2> DEFINE n == size[t]
  <2>1. /\ chunk[t] \in Chunks /\ phase = "run" /\ n > 0 /\ Fits(n, chunk[t])
    BY <1>0, <1>6 DEF MallocCreate, InsideChunk, Inside
  <2>2. /\ open /\ phase' = phase /\ want' = [want EXCEPT ![b] = n] /\ data' = data
        /\ header[b] = None
        /\ header' = [header EXCEPT ![b] = [chunk |-> chunk[t], len |-> ChunkSize[chunk[t]]]]
    BY <1>6, <2>1 DEF MallocCreate, CreateBlock, open
  <2>3. want[b] = 0 /\ n \in Requests /\ data'[b] \in Words
    BY <1>0, <1>h, <2>1, <2>2, RequestPositive DEF PoolTypeOK, Words
  <2>4. header'[b].len = ChunkSize[chunk[t]] /\ \A c \in Blocks : c # b => header'[c] = header[c]
    BY <1>0, <2>2 DEF PoolTypeOK
  <2>5. header'[b].len \in Rooms /\ header'[b].len >= n
    BY <2>1, <2>4 DEF Rooms, Fits
  <2> HIDE DEF n
  <2> QED
    BY <1>0, <2>2, <2>3, <2>4, <2>5, HandedOut
<1>7. ASSUME NEW t \in Threads, MallocFails(t) \/ FreePush(t) PROVE UNCHANGED Pool!view
  BY <1>7, Invisible DEF MallocFails, FreePush
<1>8. ASSUME NEW b \in Blocks, ClientWrite(b) PROVE Pool!Next
  <2>1. /\ open /\ want[b] > 0 /\ want' = want /\ header' = header /\ phase' = phase
        /\ data' = [data EXCEPT ![b] = Garbage]
    BY <1>8 DEF ClientWrite, open
  <2>2. room' = room
    BY <2>1 DEF room
  <2>3. content' = [content EXCEPT ![b] = Garbage]
    BY <1>0, <2>1 DEF content, PoolTypeOK
  <2>4. Pool!Write(b)
    BY <2>1, <2>2, <2>3 DEF Pool!Write, room, content, open
  <2> QED
    BY <2>4 DEF Pool!Next
<1>9. ASSUME NEW b \in Blocks, FreeHeap(b) PROVE Pool!Next
  <2>1. /\ open /\ phase' = phase /\ want[b] > 0 /\ want' = [want EXCEPT ![b] = 0]
        /\ header' = [header EXCEPT ![b] = None] /\ data' = data
    BY <1>9 DEF FreeHeap, open
  <2>2. \A c \in Blocks : c # b => header'[c] = header[c] /\ data'[c] = data[c]
    BY <1>0, <2>1 DEF PoolTypeOK
  <2> QED
    BY <1>0, <2>1, <2>2, GivenBack
<1>10. ASSUME NEW t \in Threads, NEW b \in Blocks, FreeLock(t, b) PROVE Pool!Next
  <2>1. /\ open /\ phase' = phase /\ want[b] > 0 /\ want' = [want EXCEPT ![b] = 0]
        /\ header' = header /\ data' = [data EXCEPT ![b] = pFreeList[header[b].chunk]]
    BY <1>10 DEF FreeLock, open
  <2>2. \A c \in Blocks : c # b => header'[c] = header[c] /\ data'[c] = data[c]
    BY <1>0, <2>1 DEF PoolTypeOK
  <2> QED
    BY <1>0, <2>1, <2>2, GivenBack
<1>11. CASE Destroy
  <2>1. room' = room /\ content' = content /\ ~open'
    BY <1>11 DEF Destroy, room, content, open
  <2>2. Pool!Close
    BY <1>11, <2>1 DEF Destroy, Pool!Close, room, content, open
  <2> QED
    BY <2>2 DEF Pool!Next
<1>12. ASSUME NEW i \in Chunks, DeleteBlock(i) PROVE UNCHANGED Pool!view
  <2>1. \A c \in Blocks : ~(want[c] > 0)
    BY <1>h, <1>12 DEF DeleteBlock
  <2> QED
    BY <1>12, <2>1, Invisible DEF DeleteBlock
<1> QED
  BY <1>u, <1>1, <1>2, <1>3, <1>4, <1>5, <1>6, <1>7, <1>8, <1>9, <1>10, <1>11, <1>12 DEF Next

(* MemoryPool implements the abstract allocator.                           *)
THEOREM Refinement == Spec => Implements
<1>1. Init => Pool!Init
  <2>1. ASSUME Init PROVE want = [b \in Blocks |-> 0] /\ phase = "build"
    BY <2>1 DEF Init
  <2>2. ASSUME Init PROVE room = [b \in Blocks |-> 0] /\ content = [b \in Blocks |-> None] /\ ~open
    BY <2>1, <2>2, SMT DEF room, content, open
  <2> QED
    BY <2>1, <2>2 DEF Pool!Init, room, content, open
<1>2. PoolInv /\ [Next]_vars => [Pool!Next]_(Pool!view)
  BY RefinementStep
<1> QED
  BY <1>1, <1>2, PoolInvariance, PTL DEF Spec, Implements, Pool!Spec
=============================================================================
