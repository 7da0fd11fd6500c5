------------------------------ MODULE Allocator ------------------------------
(***************************************************************************)
(* What a client of MemoryPool may rely on, whatever free lists, mutexes   *)
(* and size classes are behind it.  The state is what clients can see:     *)
(* the memory they hold, how much room it has and what its first word is.  *)
(* MemPool implements this specification (MemPool!Implements).             *)
(***************************************************************************)
EXTENDS Integers

CONSTANTS
  Blocks,    \* addresses of memory
  Requests,  \* sizes the clients ask for
  Rooms,     \* sizes memory comes in
  Words,     \* what a word of memory may hold
  Garbage,   \* what a client writes
  None       \* no content: nobody holds the block

VARIABLES
  held,      \* block -> the size its client asked for, 0 if nobody holds it
  room,      \* block -> bytes its client may use
  content,   \* block -> first word of the memory its client holds
  open       \* the pool is constructed and not yet destroyed

view == <<held, room, content, open>>

Init ==
  /\ held = [b \in Blocks |-> 0]
  /\ room = [b \in Blocks |-> 0]
  /\ content = [b \in Blocks |-> None]
  /\ open = FALSE

Open ==
  /\ \A b \in Blocks : held[b] = 0
  /\ open' = TRUE
  /\ UNCHANGED <<held, room, content>>

(* A client obtains memory nobody holds, with at least the room it asked   *)
(* for and arbitrary content.                                              *)
Malloc(b, n, m, w) ==
  /\ open /\ held[b] = 0 /\ m >= n
  /\ held' = [held EXCEPT ![b] = n]
  /\ room' = [room EXCEPT ![b] = m]
  /\ content' = [content EXCEPT ![b] = w]
  /\ UNCHANGED open

(* Only a client changes what its memory holds.                            *)
Write(b) ==
  /\ open /\ held[b] > 0
  /\ content' = [content EXCEPT ![b] = Garbage]
  /\ UNCHANGED <<held, room, open>>

Free(b) ==
  /\ open /\ held[b] > 0
  /\ held' = [held EXCEPT ![b] = 0]
  /\ room' = [room EXCEPT ![b] = 0]
  /\ content' = [content EXCEPT ![b] = None]
  /\ UNCHANGED open

(* The pool is destroyed when nobody holds memory of it.                   *)
Close ==
  /\ open /\ \A b \in Blocks : held[b] = 0
  /\ open' = FALSE
  /\ UNCHANGED <<held, room, content>>

Next ==
  \/ Open
  \/ \E b \in Blocks, n \in Requests, m \in Rooms, w \in Words : Malloc(b, n, m, w)
  \/ \E b \in Blocks : Write(b) \/ Free(b)
  \/ Close

Spec == Init /\ [][Next]_view
=============================================================================
