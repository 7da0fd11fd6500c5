------------------------------- MODULE Pointers -------------------------------
(***************************************************************************)
(* Names the service managers share.                                       *)
(***************************************************************************)
CONSTANTS
  NULL,   \* the null pointer; no thread, no lock holder
  Absent  \* no entry in a map (an entry may be NULL)
=============================================================================
