---------------------------- MODULE MCEventServer ----------------------------
(* Small instances of EventServer: identities of connections and heap      *)
(* blocks are interchangeable.                                             *)
EXTENDS EventServer, TLC

Symmetry == Permutations(Conns) \cup Permutations(Ctxs) \cup Permutations(Objs)
=============================================================================
