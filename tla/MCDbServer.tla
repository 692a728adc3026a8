----------------------------- MODULE MCDbServer -----------------------------
(***************************************************************************)
(* Two clients, two worker threads.  All descriptors fall in one bucket and *)
(* all names in another, so that every chain collides.                     *)
(***************************************************************************)
EXTENDS DbServerInv, TLC

CONSTANTS n1, n2, c1, c2

MCFdHash == [c \in Clients |-> 2]
MCNameHash == [n \in AllNames |-> 3]

SymmetricWorkers == Permutations(Workers)

\* Nothing orders workers, clients, names or handles.
Symmetric ==
    Permutations(Workers) \cup Permutations(Clients)
      \cup Permutations(Names) \cup Permutations(Handles)
=============================================================================
