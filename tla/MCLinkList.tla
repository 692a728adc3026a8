----------------------------- MODULE MCLinkList -----------------------------
(***************************************************************************)
(* Four addresses and two data: inserts and deletes at both ends, inside,  *)
(* and of the only node, and addresses used again.                         *)
(***************************************************************************)
EXTENDS LinkListSpec, TLC

AddrSymmetry == Permutations(Addr)
=============================================================================
