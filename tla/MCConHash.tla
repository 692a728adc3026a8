----------------------------- MODULE MCConHash -----------------------------
(***************************************************************************)
(* Four servers, three of which hash so that their ids meet: s1 and s2 are *)
(* equal, s3 is where the second of them is pushed to.  A server may       *)
(* join twice.                                                             *)
(***************************************************************************)
EXTENDS ConHashSpec

CONSTANTS s1, s2, s3, s4

MCHash == [s \in Servers |-> CASE s \in {s1, s2} -> 1 [] s = s3 -> 3 [] OTHER -> 4]
=============================================================================
