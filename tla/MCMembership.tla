---------------------------- MODULE MCMembership ----------------------------
(***************************************************************************)
(* Two servers, at addresses of their own or at the same one when the      *)
(* first has died, or both and a third.                                    *)
(***************************************************************************)
EXTENDS Membership, TLC

CONSTANTS s1, s2, s3, s4, x1, x2

Restarted == s1 :> x1 @@ s2 :> x2 @@ s3 :> x1 @@ s4 :> x2

\* Servers come and go one at a time, two of them at addresses used before.
CalmWorld ==
    [servers |-> {s1, s2, s3, s4}, threads |-> 3, calm |-> TRUE, slow |-> {},
     coalesce |-> FALSE, readers |-> TRUE]

\* Two servers at one address, one of them slow; messages run together.
FreeWorld ==
    [servers |-> {s1, s3}, threads |-> 2, calm |-> FALSE, slow |-> {s1},
     coalesce |-> TRUE, readers |-> FALSE]

\* One server that is slow or dies while clients ask for the list.
ReadWorld ==
    [servers |-> {s1}, threads |-> 2, calm |-> FALSE, slow |-> {s1},
     coalesce |-> FALSE, readers |-> TRUE]

\* Two servers, one at a time; messages run together.
Together ==
    {[servers |-> {s1, s2}, threads |-> 2, calm |-> TRUE, slow |-> {},
      coalesce |-> TRUE, readers |-> FALSE]}

\* Two servers that start and die when they like.
Crowd ==
    {[servers |-> {s1, s2}, threads |-> 2, calm |-> FALSE, slow |-> {},
      coalesce |-> FALSE, readers |-> FALSE]}

Cases == {CalmWorld, FreeWorld, ReadWorld}
=============================================================================
