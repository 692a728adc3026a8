------------------------------ MODULE MCCluster ------------------------------
(* Small clusters for Cluster. *)
EXTENDS Cluster, TLC

CONSTANTS a, b, d

Known    == a :> {10} @@ b :> {20} @@ d :> {30}

\* The unset bytes move the node of one server past that of another.
Unset    == a :> {10, 25} @@ b :> {20} @@ d :> {30}

\* Three servers, one of which may die.
Cluster3 ==
    [online |-> <<a, b, d>>, slow |-> {}, keys |-> {25},
     puts |-> 2, joins |-> 0, leaves |-> 1, late |-> 0]

\* Two servers; another may join and any one die.
Change ==
    [online |-> <<a, b>>, slow |-> {}, keys |-> {5, 25},
     puts |-> 1, joins |-> 1, leaves |-> 1, late |-> 0]

\* Two servers, one of them slow.
Late ==
    [online |-> <<a, b>>, slow |-> {a}, keys |-> {5},
     puts |-> 1, joins |-> 0, leaves |-> 0, late |-> 1]

\* Three servers that stay.
Still == {[Cluster3 EXCEPT !.keys = {5, 25}, !.leaves = 0]}

Cases == {Cluster3, Change, Late}

\* Two servers, one slow, and answers wait for two commands.
VeryLate == {[Late EXCEPT !.keys = {5, 25}, !.puts = 2, !.late = 2]}
=============================================================================
