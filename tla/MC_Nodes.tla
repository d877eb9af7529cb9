-------------------------------- MODULE MC_Nodes --------------------------------
(***************************************************************************)
(* Nodes for TLC: of a node and its row one moves and the other stays as   *)
(* it began.  The name of "a" is a part of that of "ab".                   *)
(***************************************************************************)
EXTENDS Nodes, TLC

CONSTANTS x, y, v1, v2, d1, d2,  \* NodeDeploy
          a, ab                  \* NodeRow

MCInside == {<<a, ab>>}

VARIABLE part  \* the one that moves

Symmetry ==
  Permutations({d1, d2}) \cup Permutations({x, y}) \cup Permutations({v1, v2})

MCInit == part \in {"deploy", "row"} /\ Init /\ Row!Init

MCNext ==
  \/ part = "deploy" /\ Next /\ UNCHANGED <<part, rowVars>>
  \/ part = "row" /\ Row!Next /\ UNCHANGED <<part, vars>>

MCSpec == MCInit /\ [][MCNext]_<<part, vars, rowVars>>
==============================================================================
