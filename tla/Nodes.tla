--------------------------------- MODULE Nodes ---------------------------------
(***************************************************************************)
(* A node and its row: the files of its deployments (NodeDeploy) are on    *)
(* the node, its row (NodeRow) is in the database.  The two share no       *)
(* state, and no step waits for the other's.                               *)
(***************************************************************************)
EXTENDS NodeDeploy

CONSTANTS
  Relayed,  \* apps a row lists
  Inside,   \* pairs of them, the name of the first a part of the second's
  RowReq    \* requests

ASSUME NodesAssumption == Inside \subseteq Relayed \X Relayed

VARIABLES row, installer, rowReq

Row == INSTANCE NodeRow WITH App <- Relayed, Req <- RowReq, req <- rowReq

rowVars == <<row, installer, rowReq>>

\* A deployment that has noted its app finds it in the list, until somebody
\* else writes the row; and what a request has read is the row, until then.
RowInv == Row!Inv

\* Apps and marks are lost only to the write of a request that had read the
\* row before another wrote it.
LostOnlyToOldReads == Row!LostOnlyToOldReads
==============================================================================
