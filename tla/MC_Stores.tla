------------------------------- MODULE MC_Stores -------------------------------
(***************************************************************************)
(* Stores for TLC: of its two parts, which share no state, one moves and   *)
(* the other stays as it began.                                            *)
(***************************************************************************)
EXTENDS Stores

VARIABLE part  \* the one that moves

allVars == <<part, vars, statVars>>

\* While the caches move, what LogArchive began with does not matter.
MCInit ==
  /\ part \in {"logs", "caches"}
  /\ Init /\ Stat!Init
  /\ part = "caches" => zip /\ key

MCNext ==
  \/ part = "logs" /\ Next /\ UNCHANGED <<part, statVars>>
  \/ part = "caches" /\ Stat!Next /\ UNCHANGED <<part, vars>>

MCSpec == MCInit /\ [][MCNext]_allVars
==============================================================================
