---------------------------- MODULE MC_NodeHealth ----------------------------
(***************************************************************************)
(* NodeHealth for TLC.  Three rows over two endpoints: two servers share   *)
(* the first one, so that one tick can see it both up and failed.          *)
(***************************************************************************)
EXTENDS NodeHealth, TLC

CONSTANTS k1, k2, c1, c2

MCKey == {k1, k2}
MCRowKey == <<k1, k2, k1>>
MCCall == {c1, c2}
MCSymmetry == Permutations(MCCall)
==============================================================================
