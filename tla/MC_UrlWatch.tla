------------------------------ MODULE MC_UrlWatch ------------------------------
(***************************************************************************)
(* UrlWatch for TLC: URLs that come and go, one of which shares its id     *)
(* with a dictionary entry.                                                *)
(***************************************************************************)
EXTENDS UrlWatch

CONSTANTS u1, u2, u3
==============================================================================
