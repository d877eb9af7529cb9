--------------------------------- MODULE Tables ---------------------------------
(***************************************************************************)
(* Two tables of the one database, with no request and no statement in     *)
(* common: servers (ServerRegistry) and server_hosts (HostTable).          *)
(***************************************************************************)
EXTENDS ServerRegistry

CONSTANTS Domain, HostReq, MaxId                 \* HostTable
VARIABLES hosts, lastId, hostReq, erased, orphaned

Host == INSTANCE HostTable WITH Req <- HostReq, req <- hostReq

ASSUME TablesAssumption == Host!HostAssumption

hostVars == <<hosts, lastId, hostReq, erased, orphaned>>

\* A child outlives its parent only when it was saved from an old page; and
\* with no other write meanwhile a post sets the status of the children too,
\* and the mark of a domain is on its parent too.
HostInv == Host!Inv

\* A row's status changes by posts of the row or of its parent alone; only
\* that of a row without a parent changes by posts of new rows too.
StatusIsOwn == Host!StatusIsOwn
==============================================================================
