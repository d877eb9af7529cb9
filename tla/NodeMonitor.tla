------------------------------- MODULE NodeMonitor -------------------------------
(***************************************************************************)
(* InitNodeMonitor: the list of nodes in use is read from the database and *)
(* handed to NodeMonitor, which, one at a time, writes it to a temporary   *)
(* file, renames that to prometheus/nodes.yml, and asks Prometheus to read *)
(* it.  The process can end at any step and is started again.              *)
(***************************************************************************)
EXTENDS Naturals

CONSTANTS
  Req,      \* requests
  None,     \* no file, nobody
  Torn,     \* a file in the middle of being written
  MaxList   \* bound: changes of the list

MonitorAssumption == MaxList \in Nat /\ None \notin Req \cup Nat

VARIABLES
  list,      \* the list in the database: a version, 0 is the empty one
  mu,        \* the mutex
  tmp, nodes_yml,
  loaded,    \* what Prometheus has read
  req,       \* the requests
  overtaken  \* history: requests since whose reading of the list another
             \* one put its file in place

vars == <<list, mu, tmp, nodes_yml, loaded, req, overtaken>>

Idle == [at |-> "idle", v |-> 0]

Init ==
  /\ list \in {0, 1}
  /\ mu = None
  /\ tmp = None /\ nodes_yml = None /\ loaded = None
  /\ req = [p \in Req |-> Idle]
  /\ overtaken = {}
------------------------------------------------------------------------------
Ends(p, how) == req' = [req EXCEPT ![p].at = how] /\ mu' = None
Goes(p, at) == req' = [req EXCEPT ![p].at = at] /\ UNCHANGED mu

GetAllUseServerNode(p) ==
  /\ req[p] = Idle
  /\ req' = [req EXCEPT ![p] = [at |-> "lock", v |-> list]]
  /\ overtaken' = overtaken \ {p}
  /\ UNCHANGED <<list, mu, tmp, nodes_yml, loaded>>

LockFree(p) ==
  /\ req[p].at = "lock"
  /\ mu' = p /\ req' = [req EXCEPT ![p].at = "open"]
  /\ UNCHANGED <<list, tmp, nodes_yml, loaded, overtaken>>

Lock(p) ==
  /\ req[p].at = "lock" /\ mu = None
  /\ mu' = p /\ req' = [req EXCEPT ![p].at = "open"]
  /\ UNCHANGED <<list, tmp, nodes_yml, loaded, overtaken>>

\* An empty list is an error.  The file is opened empty and then written.
Open(p) ==
  /\ req[p].at = "open"
  /\ \/ req[p].v = 0 /\ Ends(p, "error") /\ UNCHANGED tmp
     \/ req[p].v # 0 /\ Goes(p, "write") /\ tmp' = Torn
     \/ Ends(p, "error") /\ UNCHANGED tmp
  /\ UNCHANGED <<list, nodes_yml, loaded, overtaken>>

WriteFile(p) ==
  /\ req[p].at = "write"
  /\ \/ Goes(p, "rename") /\ tmp' = req[p].v
     \/ Ends(p, "error") /\ UNCHANGED tmp
  /\ UNCHANGED <<list, nodes_yml, loaded, overtaken>>

Rename(p) ==
  /\ req[p].at = "rename"
  /\ \/ /\ tmp # None /\ nodes_yml' = tmp /\ tmp' = None /\ Goes(p, "reload")
        /\ overtaken' = overtaken \cup ({q \in Req : req[q] # Idle} \ {p})
     \/ Ends(p, "error") /\ UNCHANGED <<tmp, nodes_yml, overtaken>>
  /\ UNCHANGED <<list, loaded>>

\* No answer is an error; an answer other than 200 returns the err of the
\* call, which is nil.
Reload(p) ==
  /\ req[p].at = "reload"
  /\ \/ loaded' = nodes_yml /\ Ends(p, "success")
     \/ UNCHANGED loaded /\ Ends(p, "success")
     \/ loaded' \in {loaded, nodes_yml} /\ Ends(p, "error")
  /\ UNCHANGED <<list, tmp, nodes_yml, overtaken>>

Answered(p) ==
  /\ req[p].at \in {"success", "error"}
  /\ req' = [req EXCEPT ![p] = Idle]
  /\ UNCHANGED <<list, mu, tmp, nodes_yml, loaded, overtaken>>

Change ==
  /\ list < MaxList /\ list' = list + 1
  /\ UNCHANGED <<mu, tmp, nodes_yml, loaded, req, overtaken>>

\* The files and Prometheus stay.
Restart ==
  /\ req' = [p \in Req |-> Idle] /\ mu' = None /\ overtaken' = {}
  /\ UNCHANGED <<list, tmp, nodes_yml, loaded>>

Runs(p) == Lock(p) \/ Open(p) \/ WriteFile(p) \/ Rename(p) \/ Reload(p) \/ Answered(p)

Next == (\E p \in Req : GetAllUseServerNode(p) \/ Runs(p)) \/ Change \/ Restart

Spec == Init /\ [][Next]_vars
------------------------------------------------------------------------------
(***************************************************************************)
(* Properties.                                                             *)
(***************************************************************************)

Holds(p) == req[p].at \in {"open", "write", "rename", "reload"}

ReqType == [at : {"idle", "lock", "open", "write", "rename", "reload", "success", "error"},
            v : 0..list]

\* The types; the mutex is held by the one request that is past it, and what
\* Prometheus has loaded has been in the database.
TypeOK ==
  /\ list \in Nat /\ mu \in Req \cup {None} /\ req \in [Req -> ReqType]
  /\ overtaken \subseteq Req
  /\ \A p \in Req : Holds(p) <=> mu = p
  /\ loaded \in {None} \cup 1..list

\* nodes.yml is missing or a list in full, at every moment, whoever writes and
\* wherever the process ends; and it is the list of the request that is about
\* to have it loaded, as the temporary file is that of the one about to rename.
FileIsWhole ==
  /\ nodes_yml \in {None} \cup 1..list
  /\ \A p \in Req : /\ req[p].at \in {"write", "rename", "reload"} => req[p].v # 0
                    /\ req[p].at = "rename" => tmp = req[p].v
                    /\ req[p].at = "reload" => nodes_yml = req[p].v

\* A request that no other overtook has a list as new as that of nodes.yml.
NotOvertakenIsNew ==
  \A p \in Req \ overtaken :
    req[p].at \in {"lock", "open", "write", "rename"} =>
      nodes_yml \in {None} \cup 1..req[p].v

\* What every moment's file, mutex and requests are.
Inv == TypeOK /\ FileIsWhole /\ NotOvertakenIsNew

GoesBack ==
  nodes_yml \in 1..list /\ nodes_yml' \in 1..list /\ nodes_yml' < nodes_yml

\* The list is read before the mutex is taken (xray_service.go:609), so a slow
\* request can put an older list over a newer one.  Only such a request does:
\* one that no other overtook since it read never takes nodes.yml back.
OnlyOvertakenGoesBack ==
  [][GoesBack => \E p \in overtaken : req[p].at = "rename" /\ req'[p].at = "reload"]_vars

\* node_monitor.go logs "reload failed" for a status other than 200, and the
\* answer of InitNodeMonitor is "success" only without an error.
SuccessIsLoaded == \A p \in Req : req[p].at = "success" => loaded # None
==============================================================================
