-------------------------------- MODULE NodeRow --------------------------------
(***************************************************************************)
(* One row of server_nodes and those who write it.  GostCon reads it,      *)
(* deploys the app to the node (NodeDeploy), and adds the app to the list  *)
(* it read; XrayInitCore starts an installer in the background and marks   *)
(* the node at once; CreateServersNode saves the row as a page was opened  *)
(* with it; UpdateServersNodeToInIp marks what is in use, each hour.       *)
(* Nothing keeps two of these from overlapping, and every call can fail.   *)
(***************************************************************************)
EXTENDS Naturals, FiniteSets

CONSTANTS
  App,     \* apps that are relayed
  Inside,  \* pairs of apps, the name of the first a part of that of the second
  Req      \* requests

VARIABLES
  row,        \* zz_app, is_xray, is_use
  installer,  \* the script of XrayInitCore
  req         \* the requests

vars == <<row, installer, req>>

NewRow == [zz |-> {}, xray |-> 0, use |-> 0]

\* old: the row was written by another since it was read.
Idle == [at |-> "idle", apps |-> {}, seen |-> NewRow, old |-> FALSE]

Init ==
  /\ row = NewRow
  /\ installer = "none"
  /\ req = [p \in Req |-> Idle]
------------------------------------------------------------------------------
Read(p, at) ==
  /\ req[p] = Idle
  /\ req' = [req EXCEPT ![p].at = at, ![p].seen = row]
  /\ UNCHANGED <<row, installer>>

Fails(p) == req' = [req EXCEPT ![p] = Idle] /\ UNCHANGED row

WithOld(new, r) == [q \in Req |-> [r[q] EXCEPT !.old = @ \/ (r[q].at # "idle" /\ new # row)]]

\* p writes the row and is at its next step.
Writes(p, new, next) ==
  /\ row' = new
  /\ req' = [WithOld(new, req) EXCEPT ![p] = next]

\* GostCon reads the node; the deployment fails or goes on.
GostCon(p) == Read(p, "gost")

Deployed(p) ==
  /\ req[p].at = "gost"
  /\ \/ \E a \in App : req' = [req EXCEPT ![p].at = "note", ![p].apps = {a}] /\ UNCHANGED row
     \/ Fails(p)
  /\ UNCHANGED installer

ContainsSwapped(zz, a) == \E b \in zz : b = a \/ <<b, a>> \in Inside

\* strings.Contains looks for the name in the whole list.
Contains(zz, a) == \E b \in zz : b = a \/ <<a, b>> \in Inside

\* The app is added to those the row had when it was read, unless its name is
\* found there; the error of the update is not looked at.
NotedOnly(p) == [row EXCEPT !.zz = req[p].apps]

Noted(p) ==
  LET zz == req[p].seen.zz IN
  [row EXCEPT !.zz = zz \cup {a \in req[p].apps : ~Contains(zz, a)}]

UpdateServersNodeById(p) ==
  /\ req[p].at = "note"
  /\ Writes(p, Noted(p), [req[p] EXCEPT !.at = "noted", !.old = FALSE]) \/ Fails(p)
  /\ UNCHANGED installer

\* Supervisor is loaded meanwhile, whatever became of the update.
Answered(p) == req[p].at \in {"noted", "started"} /\ Fails(p) /\ UNCHANGED installer

XrayInitCore(p) == Read(p, "init")

StartInstaller(p) ==
  /\ req[p].at = "init"
  /\ \/ /\ installer' = "running"
        /\ req' = [req EXCEPT ![p].at = "mark"] /\ UNCHANGED row
     \/ UNCHANGED installer /\ Fails(p)

MarkXray(p) ==
  /\ req[p].at = "mark"
  /\ Writes(p, [row EXCEPT !.xray = 1], [req[p] EXCEPT !.at = "started"]) \/ Fails(p)
  /\ UNCHANGED installer

Installed ==
  /\ installer = "running" /\ installer' \in {"installed", "failed"}
  /\ UNCHANGED <<row, req>>

OpenPage(p) == Read(p, "page")

CreateServersNode(p) ==
  /\ req[p].at = "page"
  /\ Writes(p, req[p].seen, Idle) \/ Fails(p)
  /\ UNCHANGED installer

\* TaskHour; nothing takes the mark of use away but an old page.
UpdateServersNodeToInIp ==
  /\ LET new == [row EXCEPT !.use = 1] IN row' = new /\ req' = WithOld(new, req)
  /\ UNCHANGED installer

Next ==
  \/ \E p \in Req :
       \/ GostCon(p) \/ Deployed(p) \/ UpdateServersNodeById(p) \/ Answered(p)
       \/ XrayInitCore(p) \/ StartInstaller(p) \/ MarkXray(p)
       \/ OpenPage(p) \/ CreateServersNode(p)
  \/ Installed \/ UpdateServersNodeToInIp

Spec == Init /\ [][Next]_vars
------------------------------------------------------------------------------
(***************************************************************************)
(* Properties.                                                             *)
(***************************************************************************)

RowType == [zz : SUBSET App, xray : {0, 1}, use : {0, 1}]
ReqType == [at : {"idle", "gost", "note", "noted", "init", "mark", "started", "page"},
            apps : SUBSET App, seen : RowType, old : BOOLEAN]

\* The types; no mark of XrayR where the installer was never started, nor on a
\* page, nor is one about to be made.
TypeOK ==
  /\ row \in RowType
  /\ installer \in {"none", "running", "installed", "failed"}
  /\ req \in [Req -> ReqType]
  /\ installer = "none" =>
       row.xray = 0 /\ \A p \in Req : req[p].seen.xray = 0 /\ req[p].at # "mark"

\* A deployment that has noted its app finds it in the list, or a name it is
\* part of, until somebody else writes the row.
NotedIsListed ==
  \A p \in Req : req[p].at = "noted" /\ ~req[p].old =>
    \A a \in req[p].apps : \E b \in row.zz : b = a \/ <<a, b>> \in Inside

\* Between its reading of the row and its own write a request knows the row
\* as it is, unless it is marked as an old reading.
SeenIsRow ==
  \A p \in Req : req[p].at \notin {"idle", "noted", "started"} /\ ~req[p].old =>
    req[p].seen = row

\* What every moment's row is.
Inv == TypeOK /\ NotedIsListed /\ SeenIsRow

\* Apps leave the list, and marks the row, only by the write of a request that
\* read the row before another wrote it.
LostOnlyToOldReads ==
  [][\/ row.zz \subseteq row'.zz /\ row.xray <= row'.xray /\ row.use <= row'.use
     \/ \E p \in Req : req[p].old /\ req'[p] # req[p]]_vars
==============================================================================
