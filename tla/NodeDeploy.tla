------------------------------- MODULE NodeDeploy -------------------------------
(***************************************************************************)
(* Deployment to one node over SSH.  GostCon makes an app's file of what   *)
(* the tables say, uploads it, and has supervisor load every app's file;   *)
(* XrayCon uploads the file of XrayR and restarts that.  An upload         *)
(* truncates the file and then writes it.  Nothing keeps two of these from *)
(* overlapping, and every call can fail.  (What GostCon notes in the       *)
(* node's row on its way is in NodeRow.)                                   *)
(***************************************************************************)
EXTENDS Naturals, FiniteSets

CONSTANTS
  App,      \* apps that are relayed
  Xray,     \* the file of XrayR
  Req,      \* requests
  Version,  \* contents a file can be made with
  None, Empty, Torn  \* no file, a truncated one, one of two writers at once

ASSUME DeployAssumption ==
  /\ Xray \notin App
  /\ {None, Empty, Torn} \cap Version = {} /\ None \notin {Empty, Torn}

Conf == App \cup {Xray}

VARIABLES
  file,       \* the files on the node
  running,    \* what supervisor and XrayR have loaded of them
  req,        \* the requests
  deployed    \* per file, what the last deployment that succeeded had in it, or
              \* Torn: one has failed or two have overlapped since

vars == <<file, running, req, deployed>>

Idle == [at |-> "idle", conf |-> Xray, v |-> None]

Init ==
  /\ file = [c \in Conf |-> None]
  /\ running = [c \in Conf |-> None]
  /\ req = [p \in Req |-> Idle]
  /\ deployed = [c \in Conf |-> None]
------------------------------------------------------------------------------
Deploying(c) == {p \in Req : req[p].at \in {"upload", "write", "load"} /\ req[p].conf = c}
Spoil(c) == deployed' = [deployed EXCEPT ![c] = Torn]

Step(p, at) == req' = [req EXCEPT ![p].at = at]
Ends(p) == req' = [req EXCEPT ![p] = Idle]
------------------------------------------------------------------------------
(***************************************************************************)
(* GostCon of an app, XrayCon: read, upload, load.                         *)
(***************************************************************************)
\* What is read fails or makes a content.
Start(p, c, v) ==
  /\ req[p] = Idle
  /\ req' = [req EXCEPT ![p] = [at |-> "upload", conf |-> c, v |-> v]]
  /\ IF Deploying(c) = {} THEN UNCHANGED deployed ELSE Spoil(c)
  /\ UNCHANGED <<file, running>>

GostCon(p) == \E a \in App, v \in Version : Start(p, a, v)
XrayCon(p) == \E v \in Version : Start(p, Xray, v)

PathOf(c) == c

\* SshUploadContent.  It fails before the file is created, or the answer that
\* it is created is lost.
Create(p) ==
  LET created == [file EXCEPT ![PathOf(req[p].conf)] = Empty] IN
  /\ req[p].at = "upload"
  /\ \/ file' = created /\ Step(p, "write") /\ UNCHANGED deployed
     \/ file' = created /\ Ends(p) /\ Spoil(req[p].conf)
     \/ Ends(p) /\ UNCHANGED <<file, deployed>>
  /\ UNCHANGED running

WriteUnchecked(p) ==
  LET c == PathOf(req[p].conf) IN
  /\ req[p].at = "write"
  /\ file' \in {file, [file EXCEPT ![c] = req[p].v], [file EXCEPT ![c] = Torn]}
  /\ Step(p, "load")
  /\ UNCHANGED <<running, deployed>>

\* What is written over another's content may keep the rest of it.
Write(p) ==
  LET c == PathOf(req[p].conf) IN
  /\ req[p].at = "write"
  /\ \/ /\ \/ file' = [file EXCEPT ![c] = req[p].v]
           \/ file[c] # Empty /\ file' = [file EXCEPT ![c] = Torn]
        /\ Step(p, "load")
        /\ UNCHANGED deployed
     \/ /\ file' \in {file} \cup {[file EXCEPT ![c] = w] : w \in {req[p].v, Torn}}
        /\ Ends(p) /\ Spoil(req[p].conf)
  /\ UNCHANGED running

Loaded(c) == [d \in Conf |-> IF (c = Xray) = (d = Xray) THEN file[d] ELSE running[d]]

\* The command can have run when its answer is lost.
Load(p) ==
  LET c == req[p].conf IN
  /\ req[p].at = "load"
  /\ \/ LET mended == Deploying(c) = {p} /\ file[PathOf(c)] = req[p].v IN
        /\ running' = Loaded(c) /\ Ends(p)
        /\ IF deployed[c] = Torn /\ ~mended THEN UNCHANGED deployed
           ELSE deployed' = [deployed EXCEPT ![c] = req[p].v]
     \/ /\ running' \in {running, Loaded(c)} /\ Ends(p) /\ Spoil(c)
  /\ UNCHANGED file

Next == \E p \in Req : \/ GostCon(p) \/ XrayCon(p) \/ Create(p) \/ Write(p) \/ Load(p)

Spec == Init /\ [][Next]_vars
------------------------------------------------------------------------------
(***************************************************************************)
(* Properties.                                                             *)
(***************************************************************************)

Content == Version \cup {None, Empty, Torn}
ReqType == [at : {"idle", "upload", "write", "load"}, conf : Conf, v : Version \cup {None}]

\* The types; a content is on the node under the file it was made for, if a
\* deployment has come as far as to create it.
TypeOK ==
  /\ file \in [Conf -> Content] /\ running \in [Conf -> Content]
  /\ deployed \in [Conf -> Version \cup {None, Torn}]
  /\ req \in [Req -> ReqType]
  /\ \A p \in Req : /\ req[p].at # "idle" => req[p].v \in Version
                    /\ req[p].at \in {"write", "load"} => file[req[p].conf] # None

\* Between deployments of a file, what runs of it is what the last successful
\* one uploaded, whatever the deployments of other files do, unless one has
\* failed or two have overlapped since.
RunsWhatWasDeployed ==
  \A c \in Conf : deployed[c] # Torn /\ Deploying(c) = {} => running[c] = deployed[c]

\* One deployment of a file at most is under way, and the file holds what that
\* one has come to: what was deployed before, while it is not created;
\* nothing; the new content.
Known(c) ==
  /\ \A p, q \in Deploying(c) : p = q
  /\ (\A p \in Deploying(c) : req[p].at = "upload") =>
       file[c] = deployed[c] /\ running[c] = deployed[c]
  /\ \A p \in Deploying(c) : /\ req[p].at = "write" => file[c] = Empty
                             /\ req[p].at = "load" => file[c] = req[p].v

\* So it is unless a deployment of the file has failed or two have overlapped.
UnspoiledIsKnown == \A c \in Conf : deployed[c] # Torn => Known(c)

\* What every moment's node is.
DeployInv == TypeOK /\ RunsWhatWasDeployed /\ UnspoiledIsKnown
==============================================================================
