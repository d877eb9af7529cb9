------------------------------ MODULE NodesProofs ------------------------------
(***************************************************************************)
(* Theorems about the deployments to a node and about its row, for any     *)
(* apps, contents and requests.                                            *)
(***************************************************************************)
EXTENDS Nodes, TLAPS

(***************************************************************************)
(* The deployments.                                                        *)
(***************************************************************************)
LEMMA DeployInitInv == Init => DeployInv
  BY DeployAssumption DEF Init, DeployInv, TypeOK, RunsWhatWasDeployed, UnspoiledIsKnown,
                          ReqType, Known, Deploying, Idle, Conf, Content

\* A file of which nothing changes stays known.
LEMMA KnownStays ==
  ASSUME NEW c \in Conf, Known(c), Deploying(c)' = Deploying(c),
         \A q \in Deploying(c) : req'[q] = req[q],
         file'[c] = file[c], running'[c] = running[c], deployed'[c] = deployed[c]
  PROVE  Known(c)'
  BY DEF Known

\* A step that keeps types and known files keeps the invariant.
LEMMA DeployConsequence ==
  ASSUME TypeOK', UnspoiledIsKnown' PROVE DeployInv'
  BY DEF DeployInv, RunsWhatWasDeployed, UnspoiledIsKnown, Known

\* A request goes on to its next step, or ends.
LEMMA StepType ==
  ASSUME req \in [Req -> ReqType], NEW p \in Req, NEW at \in {"write", "load"}, Step(p, at)
  PROVE  /\ req' \in [Req -> ReqType]
         /\ req'[p].at = at /\ req'[p].conf = req[p].conf /\ req'[p].v = req[p].v
         /\ \A q \in Req \ {p} : req'[q] = req[q]
<1>1. req[p] \in ReqType
  OBVIOUS
<1>2. [req[p] EXCEPT !.at = at] \in ReqType
  BY <1>1 DEF ReqType
<1> QED
  BY <1>2 DEF Step

LEMMA EndsType ==
  ASSUME req \in [Req -> ReqType], NEW p \in Req, Ends(p)
  PROVE  /\ req' \in [Req -> ReqType]
         /\ req'[p].at = "idle"
         /\ \A q \in Req \ {p} : req'[q] = req[q]
<1>1. Idle \in ReqType
  BY DEF ReqType, Idle, Conf
<1> QED
  BY <1>1 DEF Ends, Idle

\* A deployment begins; a second one of a file spoils it.
LEMMA StartInv ==
  ASSUME DeployInv, NEW p \in Req, NEW c \in Conf, NEW v \in Version, Start(p, c, v)
  PROVE  DeployInv'
<1> USE DEF DeployInv, Start
<1>1. /\ req' = [req EXCEPT ![p] = [at |-> "upload", conf |-> c, v |-> v]]
      /\ UNCHANGED <<file, running>>
      /\ \A d \in Conf \ {c} : deployed'[d] = deployed[d]
      /\ Deploying(c) # {} => deployed'[c] = Torn
      /\ Deploying(c) = {} => deployed' = deployed
  BY DEF Spoil, TypeOK
<1>2. TypeOK'
  BY DeployAssumption DEF TypeOK, ReqType, Idle, Spoil, Content
<1>3. /\ req[p].at = "idle"
      /\ Deploying(c)' = Deploying(c) \cup {p}
      /\ \A d \in Conf \ {c} : Deploying(d)' = Deploying(d)
  BY <1>1 DEF TypeOK, Deploying, Idle
<1>4. ASSUME NEW d \in Conf, deployed'[d] # Torn
      PROVE  Known(d)'
  <2>1. CASE d = c
    BY <1>1, <1>3, <1>4, <2>1 DEF UnspoiledIsKnown, Known, TypeOK
  <2>2. CASE d # c
    <3>1. \A q \in Deploying(d) : req'[q] = req[q]
      BY <1>1, <1>3 DEF TypeOK, Deploying
    <3> QED
      BY <1>1, <1>3, <1>4, <2>2, <3>1, KnownStays DEF UnspoiledIsKnown
  <2> QED
    BY <2>1, <2>2
<1> QED
  BY <1>2, <1>4, DeployConsequence DEF UnspoiledIsKnown, DeployInv

\* What the steps of an upload leave alone: the other files, and the requests
\* that deploy them.
LEMMA OthersStayKnown ==
  ASSUME DeployInv, NEW p \in Req, NEW d \in Conf, d # req[p].conf,
         deployed'[d] # Torn,
         (\E at \in {"write", "load"} : Step(p, at)) \/ Ends(p),
         file'[d] = file[d], running'[d] = running[d], deployed'[d] = deployed[d]
  PROVE  Known(d)'
<1>1. /\ Deploying(d)' = Deploying(d)
      /\ \A q \in Deploying(d) : req'[q] = req[q]
  BY StepType, EndsType DEF Deploying, DeployInv, TypeOK
<1> QED
  BY <1>1, KnownStays DEF DeployInv, UnspoiledIsKnown

\* The file is created empty.
LEMMA CreateInv ==
  ASSUME DeployInv, NEW p \in Req, Create(p) PROVE DeployInv'
<1> USE DEF DeployInv
<1>0. PICK c \in Conf : c = req[p].conf
  BY DEF TypeOK, ReqType
<1>1. /\ c \in Conf /\ req[p].at = "upload" /\ running' = running
      /\ \/ Step(p, "write") /\ file' = [file EXCEPT ![c] = Empty]
         \/ Ends(p) /\ file' \in {file, [file EXCEPT ![c] = Empty]}
      /\ deployed' \in {deployed, [deployed EXCEPT ![c] = Torn]}
      /\ deployed'[c] # Torn => \/ Step(p, "write") /\ file' = [file EXCEPT ![c] = Empty]
                                \/ Ends(p) /\ file' = file
  BY <1>0 DEF Create, Spoil, PathOf, TypeOK
<1>2. /\ req' \in [Req -> ReqType]
      /\ \A q \in Req : req'[q].at # "idle" => req'[q].v \in Version
  BY <1>0, <1>1, StepType, EndsType DEF TypeOK
<1>3. ASSUME NEW q \in Req, req'[q].at \in {"write", "load"}
      PROVE  file'[req'[q].conf] # None
  <2>1. CASE q = p
    BY <1>0, <1>1, <1>3, <2>1, StepType, EndsType, DeployAssumption DEF TypeOK
  <2>2. CASE q # p
    <3>1. req'[q] = req[q] /\ req[q].conf \in Conf
      BY <1>1, <2>2, StepType, EndsType DEF TypeOK, ReqType
    <3> QED
      BY <1>0, <1>1, <1>3, <3>1, DeployAssumption DEF TypeOK
  <2> QED
    BY <2>1, <2>2
<1>4. TypeOK'
  BY <1>0, <1>1, <1>2, <1>3 DEF TypeOK, Content
<1>5. ASSUME deployed'[c] # Torn
      PROVE  Known(c)'
  <2>1. deployed'[c] = deployed[c] /\ p \in Deploying(c)
    BY <1>0, <1>1, <1>5 DEF TypeOK, Deploying
  <2>2. Known(c) /\ Deploying(c) = {p}
    BY <1>0, <1>1, <1>5, <2>1 DEF UnspoiledIsKnown, Known
  <2>3. CASE Step(p, "write") /\ file' = [file EXCEPT ![c] = Empty]
    <3>1. Deploying(c)' = {p} /\ req'[p].at = "write"
      BY <1>0, <2>2, <2>3, StepType DEF Deploying, TypeOK
    <3> QED
      BY <1>0, <1>1, <2>3, <3>1 DEF Known, TypeOK
  <2>4. CASE Ends(p) /\ file' = file
    <3>1. Deploying(c)' = {}
      BY <1>0, <2>2, <2>4, EndsType DEF Deploying, TypeOK
    <3> QED
      BY <1>0, <1>1, <2>1, <2>2, <2>4, <3>1 DEF Known
  <2> QED
    BY <1>0, <1>1, <1>5, <2>3, <2>4
<1>6. ASSUME NEW d \in Conf, d # c, deployed'[d] # Torn
      PROVE  Known(d)'
  BY <1>0, <1>1, <1>6, OthersStayKnown DEF TypeOK
<1> QED
  BY <1>0, <1>1, <1>4, <1>5, <1>6, DeployConsequence DEF UnspoiledIsKnown

\* The content is written, into the file the request itself created, if
\* nothing has spoiled it.
LEMMA WriteInv ==
  ASSUME DeployInv, NEW p \in Req, Write(p) PROVE DeployInv'
<1> USE DEF DeployInv
<1>0. PICK c \in Conf : c = req[p].conf
  BY DEF TypeOK, ReqType
<1>1. /\ c \in Conf /\ req[p].at = "write" /\ req[p].v \in Version
      /\ running' = running
      /\ Step(p, "load") \/ Ends(p)
      /\ \E w \in {file[c], req[p].v, Torn} : file' = [file EXCEPT ![c] = w]
      /\ deployed' \in {deployed, [deployed EXCEPT ![c] = Torn]}
      /\ deployed'[c] # Torn =>
           /\ Step(p, "load")
           /\ file' = [file EXCEPT ![c] = req[p].v] \/ file[c] # Empty
  BY <1>0 DEF Write, Spoil, PathOf, TypeOK, ReqType
<1>2. /\ req' \in [Req -> ReqType]
      /\ \A q \in Req : req'[q].at # "idle" => req'[q].v \in Version
  BY <1>0, <1>1, StepType, EndsType DEF TypeOK
<1>3. ASSUME NEW q \in Req, req'[q].at \in {"write", "load"}
      PROVE  file'[req'[q].conf] # None
  <2>1. CASE q = p
    BY <1>0, <1>1, <1>3, <2>1, StepType, EndsType, DeployAssumption DEF TypeOK
  <2>2. CASE q # p
    <3>1. req'[q] = req[q] /\ req[q].conf \in Conf
      BY <1>1, <2>2, StepType, EndsType DEF TypeOK, ReqType
    <3> QED
      BY <1>0, <1>1, <1>3, <3>1, DeployAssumption DEF TypeOK
  <2> QED
    BY <2>1, <2>2
<1>4. TypeOK'
  BY <1>0, <1>1, <1>2, <1>3 DEF TypeOK, Content
<1>5. ASSUME deployed'[c] # Torn
      PROVE  Known(c)'
  <2>1. deployed'[c] = deployed[c] /\ p \in Deploying(c)
    BY <1>0, <1>1, <1>5 DEF TypeOK, Deploying
  <2>2. Known(c) /\ Deploying(c) = {p} /\ file[c] = Empty
    BY <1>0, <1>1, <1>5, <2>1 DEF UnspoiledIsKnown, Known
  <2>3. /\ Deploying(c)' = {p}
        /\ req'[p].at = "load" /\ req'[p].v = req[p].v
    BY <1>0, <1>1, <1>5, <2>2, StepType DEF Deploying, TypeOK
  <2> QED
    BY <1>0, <1>1, <1>5, <2>2, <2>3 DEF Known, TypeOK
<1>6. ASSUME NEW d \in Conf, d # c, deployed'[d] # Torn
      PROVE  Known(d)'
  BY <1>0, <1>1, <1>6, OthersStayKnown DEF TypeOK
<1> QED
  BY <1>0, <1>1, <1>4, <1>5, <1>6, DeployConsequence DEF UnspoiledIsKnown

\* All files are loaded.  A known file is loaded as it was deployed, or is
\* being deployed and will be loaded again.
LEMMA LoadInv ==
  ASSUME DeployInv, NEW p \in Req, Load(p) PROVE DeployInv'
<1> USE DEF DeployInv
<1>0. PICK c \in Conf : c = req[p].conf
  BY DEF TypeOK, ReqType
<1>1. /\ c \in Conf /\ req[p].at = "load" /\ req[p].v \in Version
      /\ Ends(p) /\ file' = file
      /\ running' \in {running, Loaded(c)}
      /\ \E w \in {deployed[c], req[p].v, Torn} : deployed' = [deployed EXCEPT ![c] = w]
      /\ deployed'[c] # Torn => /\ running' = Loaded(c) /\ deployed'[c] = req[p].v
                                /\ \/ deployed[c] # Torn
                                   \/ Deploying(c) = {p} /\ file[c] = req[p].v
  BY <1>0 DEF Load, Spoil, PathOf, TypeOK, ReqType
<1>2. /\ req' \in [Req -> ReqType]
      /\ \A q \in Req : req'[q].at # "idle" => req'[q].v \in Version
  BY <1>0, <1>1, EndsType DEF TypeOK
<1>3. TypeOK'
  BY <1>0, <1>1, <1>2, EndsType DEF TypeOK, Content, Loaded
<1>4. ASSUME deployed'[c] # Torn
      PROVE  Known(c)'
  <2>1. Deploying(c) = {p} /\ file[c] = req[p].v
    BY <1>0, <1>1, <1>4 DEF Known, UnspoiledIsKnown, Deploying
  <2>2. Deploying(c)' = {}
    BY <1>0, <1>1, <2>1, EndsType DEF Deploying, TypeOK
  <2> QED
    BY <1>0, <1>1, <1>4, <2>1, <2>2 DEF Known, Loaded
<1>5. ASSUME NEW d \in Conf, d # c, deployed'[d] # Torn
      PROVE  Known(d)'
  <2>1. deployed'[d] = deployed[d] /\ running'[d] \in {running[d], file[d]}
    BY <1>0, <1>1, <1>5 DEF TypeOK, Loaded
  <2>2. /\ Deploying(d)' = Deploying(d)
        /\ \A q \in Deploying(d) : req'[q] = req[q]
    BY <1>0, <1>1, <1>5, EndsType DEF Deploying, TypeOK
  <2> QED
    BY <1>0, <1>1, <1>5, <2>1, <2>2 DEF UnspoiledIsKnown, Known
<1> QED
  BY <1>0, <1>1, <1>3, <1>4, <1>5, DeployConsequence DEF UnspoiledIsKnown

LEMMA DeployStepInv == DeployInv /\ [Next]_vars => DeployInv'
<1> SUFFICES ASSUME DeployInv, [Next]_vars PROVE DeployInv'
  OBVIOUS
<1>1. ASSUME NEW p \in Req, GostCon(p) PROVE DeployInv'
  BY <1>1, StartInv DEF GostCon, Conf
<1>2. ASSUME NEW p \in Req, XrayCon(p) PROVE DeployInv'
  BY <1>2, StartInv DEF XrayCon, Conf
<1>3. CASE UNCHANGED vars
  BY <1>3 DEF DeployInv, TypeOK, RunsWhatWasDeployed, UnspoiledIsKnown, Known, Deploying, vars
<1> QED
  BY <1>1, <1>2, <1>3, CreateInv, WriteInv, LoadInv DEF Next

\* Between deployments of a file, what runs of it is what the last successful
\* one uploaded, whatever the deployments of other files load meanwhile,
\* unless one has failed or two have overlapped since (GostCon, XrayCon).
THEOREM RunsAsDeployed == Spec => []DeployInv
  BY DeployInitInv, DeployStepInv, PTL DEF Spec
------------------------------------------------------------------------------
(***************************************************************************)
(* The row.                                                                *)
(***************************************************************************)
LEMMA RowInitInv == Row!Init => RowInv
  BY DEF Row!Init, RowInv, Row!Inv, Row!TypeOK, Row!NotedIsListed, Row!SeenIsRow,
         Row!RowType, Row!ReqType, Row!Idle, Row!NewRow

\* A request reads the row, goes on without writing it, or ends.
LEMMA RowQuietInv ==
  ASSUME RowInv, NEW p \in RowReq, NEW next \in Row!ReqType,
         rowReq' = [rowReq EXCEPT ![p] = next], row' = row,
         installer' = installer \/ installer' = "running",
         next.at # "noted",
         next.at \notin {"idle", "started"} /\ ~next.old => next.seen = row,
         installer' = "none" => next.seen.xray = 0 /\ next.at # "mark"
  PROVE  RowInv'
<1> USE DEF RowInv, Row!Inv
<1>1. Row!TypeOK'
  BY DEF Row!TypeOK
<1>2. Row!NotedIsListed' /\ Row!SeenIsRow'
  BY DEF Row!TypeOK, Row!NotedIsListed, Row!SeenIsRow
<1> QED
  BY <1>1, <1>2

\* What everybody else learns of a write.
LEMMA WithOldType ==
  ASSUME rowReq \in [RowReq -> Row!ReqType], NEW new
  PROVE  /\ Row!WithOld(new, rowReq) \in [RowReq -> Row!ReqType]
         /\ \A q \in RowReq :
              LET r == Row!WithOld(new, rowReq)[q] IN
              /\ r.at = rowReq[q].at /\ r.apps = rowReq[q].apps /\ r.seen = rowReq[q].seen
              /\ ~r.old => ~rowReq[q].old /\ (rowReq[q].at = "idle" \/ new = row)
<1> SUFFICES ASSUME NEW q \in RowReq
             PROVE  LET r == Row!WithOld(new, rowReq)[q] IN
                    /\ r \in Row!ReqType
                    /\ r.at = rowReq[q].at /\ r.apps = rowReq[q].apps /\ r.seen = rowReq[q].seen
                    /\ ~r.old => ~rowReq[q].old /\ (rowReq[q].at = "idle" \/ new = row)
  BY DEF Row!WithOld
<1>1. rowReq[q] \in Row!ReqType
  OBVIOUS
<1> QED
  BY <1>1 DEF Row!WithOld, Row!ReqType

\* p writes the row, whoever has read it meanwhile.
LEMMA RowWriteInv ==
  ASSUME RowInv, NEW p \in RowReq, NEW new \in Row!RowType, NEW next \in Row!ReqType,
         Row!Writes(p, new, next), installer' = installer,
         next.at \in {"idle", "noted", "started"},
         next.at = "noted" => \A a \in next.apps : \E b \in new.zz : b = a \/ <<a, b>> \in Inside,
         installer = "none" => new.xray = 0 /\ next.seen.xray = 0
  PROVE  RowInv'
<1> USE DEF RowInv, Row!Inv
<1>1. /\ row' = new
      /\ rowReq' = [Row!WithOld(new, rowReq) EXCEPT ![p] = next]
  BY DEF Row!Writes
<1>2. /\ Row!WithOld(new, rowReq) \in [RowReq -> Row!ReqType]
      /\ rowReq'[p] = next
      /\ \A q \in RowReq \ {p} :
           /\ rowReq'[q].at = rowReq[q].at /\ rowReq'[q].apps = rowReq[q].apps
           /\ rowReq'[q].seen = rowReq[q].seen
           /\ ~rowReq'[q].old => ~rowReq[q].old /\ (rowReq[q].at = "idle" \/ new = row)
  BY <1>1, WithOldType DEF Row!TypeOK
<1>3. Row!TypeOK'
  BY <1>1, <1>2 DEF Row!TypeOK
<1>4. Row!NotedIsListed'
  BY <1>1, <1>2 DEF Row!NotedIsListed
<1>5. Row!SeenIsRow'
  BY <1>1, <1>2 DEF Row!SeenIsRow
<1> QED
  BY <1>3, <1>4, <1>5

LEMMA RowIdleInv ==
  ASSUME RowInv, NEW p \in RowReq, Row!Fails(p), installer' = installer PROVE RowInv'
<1>1. Row!Idle \in Row!ReqType
  BY DEF Row!Idle, Row!ReqType, Row!RowType, Row!NewRow
<1> QED
  BY <1>1, RowQuietInv DEF Row!Fails, Row!Idle, Row!NewRow

\* GostCon, XrayInitCore and the page: the row is read.
LEMMA RowReadInv ==
  ASSUME RowInv, NEW p \in RowReq, NEW at \in {"gost", "init", "page"}, Row!Read(p, at)
  PROVE  RowInv'
<1> DEFINE next == [rowReq[p] EXCEPT !.at = at, !.seen = row]
<1>1. rowReq[p] \in Row!ReqType /\ row \in Row!RowType
  BY DEF RowInv, Row!Inv, Row!TypeOK
<1>2. /\ next \in Row!ReqType
      /\ next.at = at /\ next.seen = row
  BY <1>1 DEF Row!ReqType
<1>3. /\ rowReq' = [rowReq EXCEPT ![p] = next] /\ row' = row /\ installer' = installer
      /\ installer = "none" => row.xray = 0
  BY DEF Row!Read, RowInv, Row!Inv, Row!TypeOK
<1> HIDE DEF next
<1> QED
  BY <1>2, <1>3, RowQuietInv

LEMMA RowStepInv == RowInv /\ [Row!Next]_(Row!vars) => RowInv'
<1> SUFFICES ASSUME RowInv, [Row!Next]_(Row!vars) PROVE RowInv'
  OBVIOUS
<1>1. CASE UNCHANGED Row!vars
  BY <1>1 DEF Row!vars, RowInv, Row!Inv, Row!TypeOK, Row!NotedIsListed, Row!SeenIsRow
<1>2. CASE Row!Installed
  BY <1>2 DEF Row!Installed, RowInv, Row!Inv, Row!TypeOK, Row!NotedIsListed, Row!SeenIsRow
<1>3. CASE Row!UpdateServersNodeToInIp
  <2> DEFINE new == [row EXCEPT !.use = 1]
  <2>1. /\ new \in Row!RowType /\ new.zz = row.zz /\ new.xray = row.xray
        /\ row' = new /\ rowReq' = Row!WithOld(new, rowReq) /\ installer' = installer
    BY <1>3 DEF Row!UpdateServersNodeToInIp, RowInv, Row!Inv, Row!TypeOK, Row!RowType
  <2> HIDE DEF new
  <2>2. /\ rowReq' \in [RowReq -> Row!ReqType]
        /\ \A q \in RowReq :
             /\ rowReq'[q].at = rowReq[q].at /\ rowReq'[q].apps = rowReq[q].apps
             /\ rowReq'[q].seen = rowReq[q].seen
             /\ ~rowReq'[q].old => ~rowReq[q].old /\ (rowReq[q].at = "idle" \/ new = row)
    BY <2>1, WithOldType DEF RowInv, Row!Inv, Row!TypeOK
  <2> QED
    BY <2>1, <2>2 DEF RowInv, Row!Inv, Row!TypeOK, Row!NotedIsListed, Row!SeenIsRow
<1>4. ASSUME NEW p \in RowReq, Row!GostCon(p) \/ Row!XrayInitCore(p) \/ Row!OpenPage(p)
      PROVE  RowInv'
  BY <1>4, RowReadInv DEF Row!GostCon, Row!XrayInitCore, Row!OpenPage
<1>5. ASSUME NEW p \in RowReq PROVE rowReq[p] \in Row!ReqType /\ row \in Row!RowType
  BY DEF RowInv, Row!Inv, Row!TypeOK
<1>6. ASSUME NEW p \in RowReq, Row!Deployed(p) PROVE RowInv'
  <2>1. CASE Row!Fails(p)
    BY <1>6, <2>1, RowIdleInv DEF Row!Deployed
  <2>2. ASSUME NEW a \in Relayed,
               rowReq' = [rowReq EXCEPT ![p].at = "note", ![p].apps = {a}], row' = row
        PROVE  RowInv'
    <3> DEFINE next == [rowReq[p] EXCEPT !.at = "note", !.apps = {a}]
    <3>1. /\ next \in Row!ReqType
          /\ next.at = "note" /\ next.seen = rowReq[p].seen /\ next.old = rowReq[p].old
      BY <1>5 DEF Row!ReqType
    <3>2. /\ rowReq' = [rowReq EXCEPT ![p] = next] /\ installer' = installer
          /\ rowReq[p].at = "gost"
      BY <1>6, <2>2 DEF Row!Deployed
    <3>3. /\ ~rowReq[p].old => rowReq[p].seen = row
          /\ installer = "none" => rowReq[p].seen.xray = 0
      BY <3>2 DEF RowInv, Row!Inv, Row!TypeOK, Row!SeenIsRow
    <3> HIDE DEF next
    <3> QED
      BY <2>2, <3>1, <3>2, <3>3, RowQuietInv
  <2> QED
    BY <1>6, <2>1, <2>2 DEF Row!Deployed
<1>7. ASSUME NEW p \in RowReq, Row!Answered(p) PROVE RowInv'
  BY <1>7, RowIdleInv DEF Row!Answered
<1>8. ASSUME NEW p \in RowReq, Row!StartInstaller(p) PROVE RowInv'
  <2>1. CASE Row!Fails(p) /\ installer' = installer
    BY <2>1, RowIdleInv
  <2>2. CASE installer' = "running" /\ rowReq' = [rowReq EXCEPT ![p].at = "mark"] /\ row' = row
    <3> DEFINE next == [rowReq[p] EXCEPT !.at = "mark"]
    <3>1. /\ next \in Row!ReqType
          /\ next.at = "mark" /\ next.seen = rowReq[p].seen /\ next.old = rowReq[p].old
      BY <1>5 DEF Row!ReqType
    <3>2. rowReq' = [rowReq EXCEPT ![p] = next]
      BY <2>2
    <3>3. ~rowReq[p].old => rowReq[p].seen = row
      BY <1>8 DEF Row!StartInstaller, RowInv, Row!Inv, Row!SeenIsRow
    <3> HIDE DEF next
    <3> QED
      BY <2>2, <3>1, <3>2, <3>3, RowQuietInv
  <2> QED
    BY <1>8, <2>1, <2>2 DEF Row!StartInstaller
<1>9. ASSUME NEW p \in RowReq, Row!UpdateServersNodeById(p) PROVE RowInv'
  <2>1. CASE Row!Fails(p)
    BY <1>9, <2>1, RowIdleInv DEF Row!UpdateServersNodeById
  <2>2. CASE Row!Writes(p, Row!Noted(p), [rowReq[p] EXCEPT !.at = "noted", !.old = FALSE])
    <3> DEFINE new == Row!Noted(p)
               next == [rowReq[p] EXCEPT !.at = "noted", !.old = FALSE]
    <3>1. /\ next \in Row!ReqType
          /\ next.at = "noted" /\ next.seen = rowReq[p].seen /\ next.apps = rowReq[p].apps
      BY <1>5 DEF Row!ReqType
    <3>2. /\ new \in Row!RowType /\ new.xray = row.xray
          /\ new.zz = rowReq[p].seen.zz \cup
                        {a \in rowReq[p].apps : ~Row!Contains(rowReq[p].seen.zz, a)}
      BY <1>5 DEF Row!Noted, Row!RowType, Row!ReqType
    <3>3. \A a \in next.apps : \E b \in new.zz : b = a \/ <<a, b>> \in Inside
      BY <3>1, <3>2 DEF Row!Contains
    <3>4. installer = "none" => row.xray = 0 /\ rowReq[p].seen.xray = 0
      BY DEF RowInv, Row!Inv, Row!TypeOK
    <3>5. Row!Writes(p, new, next) /\ installer' = installer
      BY <1>9, <2>2 DEF Row!UpdateServersNodeById
    <3> HIDE DEF new, next
    <3> QED
      BY <3>1, <3>2, <3>3, <3>4, <3>5, RowWriteInv
  <2> QED
    BY <1>9, <2>1, <2>2 DEF Row!UpdateServersNodeById
<1>10. ASSUME NEW p \in RowReq, Row!MarkXray(p) PROVE RowInv'
  <2>1. CASE Row!Fails(p)
    BY <1>10, <2>1, RowIdleInv DEF Row!MarkXray
  <2>2. CASE Row!Writes(p, [row EXCEPT !.xray = 1], [rowReq[p] EXCEPT !.at = "started"])
    <3> DEFINE new == [row EXCEPT !.xray = 1]
               next == [rowReq[p] EXCEPT !.at = "started"]
    <3>1. next \in Row!ReqType /\ next.at = "started"
      BY <1>5 DEF Row!ReqType
    <3>2. new \in Row!RowType
      BY <1>5 DEF Row!RowType
    <3>3. installer # "none" /\ installer' = installer /\ Row!Writes(p, new, next)
      BY <1>10, <2>2 DEF Row!MarkXray, RowInv, Row!Inv, Row!TypeOK
    <3> HIDE DEF new, next
    <3> QED
      BY <3>1, <3>2, <3>3, RowWriteInv
  <2> QED
    BY <1>10, <2>1, <2>2 DEF Row!MarkXray
<1>11. ASSUME NEW p \in RowReq, Row!CreateServersNode(p) PROVE RowInv'
  <2>1. CASE Row!Fails(p)
    BY <1>11, <2>1, RowIdleInv DEF Row!CreateServersNode
  <2>2. CASE Row!Writes(p, rowReq[p].seen, Row!Idle)
    <3>1. /\ Row!Idle \in Row!ReqType /\ Row!Idle.at = "idle"
          /\ Row!Idle.seen.xray = 0
      BY DEF Row!Idle, Row!ReqType, Row!RowType, Row!NewRow
    <3>2. /\ rowReq[p].seen \in Row!RowType
          /\ installer = "none" => rowReq[p].seen.xray = 0
      BY <1>5 DEF Row!ReqType, RowInv, Row!Inv, Row!TypeOK
    <3> QED
      BY <1>11, <2>2, <3>1, <3>2, RowWriteInv DEF Row!CreateServersNode
  <2> QED
    BY <1>11, <2>1, <2>2 DEF Row!CreateServersNode
<1> QED
  BY <1>1, <1>2, <1>3, <1>4, <1>6, <1>7, <1>8, <1>9, <1>10, <1>11 DEF Row!Next

\* An app that a deployment has noted stays in the list until somebody else
\* writes the row, no row is marked without an installer, and a request that
\* has not been overtaken knows the row (GostCon, XrayInitCore,
\* CreateServersNode, TaskHour).
THEOREM RowIsKept == Row!Spec => []RowInv
  BY RowInitInv, RowStepInv, PTL DEF Row!Spec

\* The writes: a request that knows the row loses nothing of it.
LEMMA NothingIsLost ==
  ASSUME RowInv, NEW p \in RowReq, ~rowReq[p].old,
         Row!UpdateServersNodeById(p) \/ Row!MarkXray(p) \/ Row!CreateServersNode(p)
  PROVE  row.zz \subseteq row'.zz /\ row.xray <= row'.xray /\ row.use <= row'.use
<1>1. row \in Row!RowType
  BY DEF RowInv, Row!Inv, Row!TypeOK
<1>2. CASE row' = row
  BY <1>1, <1>2 DEF Row!RowType
<1>3. CASE Row!UpdateServersNodeById(p) /\ row' = Row!Noted(p)
  <2>1. rowReq[p].seen = row
    BY <1>3 DEF RowInv, Row!Inv, Row!SeenIsRow, Row!UpdateServersNodeById
  <2> QED
    BY <1>1, <1>3, <2>1 DEF Row!Noted, Row!RowType
<1>4. CASE row' = [row EXCEPT !.xray = 1]
  BY <1>1, <1>4 DEF Row!RowType
<1>5. CASE Row!CreateServersNode(p) /\ row' = rowReq[p].seen
  <2>1. rowReq[p].seen = row
    BY <1>5 DEF RowInv, Row!Inv, Row!SeenIsRow, Row!CreateServersNode
  <2> QED
    BY <1>1, <1>5, <2>1 DEF Row!RowType
<1> QED
  BY <1>2, <1>3, <1>4, <1>5
     DEF Row!UpdateServersNodeById, Row!MarkXray, Row!CreateServersNode, Row!Writes, Row!Fails

LEMMA LostStep ==
  ASSUME RowInv, [Row!Next]_(Row!vars)
  PROVE  \/ row.zz \subseteq row'.zz /\ row.xray <= row'.xray /\ row.use <= row'.use
         \/ \E p \in RowReq : rowReq[p].old /\ rowReq'[p] # rowReq[p]
<1>1. row \in Row!RowType /\ rowReq \in [RowReq -> Row!ReqType]
  BY DEF RowInv, Row!Inv, Row!TypeOK
<1>2. CASE row' = row
  BY <1>1, <1>2 DEF Row!RowType
<1>3. CASE row' = [row EXCEPT !.use = 1]
  BY <1>1, <1>3 DEF Row!RowType
<1>4. ASSUME NEW p \in RowReq,
             Row!UpdateServersNodeById(p) \/ Row!MarkXray(p) \/ Row!CreateServersNode(p)
      PROVE  ~rowReq[p].old \/ row' = row \/ rowReq'[p] # rowReq[p]
  <2>1. rowReq[p] \in Row!ReqType
    BY <1>1
  <2>2. ASSUME NEW new, NEW next, next.at # rowReq[p].at, Row!Writes(p, new, next)
        PROVE  rowReq'[p] # rowReq[p]
    <3>1. rowReq' = [Row!WithOld(new, rowReq) EXCEPT ![p] = next]
      BY <2>2 DEF Row!Writes
    <3>2. rowReq'[p] = next
      BY <1>1, <3>1, WithOldType
    <3> QED
      BY <2>2, <3>2
  <2>3. ASSUME Row!UpdateServersNodeById(p) PROVE row' = row \/ rowReq'[p] # rowReq[p]
    <3> DEFINE next == [rowReq[p] EXCEPT !.at = "noted", !.old = FALSE]
    <3>1. next.at # rowReq[p].at
      BY <2>1, <2>3 DEF Row!ReqType, Row!UpdateServersNodeById
    <3> HIDE DEF next
    <3>2. Row!Writes(p, Row!Noted(p), next) \/ row' = row
      BY <2>3 DEF Row!UpdateServersNodeById, Row!Fails, next
    <3> QED
      BY <2>2, <3>1, <3>2
  <2>4. ASSUME Row!MarkXray(p) PROVE row' = row \/ rowReq'[p] # rowReq[p]
    <3> DEFINE next == [rowReq[p] EXCEPT !.at = "started"]
    <3>1. next.at # rowReq[p].at
      BY <2>1, <2>4 DEF Row!ReqType, Row!MarkXray
    <3> HIDE DEF next
    <3>2. Row!Writes(p, [row EXCEPT !.xray = 1], next) \/ row' = row
      BY <2>4 DEF Row!MarkXray, Row!Fails, next
    <3> QED
      BY <2>2, <3>1, <3>2
  <2>5. ASSUME Row!CreateServersNode(p) PROVE row' = row \/ rowReq'[p] # rowReq[p]
    <3>1. Row!Idle.at # rowReq[p].at
      BY <2>5 DEF Row!Idle, Row!CreateServersNode
    <3>2. Row!Writes(p, rowReq[p].seen, Row!Idle) \/ row' = row
      BY <2>5 DEF Row!CreateServersNode, Row!Fails
    <3> QED
      BY <2>2, <3>1, <3>2
  <2> QED
    BY <1>4, <2>3, <2>4, <2>5
<1> QED
  BY <1>2, <1>3, <1>4, NothingIsLost
     DEF Row!Next, Row!vars, Row!GostCon, Row!Deployed, Row!Answered, Row!XrayInitCore,
         Row!StartInstaller, Row!OpenPage, Row!Read, Row!Fails, Row!Installed,
         Row!UpdateServersNodeToInIp

\* Apps leave the list, and marks the row, only by the write of a request that
\* read the row before another wrote it (UpdateServersNodeById and the page's
\* CreateServersNode write back what was read).
THEOREM NothingElseIsLost == Row!Spec => LostOnlyToOldReads
<1>1. RowInv /\ [Row!Next]_(Row!vars) =>
        [\/ row.zz \subseteq row'.zz /\ row.xray <= row'.xray /\ row.use <= row'.use
         \/ \E p \in RowReq : rowReq[p].old /\ rowReq'[p] # rowReq[p]]_(Row!vars)
  BY LostStep
<1> QED
  BY <1>1, RowIsKept, PTL DEF Row!Spec, LostOnlyToOldReads, Row!LostOnlyToOldReads
==============================================================================
