------------------------------- MODULE MC_Supply -------------------------------
(***************************************************************************)
(* Supply for TLC: of its components, which share no state, one moves and  *)
(* the others stay as they began.  Each is bounded in one of two ways:     *)
(*   races    DomainCert with requests, the job and edits, for two days    *)
(*   days     DomainCert with one request at a time and nothing that       *)
(*            "disturbed" records, while a certificate lives and dies      *)
(*   unique   three upserts of a unique record                             *)
(*   any      two of any record, at any supplier                           *)
(*   deploy   two domains at a CDN, of which one at most was there before  *)
(*   rules    requests at once at cloudflare                               *)
(*   headers  one at a time, with hosts that cfRuleRef maps to one ref     *)
(***************************************************************************)
EXTENDS Supply, TLC

CONSTANTS
  Part,  \* what may move
  r1, r2, r3, d1, d2, d3, o1, o2, o3, v1, v2, l1, l2,
  ali, huawei, cloudflare, c1, p1, p2

VARIABLE part  \* what moves

recordVars == <<t, recordType, zone, call, answer, next, overlapped>>
deployVars == <<tc, known, area, txt, resolved, verified, origin, cacheRules, https, named,
                cname, deploy, deployAnswer, begun, faulted, deployOverlapped>>
setupVars == <<record, rulesets, rules, ssl, setup, setupAnswer, started, asked,
               setupOverlapped>>
allVars == <<part, vars, recordVars, deployVars, setupVars>>

\* Each in a state of its Init.
CertRests == Init /\ server_hosts = [d \in Domain |-> NoRow]
RecordRests == Dns!Init /\ t = "ali" /\ recordType = "CNAME" /\ next = 0
DeployRests == Cdns!Init /\ tc = "ali" /\ known /\ verified = {}

\* No row that the job leaves alone.
Renewables == \A d \in Domain : server_hosts[d] # NoRow => server_hosts[d].renewable

MCInit ==
  /\ part \in Part
  /\ IF part \in {"races", "days"} THEN Init ELSE CertRests
  /\ part = "races" => Renewables
  /\ IF part \in {"unique", "any"} THEN Dns!Init ELSE RecordRests
  /\ IF part = "deploy" THEN Cdns!Init ELSE DeployRests
  /\ Cf!Init
  /\ part = "unique" => Dns!Atomic /\ \A r \in zone : r.ttl = l1
  /\ part = "deploy" => /\ tc = "ucloud" /\ ~known => area = {"cn"}
                        /\ origin[d3] = None /\ None \in {origin[d1], origin[d2]}
                        /\ o3 \notin {origin[d1], origin[d2]}

\* Races for two days, with one fault in a row and reports that are sent, until a
\* form takes the row from a job that rests.  Once the domain has an excuse, only requests
\* and operators go on: what they set up and write is still checked.
Soon == /\ today' <= Grace + 1
        /\ \A d \in Domain : fails'[d] <= 1
        /\ Renewables /\ UNCHANGED unsent
        /\ Renewables' \/ (cron.at = "idle" /\ \A r \in Req : ~Busy(r))
        /\ disturbed # {} => UNCHANGED <<issued, cron, days>>

\* Days enough for a row to be given up, with nothing that would excuse it.
OneByOne ==
  /\ Cardinality({r \in Req : req'[r] # Idle}) <= 1
  /\ disturbed' = {} /\ UNCHANGED seen

\* Upserts with one time to live; two upserts; calls for two domains, of which
\* the third, if two overlap, comes before the first or after the last of them.
OneTtl == \A r \in Req : call'[r].ttl # l2
TwoCalls == Cardinality({r \in Req : call'[r] # Dns!Idle \/ answer'[r] # "none"}) <= 2
TwoDomains ==
  /\ \A r \in Req : deploy'[r].d # d3 /\ deploy'[r].o # o3
  /\ begun = 2 /\ begun' = 3 => Cdns!Active = {} \/ deployOverlapped = {}

\* Hosts with refs of their own and one port, with requests at once.
AtOnce ==
  /\ {} \in {asked'[d1], asked'[d2]}
  /\ \A r \in Req : setup'[r].port # p2 /\ setup'[r].origin # o3

\* One request after the other, in one place of Req, with an address for one
\* host and its plain port.
InTurn ==
  /\ Cardinality({r \in Req : setup'[r] # Cf!Idle \/ setupAnswer'[r] # "none"}) <= 1
  /\ \A r \in Req : setup'[r].origin = o3 => setup'[r].host = d3 /\ setup'[r].port = Plain

CertNext == Next /\ UNCHANGED <<recordVars, deployVars, setupVars>>
RecordNext == Dns!Next /\ UNCHANGED <<vars, deployVars, setupVars>>
DeployNext == Cdns!Next /\ UNCHANGED <<vars, recordVars, setupVars>>
SetupNext == Cf!Next /\ UNCHANGED <<vars, recordVars, deployVars>>

MCNext ==
  /\ UNCHANGED part
  /\ \/ part = "races" /\ CertNext /\ Soon
     \/ part = "days" /\ CertNext /\ OneByOne
     \/ part = "unique" /\ RecordNext /\ OneTtl
     \/ part = "any" /\ RecordNext /\ TwoCalls
     \/ part = "deploy" /\ DeployNext /\ TwoDomains
     \/ part = "rules" /\ SetupNext /\ AtOnce
     \/ part = "headers" /\ SetupNext /\ InTurn

MCSpec == MCInit /\ [][MCNext]_allVars

\* Of values that are never compared with anything but each other.
RequestSymmetry == Permutations(Req)
RecordSymmetry == Permutations(Req) \cup Permutations(Value)
SupplierSymmetry == Permutations(Req) \cup Permutations(Origin \ Address) \cup Permutations({d1, d2})
==============================================================================
