------------------------------ MODULE DomainCert ------------------------------
(***************************************************************************)
(* The certificates of the operators' domains.  PostServerDomain sets a    *)
(* new domain up at its supplier, has a certificate issued, uploads it and *)
(* inserts the row; a certificate that could not be uploaded waits in      *)
(* tjMap for the operator's next try.  UploadCDNDomainCert renews the rows *)
(* of server_hosts that are about to expire; what it could not upload      *)
(* waits in the row.  TaskDay warns about the rows that expire today, and  *)
(* empties tjMap (services/other_service.go, services/service.go,          *)
(* utils/ssl.go, repositories/server_urlandhost_repository.go).            *)
(*                                                                         *)
(* Time is counted in days.  A certificate is the day it expires on and a  *)
(* number; NoCert stands for the zero time with empty strings.             *)
(***************************************************************************)
EXTENDS Integers, FiniteSets

CONSTANTS
  Domain,      \* domains of rows with is_self = 1 and a parent
  Req,         \* PostServerDomain requests under way at once
  Edited,      \* environment: domains whose rows operators edit or delete
  Cdn, Proxy,  \* suppliers that take certificates, and cloudflare
  DayNamed,    \* ali: its certificates have a name for the domain and the day
  Life,        \* 90 at the issuer: days a certificate is valid
  Guess,       \* 85: days recorded when no certificate was obtained
  Renew,       \* 10: days before ssl_at at which renewal starts
  Warn,        \* 1: days before ssl_at at which TaskDay warns
  Grace,       \* 6: days after ssl_at at which both stop
  Week,        \* 7 at the issuer: days over which it counts certificates
  IssueLimit,  \* 5 at the issuer: certificates of a domain in a Week
  MaxDay, MaxCerts, MaxFails   \* bounds: days, certificates, faults

ASSUME CertAssumption ==
  /\ Edited \subseteq Domain /\ DayNamed \subseteq Cdn
  /\ {Life, Guess, Renew, Warn, Grace, Week, IssueLimit, MaxDay} \subseteq Nat
  /\ Warn < Renew /\ Renew + Week <= Life
  /\ 2 * Renew + Grace <= Life + 2  \* a certificate that waits outlasts the window
  /\ Guess < Life /\ Grace <= MaxDay
  /\ Week > 0 /\ IssueLimit > 1
  /\ {MaxCerts, MaxFails} \subseteq Nat
  /\ Cdn \cap Proxy = {} /\ "none" \notin Domain \cup Cdn \cup Proxy

Supplier == Cdn \cup Proxy
Cert == [until : 0..(MaxDay + Life), no : 0..MaxCerts]
NoCert == [until |-> 0, no |-> 0]
NoRow == [ssl_at |-> 0, pend |-> NoCert, sup |-> "none", renewable |-> FALSE]
NoRecord == [is |-> FALSE, cert |-> NoCert, by |-> "none"]

VARIABLES
  today,        \* the date; day 0, the zero time, is long ago
  server_hosts, \* the row of each domain: ssl_at; the certificate,
                \* private_key and new_ssl_at columns; its supplier; and
                \* renewable: scope = 0, or scope > 0 and beian = 1
  seen,         \* the row as an operator's form shows it
  tjMap,        \* the entry of each domain; by is history: who it was for
  req,          \* the requests
  cron,         \* UploadCDNDomainCert: rows to do, the one it is at
  warned,       \* TaskDay has run today
  ran           \* UploadCDNDomainCert has ended today

VARIABLES  \* the environment: issuer and suppliers
  issued,       \* certificates issued for each domain
  served,       \* the certificate each domain is served with
  taken,        \* suppliers that have a certificate of today's name
  provisioned   \* suppliers at which each domain was set up

VARIABLES  \* history
  uploaded,     \* certificates that were served at some time
  claimed,      \* domains with an ssl_at no uploaded certificate backs
  disturbed,    \* domains whose certificates an operator's edit, delete or
                \* second request, a restart, TaskDay, the database, an
                \* "upload" to a proxy or under a name that is taken may have lost
  fails,        \* faults since the row was written last
  warnings,     \* times TaskDay has warned since
  unsent        \* times it would have, but could not

table == <<server_hosts, seen>>
world == <<issued, served, taken, provisioned>>
reports == <<warnings, unsent>>
history == <<uploaded, claimed, disturbed, fails, reports>>
days == <<today, warned, ran>>
vars == <<table, tjMap, req, cron, days, world, history>>

\* by is history: the supplier for which the request's domain was set up.
Idle == [at |-> "idle", d |-> "none", sup |-> "none", by |-> "none", cert |-> NoCert]

\* copy: the rows as they were read; live: those not deleted since.
CronIdle == [at |-> "idle", todo |-> {}, d |-> "none", cert |-> NoCert,
             copy |-> [d \in Domain |-> NoRow], live |-> {}]

\* The table outlives the process: it starts with no row of a domain, or
\* with one written by an earlier process and served.
Init ==
  /\ today = Grace /\ warned = FALSE /\ ran = FALSE
  /\ server_hosts \in [Domain -> {NoRow} \cup
        {[ssl_at |-> u, pend |-> NoCert, sup |-> s, renewable |-> b] :
           u \in {Grace + Renew, Grace + Life}, s \in Cdn, b \in BOOLEAN}]
  /\ seen = server_hosts
  /\ tjMap = [d \in Domain |-> NoRecord]
  /\ req = [r \in Req |-> Idle]
  /\ cron = CronIdle
  /\ issued = [d \in Domain |-> {}]
  /\ served = [d \in Domain |-> [until |-> server_hosts[d].ssl_at, no |-> 0]]
  /\ taken = [d \in Domain |-> {}]
  /\ provisioned = [d \in Domain |-> {server_hosts[d].sup} \ {"none"}]
  /\ uploaded = [d \in Domain |-> {}]
  /\ claimed = {} /\ disturbed = {}
  /\ fails = [d \in Domain |-> 0] /\ warnings = [d \in Domain |-> 0]
  /\ unsent = [d \in Domain |-> 0]
------------------------------------------------------------------------------
(***************************************************************************)
(* The issuer and the suppliers, as UploadCDNCert sees them.               *)
(***************************************************************************)
Recent(d) == {c \in issued[d] : c.until - Life > today - Week}
Fault(d) == /\ fails[d] < MaxFails
            /\ fails' = [fails EXCEPT ![d] = @ + 1]
Disturb(D) == disturbed' = disturbed \cup D

\* A new certificate, or NoCert with its cause: the limit ("already issued
\* ... in the last"), or anything else.
Issue(d, c, answer) ==
  \/ /\ answer = "issued"
     /\ Cardinality(Recent(d)) < IssueLimit
     /\ Cardinality(issued[d]) < MaxCerts
     /\ c = [until |-> today + Life, no |-> Cardinality(issued[d]) + 1]
     /\ issued' = [issued EXCEPT ![d] = @ \cup {c}]
     /\ UNCHANGED fails
  \/ /\ answer = "already issued"
     /\ Cardinality(Recent(d)) >= IssueLimit
     /\ c = NoCert
     /\ UNCHANGED <<issued, fails>>
  \/ /\ answer = "error"
     /\ c = NoCert
     /\ Fault(d)
     /\ UNCHANGED issued

\* A call that the supplier carries out may still be answered with an error.
\* A domain it does not know cannot be given a certificate.  A proxy is not
\* called at all: "uploading" to it succeeds, and the certificate is gone.  So
\* it is at ali when the name of the day is taken by another certificate:
\* CertNameAlreadyExists is answered as a success, and nothing was installed.
Take(d, s) == taken' = [taken EXCEPT ![d] = @ \cup ({s} \cap DayNamed)]

Upload(d, s, c, ok) ==
  \/ /\ ok
     /\ s \in Proxy \/ (s \in taken[d] /\ served[d] # c)
     /\ Disturb({d})
     /\ UNCHANGED <<served, taken, uploaded, fails>>
  \/ /\ s \in Cdn /\ s \in provisioned[d]
     /\ s \in taken[d] => served[d] = c
     /\ UNCHANGED disturbed
     /\ served' = [served EXCEPT ![d] = c]
     /\ uploaded' = [uploaded EXCEPT ![d] = @ \cup {c}]
     /\ Take(d, s)
     /\ IF ok THEN UNCHANGED fails ELSE Fault(d)
  \/ /\ ~ok /\ s \in Cdn
     /\ Fault(d)
     /\ Take(d, s) \/ UNCHANGED taken
     /\ UNCHANGED <<served, uploaded, disturbed>>
------------------------------------------------------------------------------
(***************************************************************************)
(* PostServerDomain.                                                       *)
(***************************************************************************)
Busy(r) == req[r].at # "idle"

\* The retry record is looked up under domainMu, for any supplier.
PostServerDomain(r, d, s) ==
  /\ ~Busy(r)
  /\ req' = [req EXCEPT ![r] =
       [at |-> IF tjMap[d].is THEN "obtain" ELSE "provision", d |-> d, sup |-> s,
        by |-> IF tjMap[d].is THEN tjMap[d].by ELSE s, cert |-> tjMap[d].cert]]
  /\ Disturb(IF \E q \in Req : req[q].d = d THEN {d} ELSE {})
  /\ UNCHANGED <<table, tjMap, cron, days, world, uploaded, claimed, fails, reports>>

ProvisionRecordedFirst(r) ==
  LET d == req[r].d  s == req[r].sup IN
  /\ req[r].at = "provision"
  /\ tjMap' = [tjMap EXCEPT ![d] = [is |-> TRUE, cert |-> NoCert, by |-> s]]
  /\ \/ /\ provisioned' = [provisioned EXCEPT ![d] = @ \cup {s}]
        /\ req' = [req EXCEPT ![r].at = IF s \in Cdn THEN "obtain" ELSE "save"]
        /\ UNCHANGED fails
     \/ /\ Fault(d)
        /\ req' = [req EXCEPT ![r] = Idle]
        /\ UNCHANGED provisioned
  /\ UNCHANGED <<table, cron, days, issued, served, taken, uploaded, claimed, disturbed, reports>>

\* The switch over the suppliers.  A CDN leaves a record without a
\* certificate behind; a proxied domain needs none.
Provision(r) ==
  LET d == req[r].d  s == req[r].sup IN
  /\ req[r].at = "provision"
  /\ \/ /\ s \in Cdn
        /\ provisioned' = [provisioned EXCEPT ![d] = @ \cup {s}]
        /\ tjMap' = [tjMap EXCEPT ![d] = [is |-> TRUE, cert |-> NoCert, by |-> s]]
        /\ req' = [req EXCEPT ![r].at = "obtain"]
        /\ UNCHANGED fails
     \/ /\ s \in Proxy
        /\ provisioned' = [provisioned EXCEPT ![d] = @ \cup {s}]
        /\ req' = [req EXCEPT ![r].at = "save"]
        /\ UNCHANGED <<tjMap, fails>>
     \/ /\ Fault(d)
        /\ req' = [req EXCEPT ![r] = Idle]
        /\ UNCHANGED <<tjMap, provisioned>>
  /\ UNCHANGED <<table, cron, days, issued, served, taken, uploaded, claimed, disturbed, reports>>

\* UploadCDNCert up to its switch: a certificate that is at hand is not
\* issued again.  After "already issued" it returns no error and no
\* certificate: the record is deleted and 85 days are written.
Obtain(r) ==
  LET d == req[r].d IN
  /\ req[r].at = "obtain"
  /\ \/ /\ req[r].cert # NoCert
        /\ req' = [req EXCEPT ![r].at = "upload"]
        /\ UNCHANGED <<tjMap, issued, fails>>
     \/ /\ req[r].cert = NoCert
        /\ \E c \in Cert :
             \/ /\ Issue(d, c, "issued")
                /\ req' = [req EXCEPT ![r].at = "upload", ![r].cert = c]
                /\ UNCHANGED tjMap
             \/ /\ Issue(d, c, "already issued")
                /\ req' = [req EXCEPT ![r].at = "save"]
                /\ tjMap' = [tjMap EXCEPT ![d] = NoRecord]
             \/ /\ Issue(d, c, "error")
                /\ req' = [req EXCEPT ![r] = Idle]
                /\ UNCHANGED tjMap
  /\ UNCHANGED <<table, cron, days, served, taken, provisioned,
                 uploaded, claimed, disturbed, reports>>

UploadAnswered(r, record) ==
  LET d == req[r].d IN
  /\ req[r].at = "upload"
  /\ \E ok \in BOOLEAN :
       /\ Upload(d, req[r].sup, req[r].cert, ok)
       /\ req' = [req EXCEPT ![r] = IF ok THEN [@ EXCEPT !.at = "save"] ELSE Idle]
       /\ tjMap' = [tjMap EXCEPT ![d] = IF ok THEN NoRecord ELSE record]
  /\ UNCHANGED <<table, cron, days, issued, provisioned, claimed, reports>>

UploadCertForgotten(r) == UploadAnswered(r, tjMap[req[r].d])

UploadCert(r) ==
  UploadAnswered(r, [is |-> TRUE, cert |-> req[r].cert,
                     by |-> req[r].by])

\* PostServerHost: the row is new, so a row of the same domain makes the
\* insertion fail.  CreateServersHost has refused a scope of -1, and one above
\* 0 without beian.
SaveRow(r) ==
  LET d == req[r].d  c == req[r].cert IN
  /\ req[r].at = "save"
  /\ req' = [req EXCEPT ![r] = Idle]
  /\ \/ /\ server_hosts[d] = NoRow
        /\ server_hosts' = [server_hosts EXCEPT ![d] =
             [ssl_at |-> IF c # NoCert THEN c.until
                         ELSE IF req[r].by \in Cdn THEN today + Guess ELSE 0,
              pend |-> NoCert, sup |-> req[r].sup, renewable |-> TRUE]]
        /\ claimed' = IF c # NoCert /\ req[r].sup \in Cdn THEN claimed \ {d}
                      ELSE claimed \cup {d}
        /\ fails' = [fails EXCEPT ![d] = 0]
        /\ warnings' = [warnings EXCEPT ![d] = 0] /\ unsent' = [unsent EXCEPT ![d] = 0]
        /\ UNCHANGED disturbed
     \/ /\ Fault(d) \/ (server_hosts[d] # NoRow /\ UNCHANGED fails)
        /\ Disturb({d})
        /\ UNCHANGED <<server_hosts, claimed, reports>>
  /\ seen' = [seen EXCEPT ![d] = server_hosts'[d]]
  /\ UNCHANGED <<tjMap, cron, days, world, uploaded>>
------------------------------------------------------------------------------
(***************************************************************************)
(* UploadCDNDomainCert, every six hours; SkipIfStillRunning.               *)
(***************************************************************************)

\* GetServerHostBySslAt.
Within(d, n) == /\ server_hosts[d] # NoRow /\ server_hosts[d].renewable
                /\ server_hosts[d].ssl_at < today + n
                /\ server_hosts[d].ssl_at > today - Grace

\* With no row to renew it returns an error.
UploadCDNDomainCert ==
  LET rows == {d \in Domain : Within(d, Renew)} IN
  /\ cron.at = "idle"
  /\ IF rows = {} THEN ran' = TRUE /\ UNCHANGED cron
     ELSE /\ cron' = [CronIdle EXCEPT !.at = "next", !.todo = rows,
                                      !.copy = server_hosts, !.live = rows]
          /\ UNCHANGED ran
  /\ UNCHANGED <<table, tjMap, req, today, warned, world, history>>

Continue == [cron EXCEPT !.at = "next", !.d = "none", !.cert = NoCert]

PickWith(d, c) ==
  /\ cron.at = "next" /\ d \in cron.todo
  /\ \/ /\ cron' = [cron EXCEPT !.at = IF c = NoCert THEN "obtain" ELSE "upload",
                                !.d = d, !.cert = c, !.todo = @ \ {d}]
        /\ UNCHANGED fails
     \/ /\ Fault(d)
        /\ cron' = [cron EXCEPT !.todo = @ \ {d}]
  /\ UNCHANGED <<table, tjMap, req, days, world, uploaded, claimed, disturbed, reports>>

PickAnew(d) == PickWith(d, NoCert)

\* The next row: its parent's supplier may not be found (an error of either
\* query of UploadCDNDomainCert is as if none were); a certificate that waits
\* in the row is used before a new one.
Pick(d) == PickWith(d, cron.copy[d].pend)

\* Here neither "already issued" nor an error leaves a trace.
CronObtain ==
  /\ cron.at = "obtain"
  /\ \E c \in Cert :
       \/ /\ Issue(cron.d, c, "issued")
          /\ cron' = [cron EXCEPT !.at = "upload", !.cert = c]
       \/ /\ Issue(cron.d, c, "already issued") \/ Issue(cron.d, c, "error")
          /\ cron' = Continue
  /\ UNCHANGED <<table, tjMap, req, days, served, taken, provisioned,
                 uploaded, claimed, disturbed, reports>>

CronUpload ==
  /\ cron.at = "upload"
  /\ \E ok \in BOOLEAN :
       /\ Upload(cron.d, cron.copy[cron.d].sup, cron.cert, ok)
       /\ cron' = [cron EXCEPT !.at = IF ok THEN "renewed" ELSE "pending"]
  /\ UNCHANGED <<table, tjMap, req, days, issued, provisioned, claimed, reports>>

\* PutServerHostById, whose error is ignored: the new ssl_at, which clears
\* the certificate columns, or the certificate to be tried again.
WriteRow(renewed, pending) ==
  LET d == cron.d IN
  /\ cron.at \in {"renewed", "pending"}
  /\ cron' = Continue
  /\ \/ /\ d \in cron.live
        /\ server_hosts' = [server_hosts EXCEPT ![d] =
                              IF cron.at = "renewed" THEN renewed ELSE pending]
        /\ IF cron.at = "renewed"
           THEN /\ claimed' = IF cron.copy[d].sup \in Cdn THEN claimed \ {d} ELSE claimed
                /\ fails' = [fails EXCEPT ![d] = 0]
                /\ warnings' = [warnings EXCEPT ![d] = 0]
                /\ unsent' = [unsent EXCEPT ![d] = 0]
           ELSE UNCHANGED <<claimed, fails, reports>>
        /\ UNCHANGED disturbed
     \/ /\ d \notin cron.live
        /\ UNCHANGED <<server_hosts, claimed, fails, reports, disturbed>>
     \/ /\ Fault(d)
        /\ Disturb({d})
        /\ UNCHANGED <<server_hosts, claimed, reports>>
  /\ UNCHANGED <<seen, tjMap, req, days, world, uploaded>>

Renewed == [server_hosts[cron.d] EXCEPT !.ssl_at = cron.cert.until, !.pend = NoCert]
Pending == [server_hosts[cron.d] EXCEPT !.pend = cron.cert]

PutServerHostByIdForgets == WriteRow(Renewed, server_hosts[cron.d])
PutServerHostById == WriteRow(Renewed, Pending)

EndOfRun ==
  /\ cron.at = "next" /\ cron.todo = {}
  /\ cron' = CronIdle
  /\ ran' = TRUE
  /\ UNCHANGED <<table, tjMap, req, today, warned, world, history>>
------------------------------------------------------------------------------
(***************************************************************************)
(* TaskDay, the operators' forms, the process, and time.                   *)
(***************************************************************************)

\* The certificates in a map that is thrown away.
Kept == {d \in Domain : tjMap[d].cert # NoCert}

\* It empties tjMap and reports the rows of textServerHostBySslAt: unless the
\* query fails, or Telegram is not configured or does not take the message.
Reported(times) == [d \in Domain |-> IF Within(d, Warn) THEN times[d] + 1 ELSE times[d]]

TaskDay ==
  /\ ~warned
  /\ warned' = TRUE
  /\ tjMap' = [d \in Domain |-> NoRecord]
  /\ \/ warnings' = Reported(warnings) /\ UNCHANGED unsent
     \/ unsent' = Reported(unsent) /\ UNCHANGED warnings
  /\ Disturb(Kept)
  /\ UNCHANGED <<table, req, cron, today, ran, world, uploaded, claimed, fails>>

GetServersHost(d) ==
  /\ seen' = [seen EXCEPT ![d] = server_hosts[d]]
  /\ UNCHANGED <<server_hosts, tjMap, req, cron, days, world, history>>

\* PostServerHost of a form: Save writes every column as the form had it, or
\* another scope, and inserts the row again if it was deleted meanwhile.
PostServerHost(d) ==
  /\ seen[d] # NoRow
  /\ \E b \in BOOLEAN :
       LET row == [seen[d] EXCEPT !.renewable = b] IN
       /\ row # server_hosts[d]
       /\ server_hosts' = [server_hosts EXCEPT ![d] = row]
  /\ Disturb({d})
  /\ UNCHANGED <<seen, tjMap, req, cron, days, world, uploaded, claimed, fails, reports>>

ServerHostDel(d) ==
  /\ server_hosts[d] # NoRow
  /\ server_hosts' = [server_hosts EXCEPT ![d] = NoRow]
  /\ cron' = [cron EXCEPT !.live = @ \ {d}]
  /\ Disturb({d})
  /\ UNCHANGED <<seen, tjMap, req, days, world, uploaded, claimed, fails, reports>>

\* A restart loses tjMap and whatever is under way.
Restart ==
  /\ req' = [r \in Req |-> Idle]
  /\ cron' = CronIdle
  /\ tjMap' = [d \in Domain |-> NoRecord]
  /\ Disturb(Kept \cup {req[r].d : r \in {q \in Req : Busy(q)}} \cup ({cron.d} \cap Domain))
  /\ UNCHANGED <<table, days, world, uploaded, claimed, fails, reports>>

\* A day passes once both jobs have run and every request has ended.
Tick ==
  /\ today < MaxDay
  /\ warned /\ ran /\ cron.at = "idle" /\ \A r \in Req : ~Busy(r)
  /\ today' = today + 1
  /\ warned' = FALSE /\ ran' = FALSE
  /\ taken' = [d \in Domain |-> {}]
  /\ UNCHANGED <<table, tjMap, req, cron, issued, served, provisioned, history>>

Next ==
  \/ \E r \in Req : \/ \E d \in Domain, s \in Supplier : PostServerDomain(r, d, s)
                    \/ Provision(r) \/ Obtain(r) \/ UploadCert(r) \/ SaveRow(r)
  \/ \E d \in Domain : Pick(d)
  \/ \E d \in Edited : GetServersHost(d) \/ PostServerHost(d) \/ ServerHostDel(d)
  \/ UploadCDNDomainCert \/ CronObtain \/ CronUpload \/ PutServerHostById \/ EndOfRun
  \/ TaskDay \/ Restart \/ Tick

Spec == Init /\ [][Next]_vars
------------------------------------------------------------------------------
(***************************************************************************)
(* Properties.                                                             *)
(***************************************************************************)
Row == [ssl_at : 0..(MaxDay + Life), pend : Cert, sup : Supplier \cup {"none"},
        renewable : BOOLEAN]
RecordType == [is : BOOLEAN, cert : Cert, by : Supplier \cup {"none"}]
ReqType == [at : {"idle", "provision", "obtain", "upload", "save"},
            d : Domain \cup {"none"}, sup : Supplier \cup {"none"},
            by : Supplier \cup {"none"}, cert : Cert]
CronType == [at : {"idle", "next", "obtain", "upload", "renewed", "pending"},
             todo : SUBSET Domain, d : Domain \cup {"none"}, cert : Cert,
             copy : [Domain -> Row], live : SUBSET Domain]

Held(d) == issued[d] \cup {NoCert}

Typed ==
  /\ today \in Grace..MaxDay /\ warned \in BOOLEAN /\ ran \in BOOLEAN
  /\ server_hosts \in [Domain -> Row] /\ seen \in [Domain -> Row]
  /\ tjMap \in [Domain -> RecordType]
  /\ req \in [Req -> ReqType]
  /\ cron \in CronType
  /\ issued \in [Domain -> SUBSET Cert] /\ uploaded \in [Domain -> SUBSET Cert]
  /\ served \in [Domain -> Cert] /\ taken \in [Domain -> SUBSET DayNamed]
  /\ provisioned \in [Domain -> SUBSET Supplier]
  /\ claimed \subseteq Domain /\ disturbed \subseteq Domain
  /\ fails \in [Domain -> 0..MaxFails]
  /\ warnings \in [Domain -> Nat] /\ unsent \in [Domain -> Nat]

\* What a request and the job have at each of their steps.
ReqWhole(q) ==
  /\ IF q.at = "idle" THEN q = Idle
     ELSE q.d \in Domain /\ q.sup \in Supplier /\ q.by \in Supplier /\ q.cert \in Held(q.d)
  /\ q.at = "provision" => q.cert = NoCert /\ q.by = q.sup
  /\ q.at = "upload" => q.cert # NoCert
  /\ q.at \in {"obtain", "upload", "save"} => q.by \in provisioned[q.d]

CronWhole ==
  /\ cron.at = "idle" => cron = CronIdle
  /\ cron.at = "next" => cron.d = "none" /\ cron.cert = NoCert
  /\ cron.at = "obtain" => cron.cert = NoCert
  /\ cron.at \in {"upload", "renewed", "pending"} => cron.cert # NoCert
  /\ cron.at \notin {"idle", "next"} => cron.d \in Domain \ cron.todo /\ cron.cert \in Held(cron.d)

TypeOK == Typed /\ CronWhole /\ \A r \in Req : ReqWhole(req[r])

\* Only what was issued is held or uploaded, and nothing expires later than a
\* certificate of today; a retry record is of a domain that was set up.
IssuedOnly(d) ==
  /\ \A c \in issued[d] : c # NoCert /\ c.until > 0 /\ c.until <= today + Life
  /\ uploaded[d] \subseteq issued[d]
  /\ \A row \in {server_hosts[d], seen[d], cron.copy[d]} :
       row.pend \in Held(d) /\ row.ssl_at <= today + Life
  /\ tjMap[d].cert \in Held(d)
  /\ IF tjMap[d].is THEN tjMap[d].by \in provisioned[d] ELSE tjMap[d] = NoRecord

\* The issuer counts: a certificate it issued is uploaded, or it waits in
\* the row, in tjMap or in the hands of a request or of the job.
CertificateIsKept(d) ==
  \A c \in issued[d] \ uploaded[d] :
    \/ server_hosts[d].pend = c
    \/ tjMap[d].cert = c
    \/ \E r \in Req : req[r].d = d /\ req[r].cert = c
    \/ cron.d = d /\ cron.cert = c

\* The row of a domain at a CDN claims no more than the certificate the
\* domain is served with, but for the 85 days of "already issued" and for one
\* day, when the certificate of yesterday's request is uploaded after the job's.
RecordedIsServed(d) ==
  server_hosts[d] # NoRow /\ d \notin claimed =>
    server_hosts[d].ssl_at <= served[d].until + 1

\* Requests for a domain come one at a time, and tjMap has what they have:
\* a certificate that is older than today is there until it is uploaded.
RequestFollows(d) ==
  \A r \in Req : req[r].d = d =>
    LET c == req[r].cert IN
    /\ \A q \in Req : req[q].d = d => q = r
    /\ req[r].at \in {"provision", "obtain"} => tjMap[d].cert = c
    /\ req[r].at = "upload" => \/ tjMap[d].cert = c
                               \/ tjMap[d].cert = NoCert /\ c.until = today + Life
    /\ req[r].at = "save" =>
         /\ tjMap[d].cert = NoCert
         /\ c # NoCert => /\ c \in uploaded[d]
                          /\ server_hosts[d] = NoRow => served[d] = c

\* TaskDay leaves no certificate in tjMap for a second day.
RecordIsRecent(d) ==
  LET c == tjMap[d].cert IN
  c # NoCert => IF warned THEN c.until = today + Life ELSE c.until + 1 >= today + Life

\* What the job has read of a row, and got for it, is still so.
JobFollows(d) ==
  LET row == server_hosts[d] IN
  /\ row.pend # NoCert => row.ssl_at <= row.pend.until
  /\ d \in cron.todo \/ d = cron.d =>
       d \in cron.live /\ row # NoRow /\ row.pend = cron.copy[d].pend
  /\ d = cron.d =>
       /\ cron.copy[d].pend \in {NoCert, cron.cert}
       /\ cron.at \in {"upload", "pending"} => row.ssl_at <= cron.cert.until
       /\ cron.at = "renewed" => /\ cron.cert \in uploaded[d]
                                 /\ cron.cert.until <= served[d].until + 1
                                 /\ cron.copy[d].sup \in Cdn

Consistent(d) ==
  /\ CertificateIsKept(d) /\ RecordedIsServed(d)
  /\ RequestFollows(d) /\ RecordIsRecent(d) /\ JobFollows(d)

\* What a domain is issued, recorded and served with stays consistent, unless
\* one of the causes of disturbed came between.
CertInv ==
  /\ TypeOK
  /\ \A d \in Domain : IssuedOnly(d)
  /\ \A d \in Domain \ disturbed : Consistent(d)

\* The rows the job and the reports look after.
LookedAfter(d) ==
  server_hosts[d] # NoRow /\ server_hosts[d].renewable /\ server_hosts[d].sup \in Cdn

\* On each day of the window before ssl_at that has passed, and today if the job
\* is through with it, the renewal has met a fault: the row did not change.
Tried(d) ==
  \/ ran
  \/ /\ cron.at # "idle" /\ d \notin cron.todo
     /\ d = cron.d => cron.at = "pending"

DaysTried(d) ==
  today - (server_hosts[d].ssl_at - Renew) - (IF Tried(d) THEN 0 ELSE 1)

AFaultADay(d) ==
  LookedAfter(d) => fails[d] >= DaysTried(d) \/ fails[d] >= Renew - 1

\* Likewise TaskDay has warned, or tried to, on each day around ssl_at.
TimesReported(d) == warnings[d] + unsent[d]

DaysWarned(d) ==
  today - (server_hosts[d].ssl_at - Warn) - (IF warned THEN 0 ELSE 1)

AWarningADay(d) ==
  LookedAfter(d) =>
    TimesReported(d) >= DaysWarned(d) \/ TimesReported(d) >= Warn + Grace - 1

\* What expires later than the row claims is still to be uploaded or recorded:
\* so the issuer does not refuse the job for what it issued lately.
LaterIsAtHand(d) ==
  \A c \in issued[d] :
    \/ c.until <= server_hosts[d].ssl_at
    \/ server_hosts[d].pend = c
    \/ tjMap[d].cert = c
    \/ \E r \in Req : req[r].d = d /\ req[r].cert = c
    \/ cron.d = d /\ cron.cert = c

\* The job is at rows in their window, with certificates issued in it.
IssuedInWindow(d, c) ==
  c # NoCert => server_hosts[d].ssl_at - Renew < c.until - Life

RenewalIsDue(d) ==
  /\ d \in cron.todo \/ d = cron.d => Within(d, Renew)
  /\ IssuedInWindow(d, server_hosts[d].pend)
  /\ d = cron.d => IssuedInWindow(d, cron.cert)

\* A new row claims a certificate of today or yesterday, unless it is proxied.
RequestIsRecent(d) ==
  \A r \in Req : req[r].d = d =>
    /\ req[r].cert # NoCert => req[r].cert.until + 1 >= today + Life
    /\ req[r].at = "save" /\ req[r].cert = NoCert /\ server_hosts[d] = NoRow
       => req[r].sup \in Proxy

OnTime(d) ==
  /\ AFaultADay(d) /\ AWarningADay(d) /\ LaterIsAtHand(d)
  /\ RenewalIsDue(d) /\ RequestIsRecent(d)

\* A domain the job looks after expires only after faults on all but one of
\* the days on which it tries to renew it.  (Of a row that is not renewable
\* nothing is promised: it expires in silence.)
RenewedInTime ==
  \A d \in Domain \ disturbed :
    /\ LookedAfter(d) /\ server_hosts[d].ssl_at <= today
    => fails[d] >= Renew - 1

\* The job gives a domain up, for good, only after a report on each of the days
\* around its expiry; those that could not be sent are counted with the others.
GivenUpAfterWarnings ==
  \A d \in Domain \ disturbed :
    /\ LookedAfter(d) /\ server_hosts[d].ssl_at <= today - Grace
    => TimesReported(d) >= Warn + Grace - 1

\* No certificate the job looks after runs out without a cause, and none for
\* good without reports: every day that passes before has left its fault and
\* its report.
NoSilentExpiry ==
  /\ RenewedInTime /\ GivenUpAfterWarnings
  /\ \A d \in Domain \ disturbed : OnTime(d)

\* A row at a supplier means the domain was set up there, unless a retry
\* changed the supplier: then nothing is set up at the second.
RowIsProvisioned ==
  [][\A r \in Req :
       /\ req[r].at = "save" /\ req'[r].at = "idle"
       /\ server_hosts' # server_hosts
       /\ req[r].by = req[r].sup
       => req[r].sup \in provisioned[req[r].d]]_vars

\* A certificate that waits in the row is the next to be uploaded: the job
\* has no second one issued for the domain meanwhile.
NoSecondIssue ==
  [][\A d \in Domain :
       /\ cron.at = "obtain" /\ cron.d = d /\ issued'[d] # issued[d]
       /\ d \in cron.live /\ d \notin disturbed
       => server_hosts[d].pend = NoCert]_vars
==============================================================================
