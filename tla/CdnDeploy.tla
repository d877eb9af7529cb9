------------------------------ MODULE CdnDeploy ------------------------------
(***************************************************************************)
(* How the drivers of the CDN suppliers (utils/*dns.go) put a domain into  *)
(* service and install its certificate.  Each Post* function proves who    *)
(* owns the domain with a TXT record, creates the domain at the CDN or     *)
(* corrects the one found, sets its rules, asks for its CNAME and points   *)
(* the domain at it; each Upload*Cert function hands a certificate over    *)
(* and switches HTTPS on.  Every call to a supplier is a step of its own,  *)
(* which may fail, or be carried out although its answer is lost.          *)
(*                                                                         *)
(* The CDN, the resolvers and the zone are outside this program            *)
(* (external).  DnsUpsertRecord is one step here for a CNAME, which        *)
(* DnsUpsert shows atomic, and two for a TXT record, which may be doubled: *)
(* the lookup and the write.  The domains share one root and one name for  *)
(* the TXT record.                                                         *)
(***************************************************************************)
EXTENDS FiniteSets, Integers, Sequences

CONSTANTS
  Req,         \* calls of the drivers that may be under way at once
  Domain, Origin, Cert,
  Supplier,    \* CDN suppliers to choose from
  Known,       \* whether DnsUpsertRecord knows the zone's supplier, to choose from
  None,        \* no request, no record, no origin, no certificate
  Cached,      \* rules that name no origin
  MaxRequests  \* bound: requests begun

Area == {"cn", "abroad"}

DeployAssumption ==
  /\ MaxRequests \in Nat
  /\ Supplier \subseteq {"ali", "tencent", "huawei", "ucloud"}
  /\ Known \subseteq BOOLEAN
  /\ None \notin Domain \cup Origin \cup Cert \cup {Cached}

VARIABLES
  tc, known, area, \* the supplier, whether the zone's is known, the areas served
  txt,             \* the TXT records: the domain each speaks for
  seen,            \* the domains the resolvers' TXT records speak for
  verified,        \* the domains whose owner the CDN accepts
  origin, rules,   \* what the CDN fetches from, and names in its rules
  https,           \* the certificate of each domain in each area
  named,           \* the domains the CDN has given a CNAME
  cname,           \* the domains whose CNAME record points at the CDN
  req, answer,     \* the calls and what each returned last
  begun,           \* requests begun
  faulted,         \* history: calls a supplier's failure ended or diverted
  overlapped       \* history: calls that were not alone

where == <<tc, known, area>>
cdn == <<verified, origin, rules, https, named>>
dns == <<txt, seen, cname>>
vars == <<where, dns, cdn, req, answer, begun, faulted, overlapped>>

Idle == [at |-> "idle", d |-> None, o |-> None, c |-> None, tries |-> <<>>, found |-> 0]
Active == {r \in Req : req[r].at # "idle"}
Exists(d) == origin[d] # None
Speaks(d) == \E i \in DOMAIN txt : txt[i] = d

\* A domain may have been added at the console before.  The areas matter to
\* UCloud alone.
Init ==
  /\ tc \in Supplier /\ known \in Known
  /\ area \in IF tc = "ucloud" THEN {{"cn"}, {"abroad"}, Area} ELSE {Area}
  /\ txt = <<>> /\ seen = {}
  /\ verified \in {{}, Domain}
  /\ \E o \in Origin :
       origin \in [Domain -> {None}] \cup (IF verified = {} THEN {} ELSE [Domain -> {None, o}])
  /\ rules = [d \in Domain |-> None]
  /\ https = [d \in Domain |-> [a \in Area |-> None]]
  /\ named = {} /\ cname = {}
  /\ req = [r \in Req |-> Idle]
  /\ answer = [r \in Req |-> "none"]
  /\ begun = 0
  /\ faulted = {} /\ overlapped = {}
------------------------------------------------------------------------------
(***************************************************************************)
(* Steps of a call.                                                        *)
(***************************************************************************)
Becomes(r, at) == req' = [req EXCEPT ![r].at = at] /\ UNCHANGED <<answer, faulted>>

Found(r, i) ==
  /\ req' = [req EXCEPT ![r].at = "write", ![r].found = i]
  /\ UNCHANGED <<answer, faulted>>

Return(r, a) ==
  /\ req' = [req EXCEPT ![r] = Idle]
  /\ answer' = [answer EXCEPT ![r] = a]
  /\ UNCHANGED faulted

Fault(r) ==
  /\ req' = [req EXCEPT ![r] = Idle]
  /\ answer' = [answer EXCEPT ![r] = "error"]
  /\ faulted' = faulted \cup {r}

\* A question to the supplier.
Asks(r, from, to) ==
  /\ req[r].at = from
  /\ Becomes(r, to) \/ Fault(r)
  /\ UNCHANGED <<dns, cdn>>

\* Whether the domain is there.
Looks(r, from, present, absent) ==
  Asks(r, from, IF Exists(req[r].d) THEN present ELSE absent)

\* How an order ends: carried out (its answer lost, perhaps) where the CDN
\* allows it, or not.
Ordered(r, allowed, to) == allowed /\ (Becomes(r, to) \/ Fault(r))
NotOrdered(r, allowed) == \/ Fault(r)
                          \/ ~allowed /\ Return(r, "error")

\* Of the TXT record, the lookup: whichever record is listed first is taken for
\* the only one.  One that is as wished needs no wait; where the supplier is
\* unknown nothing is done, and said to be changed.
FindTXT(r) ==
  /\ req[r].at = "txt"
  /\ \/ ~known /\ Becomes(r, "wait")
     \/ /\ known
        /\ \/ Fault(r)
           \/ txt = <<>> /\ Found(r, 0)
           \/ \E i \in DOMAIN txt :
                IF txt[i] = req[r].d THEN Becomes(r, "verify") ELSE Found(r, i)
  /\ UNCHANGED <<dns, cdn>>

\* The write: a record more, or the one found changed.  The supplier may refuse
\* a second record, and one that is there already.
WriteTXT(r) ==
  /\ req[r].at = "write"
  /\ LET i == req[r].found
         there == IF i = 0 THEN txt # <<>> ELSE Speaks(req[r].d) IN
       \/ /\ txt' = IF i = 0 THEN Append(txt, req[r].d) ELSE [txt EXCEPT ![i] = req[r].d]
          /\ Becomes(r, "wait") \/ Fault(r)
       \/ /\ Fault(r) \/ (there /\ Return(r, "error"))
          /\ UNCHANGED txt
  /\ UNCHANGED <<seen, cname, cdn>>

UpsertTXT(r) == FindTXT(r) \/ WriteTXT(r)

WaitTXT(r) ==
  /\ req[r].at = "wait"
  /\ IF req[r].d \in seen THEN Becomes(r, "verify") ELSE Return(r, "error")
  /\ UNCHANGED <<dns, cdn>>

VerifyOwner(r, to) ==
  /\ req[r].at = "verify"
  /\ LET allowed == req[r].d \in seen IN
       \/ /\ verified' = verified \cup {req[r].d}
          /\ Ordered(r, allowed, to)
       \/ NotOrdered(r, allowed) /\ UNCHANGED verified
  /\ UNCHANGED <<dns, origin, rules, https, named>>

AddDomain(r, to) ==
  /\ req[r].at = "add"
  /\ LET allowed == ~Exists(req[r].d) /\ (req[r].d \in verified \/ tc = "ucloud") IN
       \/ /\ origin' = [origin EXCEPT ![req[r].d] = req[r].o]
          /\ Ordered(r, allowed, to)
       \/ NotOrdered(r, allowed) /\ UNCHANGED origin
  /\ UNCHANGED <<dns, verified, rules, https, named>>

\* One order that sets the origin, the rules or both, or leaves them.
Configure(r, from, o, s, to) ==
  /\ req[r].at = from
  /\ LET allowed == Exists(req[r].d) IN
       \/ /\ origin' = [origin EXCEPT ![req[r].d] = IF o = None THEN @ ELSE o]
          /\ rules' = [rules EXCEPT ![req[r].d] = IF s = None THEN @ ELSE s]
          /\ Ordered(r, allowed, to)
       \/ NotOrdered(r, allowed) /\ UNCHANGED <<origin, rules>>
  /\ UNCHANGED <<dns, verified, https, named>>

\* The domain's CNAME, which the CDN may not have given yet.
AskCname(r, from, to) ==
  /\ req[r].at = from
  /\ \/ IF req[r].d \in named THEN Becomes(r, to) ELSE Return(r, "error")
     \/ Fault(r)
  /\ UNCHANGED <<dns, cdn>>

\* The CNAME record, which ends every Post* function.
UpsertCNAME(r) ==
  /\ req[r].at = "point"
  /\ \/ /\ cname' = IF known THEN cname \cup {req[r].d} ELSE cname
        /\ Return(r, "ok") \/ Fault(r)
     \/ Fault(r) /\ UNCHANGED cname
  /\ UNCHANGED <<txt, seen, cdn>>

\* The certificate in the areas as.
SetHttps(r, as) ==
  https' = [https EXCEPT ![req[r].d] = [a \in Area |-> IF a \in as THEN req[r].c ELSE @[a]]]

PutCert(r, from) ==
  /\ req[r].at = from
  /\ LET allowed == Exists(req[r].d) IN
       \/ /\ allowed /\ SetHttps(r, Area)
          /\ Return(r, "ok") \/ Fault(r)
       \/ NotOrdered(r, allowed) /\ UNCHANGED https
  /\ UNCHANGED <<dns, verified, origin, rules, named>>
------------------------------------------------------------------------------
(***************************************************************************)
(* Ali.                                                                    *)
(***************************************************************************)
findAliCDNDomain(r) == Looks(r, "find", "again", "info")
describeDomainVerifyData(r) == Asks(r, "info", "txt")
verifyDomainOwner(r) == VerifyOwner(r, "again")

\* Host header and SNI are the origin's.
updateAliCDNRules(r) == Configure(r, "rules", None, req[r].o, "name")

CnameUnchecked(r) == Asks(r, "name", "point")
retryGetAliCDNCname(r) == AskCname(r, "name", "point")

\* Looks the domain up once more, then modifies or adds it.
updateCDNOrigin(r) ==
  \/ Looks(r, "again", "modify", "add")
  \/ Configure(r, "modify", req[r].o, None, "rules")
  \/ AddDomain(r, "rules")
  \/ updateAliCDNRules(r) \/ retryGetAliCDNCname(r)

PostAliCdnDomain(r) ==
  /\ tc = "ali" /\ req[r].o # None
  /\ \/ findAliCDNDomain(r) \/ describeDomainVerifyData(r)
     \/ UpsertTXT(r) \/ WaitTXT(r)
     \/ verifyDomainOwner(r) \/ updateCDNOrigin(r)
     \/ UpsertCNAME(r)

UploadAliCDNCert(r) == tc = "ali" /\ PutCert(r, "cert")
------------------------------------------------------------------------------
(***************************************************************************)
(* Tencent proves the owner on every call.                                 *)
(***************************************************************************)
getTencentCDNVerifyTXT(r) == Asks(r, "find", "txt")
verifyTencentCDNDomain(r) == VerifyOwner(r, "again")

AlwaysAdd(r) == Asks(r, "again", "add")
tencentCDNExists(r) == Looks(r, "again", "modify", "add")
updateTencentCDNCacheRules(r) == Configure(r, "rules", None, Cached, "name")
getTencentCDNCNAME(r) == AskCname(r, "name", "point")

upsertTencentCDNDomain(r) ==
  \/ tencentCDNExists(r)
  \/ Configure(r, "modify", req[r].o, None, "rules")
  \/ AddDomain(r, "rules")
  \/ updateTencentCDNCacheRules(r) \/ getTencentCDNCNAME(r)

PostTencentCDNAndDNS(r) ==
  /\ tc = "tencent" /\ req[r].o # None
  /\ \/ getTencentCDNVerifyTXT(r) \/ UpsertTXT(r) \/ WaitTXT(r)
     \/ verifyTencentCDNDomain(r) \/ upsertTencentCDNDomain(r)
     \/ UpsertCNAME(r)

StoredUnbound(r) ==
  /\ tc = "tencent" /\ req[r].at = "cert" /\ req[r].c # None
  /\ Return(r, "ok") \/ Fault(r)
  /\ UNCHANGED <<dns, cdn>>

\* The certificate is stored under an identifier, then bound to the domain.
UploadTencentCDNCert(r) ==
  tc = "tencent" /\ (Asks(r, "cert", "bind") \/ PutCert(r, "bind"))
------------------------------------------------------------------------------
(***************************************************************************)
(* Huawei.                                                                 *)
(***************************************************************************)
newHuaweiCDNClient(r) == Asks(r, "client", IF req[r].c = None THEN "find" ELSE "cert")
getHuaweiCDNDomainID(r) == Looks(r, "find", "rules", "info")

beforeCreateHuaweiCDNDomain(r) ==
  \/ Asks(r, "info", "txt")
  \/ UpsertTXT(r) \/ WaitTXT(r) \/ VerifyOwner(r, "add")

\* One order sets origin, host, cache and the rest.
updateHuaweiCDNConfig(r, from, to) == Configure(r, from, req[r].o, req[r].o, to)

createHuaweiCDNDomain(r) == AddDomain(r, "first") \/ updateHuaweiCDNConfig(r, "first", "check")
getHuaweiCDNCname(r) == AskCname(r, "name", "point")

\* A domain just created is looked up and configured once more.
updateHuaweiCDNOrigin(r) ==
  \/ newHuaweiCDNClient(r) \/ getHuaweiCDNDomainID(r)
  \/ beforeCreateHuaweiCDNDomain(r) \/ createHuaweiCDNDomain(r)
  \/ Exists(req[r].d) /\ Asks(r, "check", "rules")
  \/ updateHuaweiCDNConfig(r, "rules", "name") \/ getHuaweiCDNCname(r)

PostHuaweiCdnDomain(r) ==
  tc = "huawei" /\ req[r].o # None /\ (updateHuaweiCDNOrigin(r) \/ UpsertCNAME(r))

UploadHuaweiCDNCert(r) ==
  tc = "huawei" /\ req[r].c # None /\ (newHuaweiCDNClient(r) \/ PutCert(r, "cert"))
------------------------------------------------------------------------------
(***************************************************************************)
(* UCloud proves no owner and sets no rules.                               *)
(***************************************************************************)

\* Goes on without a project where the question fails.
getUCloudProjectID(r) ==
  /\ req[r].at = "project" /\ Becomes(r, "find")
  /\ UNCHANGED <<dns, cdn>>

\* Five queries in turn, one answer is enough: where the one that would have
\* listed the domain fails, the domain seems absent.
getUCloudCDNDomain(r, from, present, absent) ==
  \/ Looks(r, from, present, absent)
  \/ /\ req[r].at = from
     /\ req' = [req EXCEPT ![r].at = absent]
     /\ faulted' = faulted \cup {r}
     /\ UNCHANGED <<answer, dns, cdn>>

\* Two actions in turn, the second where the first is not offered.
createUCloudCDNDomain(r) == AddDomain(r, "look")

\* A domain listed before it has its CNAME is found without one.
UpdatedUCloudCDNDomain(r) ==
  \/ Configure(r, "change", req[r].o, Cached, "point")
  \/ Configure(r, "modify", req[r].o, Cached, "relook")

\* It is looked up again; if that fails, or there is still no CNAME, an empty
\* one is upserted, which a driver refuses and an unknown supplier is not asked.
LookedAgain(r) ==
  /\ req[r].at = "relook"
  /\ \/ IF req[r].d \in named THEN Becomes(r, "point")
        ELSE Return(r, IF known THEN "error" ELSE "ok")
     \/ IF known THEN Fault(r) ELSE Return(r, "ok")
  /\ UNCHANGED <<dns, cdn>>

upsertUCloudCDNDomain(r) ==
  \/ getUCloudCDNDomain(r, "find", IF req[r].d \in named THEN "change" ELSE "modify", "add")
  \/ UpdatedUCloudCDNDomain(r) \/ LookedAgain(r)
  \/ createUCloudCDNDomain(r) \/ AskCname(r, "look", "point")

PostUCloudCDNAndDNS(r) ==
  /\ tc = "ucloud" /\ req[r].o # None
  /\ getUCloudProjectID(r) \/ upsertUCloudCDNDomain(r) \/ UpsertCNAME(r)

\* AddCertificate may answer without the identifier, which is then looked
\* for by name, five times.
findUCloudCertID(r) == Asks(r, "search", "find")

\* The areas each attempt at HTTPS covers.
Attempts == IF area = Area THEN <<Area, {"cn"}, area>> ELSE <<area, area>>

UploadUCloudCDNCert(r) ==
  /\ tc = "ucloud" /\ req[r].c # None
  /\ \/ Asks(r, "cert", "find") \/ Asks(r, "cert", "search")
     \/ findUCloudCertID(r)
     \/ getUCloudCDNDomain(r, "find", "https", "lost")
     \/ req[r].at = "lost" /\ Return(r, "error") /\ UNCHANGED <<dns, cdn>>

\* The first attempt that succeeds ends it; one whose answer is lost counts
\* as failed.
updateUCloudCDNHTTPS(r) ==
  /\ req[r].at = "https"
  /\ \/ SetHttps(r, Head(req[r].tries)) /\ Return(r, "ok")
     \/ /\ SetHttps(r, Head(req[r].tries)) \/ UNCHANGED https
        /\ IF Len(req[r].tries) = 1 THEN Fault(r)
           ELSE /\ req' = [req EXCEPT ![r].tries = Tail(@)]
                /\ faulted' = faulted \cup {r}
                /\ UNCHANGED answer
  /\ UNCHANGED <<dns, verified, origin, rules, named>>
------------------------------------------------------------------------------
\* A call begins: a domain to put into service, or its certificate.
First(kind) ==
  CASE tc = "huawei" -> "client"
    [] tc = "ucloud" /\ kind = "post" -> "project"
    [] tc \in {"ali", "tencent"} /\ kind = "post" -> "find"
    [] OTHER -> "cert"

Begin(r, d, o, c) ==
  /\ req[r] = Idle /\ begun < MaxRequests
  /\ begun' = begun + 1
  /\ req' = [req EXCEPT ![r] = [at |-> First(IF c = None THEN "post" ELSE "upload"),
                                d |-> d, o |-> o, c |-> c, tries |-> Attempts, found |-> 0]]
  /\ answer' = [answer EXCEPT ![r] = "none"]
  /\ faulted' = faulted \ {r}
  /\ overlapped' = IF Active = {} THEN overlapped \ {r} ELSE overlapped \cup Active \cup {r}
  /\ UNCHANGED <<where, dns, cdn>>

\* The resolvers catch up with the zone.
Propagate ==
  /\ seen' = {txt[i] : i \in DOMAIN txt} /\ seen' # seen
  /\ UNCHANGED <<where, txt, cname, cdn, req, answer, begun, faulted, overlapped>>

\* The CDN gives a domain its CNAME.
Name(d) ==
  /\ Exists(d) /\ d \notin named
  /\ named' = named \cup {d}
  /\ UNCHANGED <<where, dns, verified, origin, rules, https,
                 req, answer, begun, faulted, overlapped>>

Step(r) ==
  /\ \/ PostAliCdnDomain(r) \/ UploadAliCDNCert(r)
     \/ PostTencentCDNAndDNS(r) \/ UploadTencentCDNCert(r)
     \/ PostHuaweiCdnDomain(r) \/ UploadHuaweiCDNCert(r)
     \/ PostUCloudCDNAndDNS(r) \/ UploadUCloudCDNCert(r) \/ updateUCloudCDNHTTPS(r)
  /\ UNCHANGED <<where, begun, overlapped>>

Next ==
  \/ \E r \in Req, d \in Domain : \/ \E o \in Origin : Begin(r, d, o, None)
                                  \/ \E c \in Cert : Begin(r, d, None, c)
  \/ \E r \in Req : Step(r)
  \/ Propagate \/ \E d \in Domain : Name(d)

Spec == Init /\ [][Next]_vars
------------------------------------------------------------------------------
(***************************************************************************)
(* Properties.                                                             *)
(***************************************************************************)

CallType == [at : {"idle", "client", "project", "find", "info", "txt", "write", "wait", "verify",
                   "again", "add", "modify", "change", "first", "check", "rules", "name", "look",
                   "relook", "point", "cert", "bind", "search", "https", "lost"},
             d : Domain \cup {None}, o : Origin \cup {None}, c : Cert \cup {None},
             tries : Seq(SUBSET Area), found : Nat]

\* The types; a call under way has an origin or a certificate, and an attempt left,
\* and one about to write the TXT record has found one that is there.
TypeOK ==
  /\ tc \in Supplier /\ known \in BOOLEAN /\ area \subseteq Area
  /\ txt \in Seq(Domain) /\ seen \subseteq Domain
  /\ verified \subseteq Domain /\ named \subseteq Domain /\ cname \subseteq Domain
  /\ origin \in [Domain -> Origin \cup {None}]
  /\ rules \in [Domain -> Origin \cup {None, Cached}]
  /\ https \in [Domain -> [Area -> Cert \cup {None}]]
  /\ req \in [Req -> CallType]
  /\ \A r \in Req : IF req[r].at = "idle" THEN req[r] = Idle
                    ELSE /\ req[r].d \in Domain /\ req[r].tries # <<>>
                         /\ req[r].o # None <=> req[r].c = None
                         /\ req[r].at = "write" => req[r].found \in 0..Len(txt)
  /\ answer \in [Req -> {"none", "ok", "error"}]
  /\ begun \in 0..MaxRequests
  /\ faulted \subseteq Req /\ overlapped \subseteq Req

\* UCloud sets no rules apart from the origin.
HasRules(d) == rules[d] # None \/ tc = "ucloud"

\* Visitors are sent to the CDN last: a domain whose CNAME record points
\* there has an origin and rules, whichever calls failed half way or met.
PointedIsConfigured == \A d \in cname : Exists(d) /\ HasRules(d) /\ d \in named

\* A call asks for the CNAME of a domain that has its rules, and writes a
\* record of what the CDN has named, which it may have found named; only what
\* is there is named.
NamedAreThere ==
  /\ \A d \in named : Exists(d)
  /\ \A r \in Active : /\ req[r].at \in {"name", "point"} => HasRules(req[r].d)
                       /\ req[r].at \in {"change", "point"} => req[r].d \in named

\* The invariant of any number of Post* and Upload* calls at once.
Inv == TypeOK /\ PointedIsConfigured /\ NamedAreThere

Alone(r) == r \notin overlapped

\* Areas an upload answers for.  UCloud settles for one of two.
Promised == IF tc = "ucloud" /\ area = Area THEN {"cn"} ELSE area

\* The CDNs that ask for it take in no domain before its owner is proven.
OwnersAreProven == tc # "ucloud" => \A d \in Domain : Exists(d) => d \in verified

\* What a call has come by stays, whatever other calls do: its domain, the
\* proof of the owner, a certificate to install, attempts that will do.
KeepsOn(r) ==
  LET at == req[r].at IN
  /\ at \in {"modify", "change", "first", "check", "rules"} => Exists(req[r].d)
  /\ at = "again" \/ (at = "add" /\ tc # "ucloud") => req[r].d \in verified
  /\ at \in {"cert", "bind", "search", "https", "lost"} => req[r].c # None
  /\ at = "https" => tc = "ucloud"
  /\ tc = "ucloud" => \A i \in DOMAIN req[r].tries : Promised \subseteq req[r].tries[i]

\* A call that is alone finds its domain as it saw it, and as it made it.
IsRight(r) ==
  LET at == req[r].at
      d == req[r].d
      o == req[r].o IN
  /\ at \in {"add", "lost"} /\ r \notin faulted => ~Exists(d)
  /\ at \in {"info", "txt", "write", "wait", "verify", "add"} /\ tc = "huawei" => ~Exists(d)
  /\ at = "write" => IF req[r].found = 0 THEN txt = <<>> ELSE txt[req[r].found] # d
  /\ at \in {"name", "look", "relook", "point"} \/ (at = "rules" /\ tc \in {"ali", "tencent"})
     => origin[d] = o
  /\ at \in {"name", "point"} /\ tc \in {"ali", "huawei"} => rules[d] = o

CallsKeepOn == \A r \in Active : KeepsOn(r)
AloneIsRight == \A r \in Active : Alone(r) => Active = {r} /\ IsRight(r)

\* The same for what a call reports in the end.
CallInv == OwnersAreProven /\ CallsKeepOn /\ AloneIsRight

Ends(r, a) == req[r].at # "idle" /\ req'[r].at = "idle" /\ answer'[r] = a

\* What a call reports it has done: alone, a Post* function that succeeds
\* leaves the CDN fetching from the origin it was given, under that origin's
\* name, and the CNAME record in place where the zone's supplier is known.
SuccessIsDeployed ==
  [][\A r \in Req : Ends(r, "ok") /\ Alone(r) /\ req[r].o # None =>
       LET d == req[r].d IN
       /\ origin[d] = req[r].o
       /\ tc \in {"ali", "huawei"} => rules[d] = req[r].o
       /\ tc # "ucloud" => d \in verified
       /\ known => d \in cname']_vars

\* An upload that succeeds alone leaves the certificate it was given in
\* place.
SuccessIsServed ==
  [][\A r \in Req : Ends(r, "ok") /\ Alone(r) /\ req[r].c # None =>
       \A a \in Promised : https'[req[r].d][a] = req[r].c]_vars

\* Both: an answer "ok" means that what was asked for is there.
SuccessIsDone == SuccessIsDeployed /\ SuccessIsServed

\* What is late although nothing fails: the TXT record at the resolvers, the
\* CNAME at the CDN; or a certificate for a domain that is not there.
Late(r) == \/ req[r].at \in {"wait", "verify"} /\ req[r].d \notin seen
           \/ req[r].at \in {"name", "look", "relook"} /\ req[r].d \notin named
           \/ req[r].c # None /\ ~Exists(req[r].d)

\* Two TXT records, left by calls that overlapped: the driver would make one of
\* them what the other is, which the supplier may refuse.
Doubled(r) == req[r].at = "write" /\ Len(txt) > 1 /\ Speaks(req[r].d)

\* However an earlier call stopped half way, a later one that is alone and
\* meets no failure or delay of its own does not fail: no partial result
\* stands in the way of a retry but a TXT record that was written twice.
RetrySucceeds ==
  [][\A r \in Req : Ends(r, "error") /\ Alone(r) /\ r \notin faulted' => Late(r) \/ Doubled(r)]_vars
==============================================================================
