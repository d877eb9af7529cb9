-------------------------------- MODULE CfRules --------------------------------
(***************************************************************************)
(* A proxied domain at cloudflare: the branch of PostServerDomain that     *)
(* writes the DNS record and then, by utils/cloudflaredns.go, the cache    *)
(* and rate-limit rulesets, the SSL mode, the origin port and the origin   *)
(* host header of one zone.  All domains of a zone share its rulesets: a   *)
(* request reads them, looks its rule up by ref, and creates the rule or   *)
(* writes it back with one more host in its expression.                    *)
(*                                                                         *)
(* The zone at cloudflare is outside this program (external).  An          *)
(* expression is the set of hosts it names; the hosts are those of one     *)
(* root domain.  The record is written in one step: see DnsUpsert.         *)
(***************************************************************************)
EXTENDS Integers, Sequences

CONSTANTS
  Req,         \* requests under way at once
  Host,        \* hosts of the zone
  Alike,       \* those whose names differ in "-" and "_" only
  Origin,      \* origins to choose from
  Address,     \* those that are addresses, no domain names
  Port,        \* origin ports other than 80 and 443
  Plain,       \* stands for 80 and 443
  None,
  MaxRequests  \* bound

RulesAssumption ==
  /\ Alike \subseteq Host /\ Address \subseteq Origin
  /\ Plain \notin Port \cup Host /\ None \notin Host
  /\ MaxRequests \in Nat

VARIABLES
  record,    \* the origin the proxied CNAME record of each host names
  rulesets,  \* phases that have a ruleset, "origin" among them
  rules,     \* the rules of the origin phase, in order
  ssl,       \* the SSL mode has been set
  req,       \* the requests
  answer,    \* what each returned last
  started    \* requests so far

VARIABLES  \* history
  asked,      \* ports ever asked for each host
  overlapped  \* requests that were not alone

zone == <<record, rulesets, rules, ssl>>
vars == <<zone, req, answer, started, asked, overlapped>>

Idle == [at |-> "idle", step |-> "find", host |-> None, origin |-> None, port |-> None,
         found |-> FALSE, seen |-> <<>>]
Active == {r \in Req : req[r].at # "idle"}

\* cfRuleRef: a port has one rule for the zone, a host header one for each
\* host, but "-" and "." become "_".
PortRef(p) == <<"set_origin_port", p>>
HeaderRef(h) == <<"set_origin_host_header", IF h \in Alike THEN Plain ELSE h>>

Init ==
  /\ record = [h \in Host |-> None]
  /\ rulesets = {} /\ rules = <<>> /\ ssl = FALSE
  /\ req = [r \in Req |-> Idle]
  /\ answer = [r \in Req |-> "none"]
  /\ started = 0
  /\ asked = [h \in Host |-> {}]
  /\ overlapped = {}
------------------------------------------------------------------------------
Goto(r, at, step) ==
  /\ req' = [req EXCEPT ![r].at = at, ![r].step = step, ![r].found = FALSE, ![r].seen = <<>>]
  /\ UNCHANGED answer
Return(r, a) == /\ req' = [req EXCEPT ![r] = Idle]
                /\ answer' = [answer EXCEPT ![r] = a]

ErrorOfRules(r) == Return(r, IF req[r].at = "port" THEN "ok, but for the header" ELSE "error")

\* An error ends the request; only the host header's is kept for its end.
Error(r) == Return(r, IF req[r].at = "header" THEN "ok, but for the header" ELSE "error")

\* A call that cloudflare carries out may still fail for the caller.
Applied(r, at, step) ==
  \/ IF at = "done" THEN Return(r, "ok") ELSE Goto(r, at, step)
  \/ Error(r)
Rest == UNCHANGED <<started, asked, overlapped>>

PostServerDomain(r, h, o, p) ==
  /\ req[r].at = "idle" /\ started < MaxRequests
  /\ started' = started + 1
  /\ req' = [req EXCEPT ![r] =
       [Idle EXCEPT !.at = "record", !.host = h, !.origin = o, !.port = p]]
  /\ asked' = [asked EXCEPT ![h] = @ \cup {p}]
  /\ overlapped' = IF Active = {} THEN overlapped \ {r} ELSE overlapped \cup Active \cup {r}
  /\ UNCHANGED <<zone, answer>>

\* An address goes out as a TXT record, which leaves the CNAME as it is.
DnsUpsertRecord(r) ==
  /\ req[r].at = "record"
  /\ \/ /\ record' = [record EXCEPT ![req[r].host] =
                        IF req[r].origin \in Address THEN @ ELSE req[r].origin]
        /\ Applied(r, "cache", "find")
     \/ Error(r) /\ UNCHANGED record
  /\ UNCHANGED <<rulesets, rules, ssl>> /\ Rest

\* upsertCFRulesetByPhase: a phase has at most one ruleset, so a second
\* creation fails; what it replaces is the same for every domain.
findCFRulesetByPhase(r, phase) ==
  /\ req[r].at = phase /\ req[r].step = "find"
  /\ \/ /\ req' = [req EXCEPT ![r].step = "write", ![r].found = phase \in rulesets]
        /\ UNCHANGED answer
     \/ Error(r)
  /\ UNCHANGED zone /\ Rest

createCFRuleset(r, phase, to, step) ==
  /\ ~req[r].found
  /\ \/ /\ phase \notin rulesets
        /\ rulesets' = rulesets \cup {phase}
        /\ Applied(r, to, step)
     \/ Error(r) /\ UNCHANGED rulesets
  /\ UNCHANGED <<record, rules, ssl>> /\ Rest

updateCFRuleset(r, to, step) ==
  /\ req[r].found
  /\ Applied(r, to, step)
  /\ UNCHANGED zone /\ Rest

upsertCFRulesetByPhase(r, phase, to) ==
  \/ findCFRulesetByPhase(r, phase)
  \/ /\ req[r].at = phase /\ req[r].step = "write"
     /\ createCFRuleset(r, phase, to, "find") \/ updateCFRuleset(r, to, "find")

SetCFCacheRule(r) == upsertCFRulesetByPhase(r, "cache", "rate")
SetCFRateLimitRule(r) == upsertCFRulesetByPhase(r, "rate", "ssl")

\* Ports 80 and 443 set no rule, and remove none.
SetCFSSLMode(r) ==
  /\ req[r].at = "ssl"
  /\ \/ /\ ssl' = TRUE
        /\ Applied(r, IF req[r].port = Plain THEN "header" ELSE "port", "find")
     \/ Error(r) /\ UNCHANGED ssl
  /\ UNCHANGED <<record, rulesets, rules>> /\ Rest
------------------------------------------------------------------------------
(***************************************************************************)
(* upsertCFOriginRule, for the port and for the host header.               *)
(***************************************************************************)
Ref(r, kind) == IF kind = "port" THEN PortRef(req[r].port) ELSE HeaderRef(req[r].host)
Param(r, kind) == IF kind = "port" THEN req[r].port ELSE req[r].origin
IndicesOfKind(s, ref) == {i \in DOMAIN s : s[i].ref[1] = ref[1]}
Indices(s, ref) == {i \in DOMAIN s : s[i].ref = ref}

getCFEntrypointRuleset(r, kind) ==
  /\ req[r].at = kind /\ req[r].step = "find"
  /\ \/ /\ "origin" \in rulesets
        /\ req' = [req EXCEPT ![r].step = "rule", ![r].seen = rules]
        /\ UNCHANGED answer
     \/ "origin" \notin rulesets /\ Goto(r, kind, "ruleset")
     \/ Error(r)
  /\ UNCHANGED zone /\ Rest

createCFOriginEntrypointRuleset(r, kind) ==
  /\ req[r].at = kind /\ req[r].step = "ruleset"
  /\ createCFRuleset(r, "origin", kind, "rule")

expressionOfHost(hosts, h) == {h}

\* A host that the expression names is not added again.
appendHostToExpression(hosts, h) == hosts \cup {h}

\* cloudflare may, or may not, refuse a second rule of one ref.
createCFRule(r, kind, to) ==
  /\ req[r].at = kind /\ req[r].step = "rule"
  /\ Indices(req[r].seen, Ref(r, kind)) = {}
  /\ \/ /\ rules' = Append(rules, [ref |-> Ref(r, kind), param |-> Param(r, kind),
                                   hosts |-> {req[r].host}])
        /\ Applied(r, to, "find")
     \/ Error(r) /\ UNCHANGED rules
  /\ UNCHANGED <<record, rulesets, ssl>> /\ Rest

updateCFRule(r, kind, to) ==
  LET found == Indices(req[r].seen, Ref(r, kind)) IN
  /\ req[r].at = kind /\ req[r].step = "rule"
  /\ found # {}
  /\ \/ \E i \in found :
          /\ \A j \in found : i <= j
          /\ rules' = [rules EXCEPT ![i].param = Param(r, kind),
                         ![i].hosts = appendHostToExpression(req[r].seen[i].hosts, req[r].host)]
          /\ Applied(r, to, "find")
     \/ Error(r) /\ UNCHANGED rules
  /\ UNCHANGED <<record, rulesets, ssl>> /\ Rest

upsertCFOriginRule(r, kind, to) ==
  \/ getCFEntrypointRuleset(r, kind) \/ createCFOriginEntrypointRuleset(r, kind)
  \/ createCFRule(r, kind, to) \/ updateCFRule(r, kind, to)

SetCFOriginPortForSubdomain(r) == upsertCFOriginRule(r, "port", "header")
SetCFOriginHostHeaderForSubdomain(r) == upsertCFOriginRule(r, "header", "done")

Next ==
  \E r \in Req :
    \/ \E h \in Host, o \in Origin, p \in Port \cup {Plain} : PostServerDomain(r, h, o, p)
    \/ DnsUpsertRecord(r)
    \/ SetCFCacheRule(r) \/ SetCFRateLimitRule(r) \/ SetCFSSLMode(r)
    \/ SetCFOriginPortForSubdomain(r) \/ SetCFOriginHostHeaderForSubdomain(r)

Spec == Init /\ [][Next]_vars
------------------------------------------------------------------------------
(***************************************************************************)
(* Properties.                                                             *)
(***************************************************************************)

\* What cloudflare does to a request of a host, if anything: the last rule counts.
Setting(kind, h) ==
  LET is == {i \in DOMAIN rules : rules[i].ref[1] = kind /\ h \in rules[i].hosts} IN
  {rules[i].param : i \in {i \in is : \A j \in is : j <= i}}

PortRefs == {PortRef(p) : p \in Port}
HeaderRefs == {HeaderRef(h) : h \in Host}
RuleType == [ref : PortRefs \cup HeaderRefs, param : Port \cup Origin, hosts : (SUBSET Host) \ {{}}]
ReqType == [at : {"idle", "record", "cache", "rate", "ssl", "port", "header"},
            step : {"find", "write", "ruleset", "rule"},
            host : Host \cup {None}, origin : Origin \cup {None},
            port : Port \cup {Plain, None}, found : BOOLEAN, seen : Seq(RuleType)]

\* The types; nothing is written to a ruleset that is not there, and a port of
\* 80 or 443 is not set.
TypeOK ==
  /\ record \in [Host -> Origin \cup {None}]
  /\ rulesets \subseteq {"cache", "rate", "origin"} /\ ssl \in BOOLEAN
  /\ rules \in Seq(RuleType)
  /\ rules # <<>> => "origin" \in rulesets
  /\ req \in [Req -> ReqType]
  /\ \A r \in Req : IF req[r].at = "idle" THEN req[r] = Idle
                    ELSE /\ req[r].host \in Host /\ req[r].origin \in Origin
                         /\ req[r].port \in Port \cup {Plain}
                         /\ req[r].at = "port" => req[r].port \in Port
  /\ answer \in [Req -> {"none", "ok", "ok, but for the header", "error"}]
  /\ started \in 0..MaxRequests
  /\ asked \in [Host -> SUBSET (Port \cup {Plain})] /\ overlapped \subseteq Req

\* A host header is set for hosts that share its ref.
OwnHosts(s) == \A i \in DOMAIN s : s[i].ref \in HeaderRefs =>
                 \A h \in s[i].hosts : s[i].ref = HeaderRef(h)

\* What a request has read is still there, with other hosts perhaps; and, if the
\* request is alone, as it is.
SeenIsThere ==
  \A r \in Active :
    LET s == req[r].seen IN
    /\ OwnHosts(s)
    /\ Len(s) <= Len(rules) /\ \A i \in DOMAIN s : s[i].ref = rules[i].ref
    /\ req[r].step = "rule" => "origin" \in rulesets
    /\ r \notin overlapped => Active = {r} /\ (req[r].step = "rule" => s = rules)

\* The invariant of any number of requests at once.
Inv == TypeOK /\ OwnHosts(rules) /\ SeenIsThere

\* A port rule sets the port of its ref, for hosts it was asked for.
OwnPorts(s) ==
  \A i \in DOMAIN s : s[i].ref \in PortRefs =>
    s[i].ref = PortRef(s[i].param) /\ \A h \in s[i].hosts : s[i].param \in asked[h]

\* A request has set what comes before the function it is in, and what all
\* domains share stays.
GotFar(r) ==
  LET at == req[r].at IN
  /\ req[r].port \in asked[req[r].host]
  /\ req[r].found => at \in rulesets
  /\ at \in {"rate", "ssl", "port", "header"} => "cache" \in rulesets
  /\ at \in {"ssl", "port", "header"} => "rate" \in rulesets
  /\ at \in {"port", "header"} => ssl
  /\ OwnPorts(req[r].seen)

\* If it is alone, so does what it has set for its host.
HostIsSet(r) ==
  /\ req[r].at # "record" /\ req[r].origin \notin Address =>
       record[req[r].host] = req[r].origin
  /\ req[r].at = "header" /\ req[r].port \in Port =>
       \E i \in Indices(rules, PortRef(req[r].port)) : req[r].host \in rules[i].hosts

SetupInv ==
  /\ OwnPorts(rules)
  /\ \A r \in Active : GotFar(r) /\ (r \notin overlapped => HostIsSet(r))

\* The rule of a ref is found again: only overlapping requests can create it
\* twice.
OneRulePerRef ==
  [][\A i, j \in DOMAIN rules' :
       i < j /\ rules'[i].ref = rules'[j].ref /\ j \notin DOMAIN rules
       => \E r \in overlapped : req'[r] # req[r]]_vars

\* Setting a host up does not take the port from another: a host leaves the
\* expression of a rule only when two requests write it at once.
HostsStay ==
  [][\A i \in DOMAIN rules :
       ~(rules[i].hosts \subseteq rules'[i].hosts)
       => \E r \in overlapped : req'[r] # req[r]]_vars

\* A request that succeeds alone leaves the host set up as it asked: the record
\* of an origin that has a name,
\* shared rulesets, SSL mode, the port if no other was ever asked for the
\* host, and its own host header unless the first requests of two of its
\* kind overlapped and left two rules.
SuccessIsConfigured ==
  [][\A r \in Req \ overlapped, h \in Host, o \in Origin, p \in Port \cup {Plain} :
       /\ req[r].host = h /\ req[r].origin = o /\ req[r].port = p
       /\ req'[r].at = "idle" /\ answer'[r] # "error"
       => /\ o \notin Address => record'[h] = o
          /\ {"cache", "rate"} \subseteq rulesets' /\ ssl'
          /\ asked[h] = {p} =>
               Setting("set_origin_port", h)' = {p} \ {Plain}
          /\ answer'[r] = "ok"
             /\ (\E i \in DOMAIN rules' : Indices(rules', HeaderRef(h)) = {i}) =>
               Setting("set_origin_host_header", h)' = {o}]_vars

\* A host's header changes only by a request for it, or for one of a name
\* that differs in "-" and "_" only.
HeadersAreOwn ==
  [][\A h \in Host :
       Setting("set_origin_host_header", h)' # Setting("set_origin_host_header", h)
       => \E r \in Req : /\ req'[r] # req[r]
                         /\ req[r].host = h \/ {h, req[r].host} \subseteq Alike]_vars

\* So what one host was given stays, whatever is set up for others.
RulesStay == OneRulePerRef /\ HostsStay /\ HeadersAreOwn
==============================================================================
