--------------------------------- MODULE Supply ---------------------------------
(***************************************************************************)
(* What is done at the suppliers: the certificates of the operators'       *)
(* domains (DomainCert), the records the DNS drivers write (DnsUpsert),    *)
(* the CDN drivers (CdnDeploy) and a proxied domain at cloudflare          *)
(* (CfRules).  They share no state: each takes what another does as one    *)
(* step, which that one is shown to make.                                  *)
(***************************************************************************)
EXTENDS DomainCert

CONSTANTS
  Origin, None,
  MaxRequests,                      \* bound: calls of CdnDeploy, of CfRules
  Value, Ttl, T, Types, MaxId,      \* DnsUpsert
  Service, Known, Pem, Cached,      \* CdnDeploy: suppliers, certificates
  Alike, Address, Port, Plain       \* CfRules

VARIABLES  \* DnsUpsert
  t, recordType, zone, call, answer, next, overlapped

Dns == INSTANCE DnsUpsert WITH Call <- Req

VARIABLES  \* CdnDeploy
  tc, known, area, txt, resolved, verified, origin, cacheRules, https, named, cname,
  deploy, deployAnswer, begun, faulted, deployOverlapped

Cdns == INSTANCE CdnDeploy WITH
  Cert <- Pem, Supplier <- Service, seen <- resolved, rules <- cacheRules,
  req <- deploy, answer <- deployAnswer, overlapped <- deployOverlapped

VARIABLES  \* CfRules
  record, rulesets, rules, ssl, setup, setupAnswer, started, asked, setupOverlapped

Cf == INSTANCE CfRules WITH
  Host <- Domain, req <- setup, answer <- setupAnswer, overlapped <- setupOverlapped

ASSUME SupplyAssumption ==
  Dns!UpsertAssumption /\ Cdns!DeployAssumption /\ Cf!RulesAssumption

\* The zone has distinct records, one at most of a unique type; and what a call
\* that is alone has found, or not found, is still so.
UpsertInv == Dns!UpsertInv

\* Upserts of a unique record are atomic, whatever they overlap and whichever
\* fail: the record is a register.
RegisterSpec == Dns!RegisterSpec

\* A call that succeeds leaves the record as it wished, whatever it overlaps; a
\* name gets two records only from calls that overlap.
AnyRecordIsAsWished == Dns!SuccessIsVisible /\ Dns!TwiceOnlyIfOverlapped

\* Visitors are sent to a CDN only when it is set up, and what a call there has
\* come by stays; at cloudflare, rules are shared only by hosts of one ref, what a
\* request has read of them is there, and what one that is alone has set.
SuppliersInv == Cdns!Inv /\ Cdns!CallInv /\ Cf!Inv /\ Cf!SetupInv

\* An answer "ok" of a call that was alone means that what it asked for is there.
SuccessIsDone == Cdns!SuccessIsDone

\* No partial result stands in the way of a retry.
RetrySucceeds == Cdns!RetrySucceeds

\* What was set up for one host stays, whatever is set up for others.
RulesStay == Cf!RulesStay

\* A request that succeeds alone leaves the host set up as it asked.
SuccessIsConfigured == Cf!SuccessIsConfigured
==============================================================================
