------------------------------- MODULE DnsUpsert -------------------------------
(***************************************************************************)
(* DnsUpsertRecord (utils/dns.go) and its five drivers: look the records   *)
(* of a name and type up, then create one, or update the one found unless  *)
(* it is as wished.  Each step is a call to the supplier of its own, which *)
(* may fail, or be carried out although its answer is lost.  The drivers   *)
(* differ in when a record is as wished; where the supplier is none of     *)
(* them the call succeeds and does nothing.                                *)
(*                                                                         *)
(* One name and type.  The zone is outside this program (external): a set  *)
(* of records with identifiers of the supplier's choosing.                 *)
(***************************************************************************)
EXTENDS Integers, FiniteSets

CONSTANTS
  Call,       \* DnsUpsertRecord calls that may be under way at once
  Value, Ttl, \* contents and times to live
  T,          \* suppliers to choose the zone's from
  Types,      \* record types to choose from
  None,       \* no record, no value
  MaxId       \* bound: records ever created

Driver == {"ali", "cloudflare", "huawei", "tencent", "ucloud"}

\* Suppliers refuse a second CNAME of one name, but not a second TXT.
Unique == {"CNAME"}

UpsertAssumption ==
  /\ MaxId \in Nat
  /\ None \notin Value /\ None \notin 1..MaxId

Record == [id : 1..MaxId, value : Value, ttl : Ttl]

VARIABLES
  t, recordType,  \* the zone's supplier and the record's type
  zone,           \* the records of the name and type
  call,           \* the calls
  answer,         \* what each call returned last
  next,           \* records created so far
  overlapped      \* history: calls that were not alone, or met the console

vars == <<t, recordType, zone, call, answer, next, overlapped>>

\* Where a driver starts.
First == CASE t = "huawei" -> "client"
           [] t \in {"cloudflare", "ucloud"} -> "zone"
           [] t \in {"ali", "tencent"} -> "find"
           [] OTHER -> "none"

Idle == [at |-> "idle", value |-> None, ttl |-> None, found |-> None]
Active == {c \in Call : call[c].at # "idle"}

Init ==
  /\ t \in T /\ recordType \in Types
  /\ next \in {0, 1}
  /\ zone \in IF next = 0 THEN {{}} ELSE {{r} : r \in {q \in Record : q.id = 1}}
  /\ call = [c \in Call |-> Idle]
  /\ answer = [c \in Call |-> "none"]
  /\ overlapped = {}
------------------------------------------------------------------------------
Return(c, a) ==
  /\ call' = [call EXCEPT ![c] = Idle]
  /\ answer' = [answer EXCEPT ![c] = a]

Becomes(c, at) == call' = [call EXCEPT ![c].at = at] /\ UNCHANGED answer

DnsUpsertRecord(c, v, l) ==
  /\ call[c] = Idle
  /\ call' = [call EXCEPT ![c] = [at |-> First, value |-> v, ttl |-> l, found |-> None]]
  /\ overlapped' = IF Active = {} THEN overlapped \ {c} ELSE overlapped \cup Active \cup {c}
  /\ UNCHANGED <<t, recordType, zone, answer, next>>

\* The switch over the suppliers has no default.
NoDriver(c) ==
  /\ call[c].at = "none"
  /\ Return(c, "ok")
  /\ UNCHANGED <<t, recordType, zone, next, overlapped>>

\* What must be known first: the region whose client answers, the zone's
\* identifier.
Look(c, from, to) ==
  /\ call[c].at = from
  /\ Becomes(c, to) \/ Return(c, "error")
  /\ UNCHANGED <<t, recordType, zone, next, overlapped>>

newHuaweiDNSClient(c) == t = "huawei" /\ Look(c, "client", "zone")
getHuaweiDNSZoneID(c) == t = "huawei" /\ Look(c, "zone", "find")
getCFZoneID(c) == t = "cloudflare" /\ Look(c, "zone", "find")
getUCloudDNSZoneID(c) == t = "ucloud" /\ Look(c, "zone", "find")

AsWishedByTtl(c, r) == r.ttl = call[c].ttl

\* tencent and ucloud compare the value alone.
AsWished(c, r) == /\ r.value = call[c].value
                  /\ r.ttl = call[c].ttl \/ t \in {"tencent", "ucloud"}

FindWith(c, missing) ==
  /\ call[c].at = "find"
  /\ \/ Return(c, "error")
     \/ zone = {} /\ Becomes(c, missing)
     \/ \E r \in zone :
          IF AsWished(c, r) THEN Return(c, "ok")
          ELSE /\ call' = [call EXCEPT ![c].at = "update", ![c].found = r.id]
               /\ UNCHANGED answer
  /\ UNCHANGED <<t, recordType, zone, next, overlapped>>

FindUnchecked(c) == FindWith(c, "update")

FindErrorIgnored(c) ==
  \/ FindWith(c, "create")
  \/ /\ call[c].at = "find" /\ Becomes(c, "create")
     /\ UNCHANGED <<t, recordType, zone, next, overlapped>>

\* The lookup.  Whatever record the supplier lists first is taken for the
\* only one.
Find(c) == FindWith(c, "create")

findRecord(c) == t = "ali" /\ Find(c)
findCFRecord(c) == t = "cloudflare" /\ Find(c)
findHuaweiRecordSet(c) == t = "huawei" /\ Find(c)
DescribeRecordList(c) == t = "tencent" /\ Find(c)
findUCloudDNSRecord(c) == t = "ucloud" /\ Find(c)

\* A request the supplier carries out, and one it does not.
Applied(c) == Return(c, "ok") \/ Return(c, "error")
RefusedQuietly(c) == Return(c, "ok") /\ UNCHANGED <<zone, next>>
Refused(c) == Return(c, "error") /\ UNCHANGED <<zone, next>>

addRecord(c) ==
  /\ call[c].at = "create"
  /\ \/ /\ next < MaxId
        /\ recordType \in Unique => zone = {}
        /\ next' = next + 1
        /\ zone' = zone \cup {[id |-> next', value |-> call[c].value, ttl |-> call[c].ttl]}
        /\ Applied(c)
     \/ Refused(c)
  /\ UNCHANGED <<t, recordType, overlapped>>

updateRecord(c) ==
  /\ call[c].at = "update"
  /\ \/ \E r \in zone :
          /\ r.id = call[c].found
          /\ zone' = (zone \ {r}) \cup
                       {[id |-> r.id, value |-> call[c].value, ttl |-> call[c].ttl]}
          /\ Applied(c)
          /\ UNCHANGED next
     \/ Refused(c)
  /\ UNCHANGED <<t, recordType, overlapped>>

Write(c) == addRecord(c) \/ updateRecord(c)

AliUpsertRecord(c) == findRecord(c) \/ (t = "ali" /\ Write(c))
UpsertCFRecord(c) == getCFZoneID(c) \/ findCFRecord(c) \/ (t = "cloudflare" /\ Write(c))
UpsertHuaweiDNSRecord(c) ==
  \/ newHuaweiDNSClient(c) \/ getHuaweiDNSZoneID(c) \/ findHuaweiRecordSet(c)
  \/ t = "huawei" /\ Write(c)
UpsertTencentDNSRecord(c) == DescribeRecordList(c) \/ (t = "tencent" /\ Write(c))
UpsertUCloudDNSRecord(c) ==
  getUCloudDNSZoneID(c) \/ findUCloudDNSRecord(c) \/ (t = "ucloud" /\ Write(c))

\* The zone's owner removes a record at the console.
Console ==
  /\ \E r \in zone : zone' = zone \ {r}
  /\ overlapped' = overlapped \cup Active
  /\ UNCHANGED <<t, recordType, call, answer, next>>

Next ==
  \/ \E c \in Call : \/ \E v \in Value, l \in Ttl : DnsUpsertRecord(c, v, l)
                     \/ NoDriver(c) \/ AliUpsertRecord(c) \/ UpsertCFRecord(c)
                     \/ UpsertHuaweiDNSRecord(c) \/ UpsertTencentDNSRecord(c)
                     \/ UpsertUCloudDNSRecord(c)
  \/ Console

Spec == Init /\ [][Next]_vars
------------------------------------------------------------------------------
(***************************************************************************)
(* Properties.                                                             *)
(***************************************************************************)

\* The types; records have different identifiers, a call about to update has
\* found one, and a call that does nothing is for a supplier without a driver.
TypeOK ==
  /\ t \in T /\ recordType \in Types
  /\ zone \subseteq Record /\ next \in 0..MaxId
  /\ \A r \in zone : r.id <= next
  /\ \A r, q \in zone : r.id = q.id => r = q
  /\ call \in [Call -> [at : {"idle", "none", "client", "zone", "find", "create", "update"},
                        value : Value \cup {None}, ttl : Ttl \cup {None},
                        found : (1..MaxId) \cup {None}]]
  /\ \A c \in Call : /\ call[c].at = "update" <=> call[c].found # None
                     /\ IF call[c].at = "idle" THEN call[c] = Idle
                        ELSE call[c].value \in Value /\ call[c].ttl \in Ttl
                     /\ call[c].at = "none" => t \notin Driver
  /\ answer \in [Call -> {"none", "ok", "error"}]
  /\ overlapped \subseteq Call

\* A unique name has one record at most.
UniqueIsOne == recordType \in Unique => \A r, q \in zone : r = q

\* What a call that is alone has found, or not found, is still so.
AloneIsRight ==
  \A c \in Active \ overlapped :
    /\ Active = {c}
    /\ call[c].at = "create" => zone = {}
    /\ call[c].at = "update" => \E r \in zone : r.id = call[c].found

\* What every moment's zone is.
UpsertInv == TypeOK /\ UniqueIsOne /\ AloneIsRight

\* Looking up before creating keeps a name from getting two records: after a
\* lost answer the retry finds what the first try created.  Only two calls
\* at once may create two, and only of a type the supplier lets double.
TwiceOnlyIfOverlapped ==
  [][Cardinality(zone) <= 1 /\ Cardinality(zone') > 1 =>
       \E c \in overlapped : call[c].at = "create"]_vars

\* A call that succeeds leaves the record as wished at that moment, whatever it
\* overlaps, where the program knows the supplier.
SuccessIsVisible ==
  [][\A c \in Call :
       /\ call[c].at # "idle" /\ call'[c].at = "idle"
       /\ answer'[c] = "ok" /\ t \in Driver
       => \E r \in zone' : AsWished(c, r)]_vars

\* A unique record of a supplier the program knows is a register; any other is
\* mapped to one that nobody uses.
Atomic == recordType \in Unique /\ t \in Driver

Register == INSTANCE DnsRegister WITH
  reg <- IF Atomic /\ \E r \in zone : TRUE THEN (CHOOSE r \in zone : TRUE).value ELSE None,
  want <- [c \in Call |-> IF Atomic THEN call[c].value ELSE None],
  answer <- [c \in Call |-> IF Atomic THEN answer[c] ELSE "none"]

\* So upserts of it are atomic, whatever they overlap and whichever fail.
RegisterSpec == Register!Spec
==============================================================================
