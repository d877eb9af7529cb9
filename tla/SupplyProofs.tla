----------------------------- MODULE SupplyProofs -----------------------------
(***************************************************************************)
(* Theorems about the records (DnsUpsert) and the certificates             *)
(* (DomainCert) of domains at their suppliers, about the CDN drivers       *)
(* (CdnDeploy) and about a zone's rules at cloudflare (CfRules).           *)
(***************************************************************************)
EXTENDS Supply, Sequences, FiniteSetTheorems, TLAPS

(***************************************************************************)
(* The records of a name (DnsUpsert).                                      *)
(***************************************************************************)
CallType == [at : {"idle", "none", "client", "zone", "find", "create", "update"},
             value : Value \cup {None}, ttl : Ttl \cup {None},
             found : (1..MaxId) \cup {None}]

LEMMA CallFields ==
  ASSUME Dns!TypeOK, NEW c \in Req
  PROVE  /\ call \in [Req -> CallType] /\ call[c] \in CallType
         /\ call[c].at = "update" <=> call[c].found # None
         /\ call[c].at = "idle" => call[c] = Dns!Idle
         /\ call[c].at = "none" => t \notin Dns!Driver
         /\ call[c].at # "idle" => call[c].value \in Value /\ call[c].ttl \in Ttl
  BY DEF Dns!TypeOK, CallType

LEMMA IdleCall ==
  /\ Dns!Idle.at = "idle" /\ Dns!Idle.value = None /\ Dns!Idle.found = None
  /\ Dns!Idle \in CallType
  BY DEF Dns!Idle, CallType

LEMMA FirstIsNoWrite ==
  /\ Dns!First \in {"none", "client", "zone", "find"}
  /\ Dns!First = "none" => t \notin Dns!Driver
  BY DEF Dns!First, Dns!Driver

\* Every step is one of these.
DriverStep(c) == \/ Dns!NoDriver(c)
                 \/ Dns!Look(c, "client", "zone") \/ Dns!Look(c, "zone", "find")
                 \/ Dns!Find(c) \/ Dns!addRecord(c) \/ Dns!updateRecord(c)

LEMMA Steps ==
  ASSUME Dns!Next
  PROVE  \/ \E c \in Req, v \in Value, l \in Ttl : Dns!DnsUpsertRecord(c, v, l)
         \/ \E c \in Req : DriverStep(c)
         \/ Dns!Console
<1>1. ASSUME NEW c \in Req, Dns!AliUpsertRecord(c) PROVE DriverStep(c)
  BY <1>1 DEF Dns!AliUpsertRecord, Dns!findRecord, Dns!Write, DriverStep
<1>2. ASSUME NEW c \in Req, Dns!UpsertCFRecord(c) PROVE DriverStep(c)
  BY <1>2 DEF Dns!UpsertCFRecord, Dns!getCFZoneID, Dns!findCFRecord, Dns!Write, DriverStep
<1>3. ASSUME NEW c \in Req, Dns!UpsertHuaweiDNSRecord(c) PROVE DriverStep(c)
  BY <1>3 DEF Dns!UpsertHuaweiDNSRecord, Dns!newHuaweiDNSClient, Dns!getHuaweiDNSZoneID,
              Dns!findHuaweiRecordSet, Dns!Write, DriverStep
<1>4. ASSUME NEW c \in Req, Dns!UpsertTencentDNSRecord(c) PROVE DriverStep(c)
  BY <1>4 DEF Dns!UpsertTencentDNSRecord, Dns!DescribeRecordList, Dns!Write, DriverStep
<1>5. ASSUME NEW c \in Req, Dns!UpsertUCloudDNSRecord(c) PROVE DriverStep(c)
  BY <1>5 DEF Dns!UpsertUCloudDNSRecord, Dns!getUCloudDNSZoneID, Dns!findUCloudDNSRecord,
              Dns!Write, DriverStep
<1>6. ASSUME NEW c \in Req, Dns!NoDriver(c) PROVE DriverStep(c)
  BY <1>6 DEF DriverStep
<1> QED
  BY <1>1, <1>2, <1>3, <1>4, <1>5, <1>6 DEF Dns!Next

\* A call that goes on without touching the zone knows what it must.
LEMMA MoveInv ==
  ASSUME Dns!UpsertInv, NEW c \in Req, NEW k \in CallType,
         call[c].at # "idle",
         call' = [call EXCEPT ![c] = k],
         k.at = "update" <=> k.found # None,
         k.at \notin {"idle", "none"}, k.value \in Value, k.ttl \in Ttl,
         k.at = "create" => zone = {},
         k.at = "update" => \E r \in zone : r.id = k.found,
         answer' \in [Req -> {"none", "ok", "error"}],
         UNCHANGED <<t, recordType, zone, next, overlapped>>
  PROVE  Dns!UpsertInv'
<1>1. Dns!TypeOK /\ call \in [Req -> CallType]
  BY CallFields DEF Dns!UpsertInv
<1>2. \A d \in Req : call'[d] = IF d = c THEN k ELSE call[d]
  BY <1>1
<1>3. call' \in [Req -> CallType]
  BY <1>1
<1>4. Dns!TypeOK'
  BY <1>1, <1>2, <1>3 DEF Dns!TypeOK, CallType, Dns!Idle
<1>5. Dns!AloneIsRight'
  <2> SUFFICES ASSUME NEW d \in Dns!Active', d \notin overlapped'
               PROVE  /\ Dns!Active' = {d}
                      /\ call'[d].at = "create" => zone' = {}
                      /\ call'[d].at = "update" => \E r \in zone' : r.id = call'[d].found
    BY DEF Dns!AloneIsRight
  <2>1. c \in Dns!Active /\ Dns!Active' \subseteq Dns!Active
    BY <1>2 DEF Dns!Active
  <2>2. Dns!Active = {d} /\ d = c
    BY <2>1 DEF Dns!UpsertInv, Dns!AloneIsRight
  <2>3. Dns!Active' = {d}
    BY <2>1, <2>2
  <2> QED
    BY <1>2, <2>2, <2>3
<1> QED
  BY <1>4, <1>5 DEF Dns!UpsertInv, Dns!UniqueIsOne

\* A call that ends may leave any zone of good records: it was alone, or marked.
LEMMA ReturnInv ==
  ASSUME Dns!UpsertInv, NEW c \in Req, NEW a \in {"ok", "error"},
         call[c].at # "idle", Dns!Return(c, a),
         UNCHANGED <<t, recordType, overlapped>>,
         zone' \subseteq Dns!Record, next' \in 0..MaxId,
         \A r \in zone' : r.id <= next',
         \A r, q \in zone' : r.id = q.id => r = q,
         Dns!UniqueIsOne'
  PROVE  Dns!UpsertInv'
<1>1. Dns!TypeOK /\ call \in [Req -> CallType]
  BY CallFields DEF Dns!UpsertInv
<1>2. \A d \in Req : call'[d] = IF d = c THEN Dns!Idle ELSE call[d]
  BY <1>1 DEF Dns!Return
<1>3. call' \in [Req -> CallType] /\ answer' \in [Req -> {"none", "ok", "error"}]
  BY <1>1, IdleCall DEF Dns!Return, Dns!TypeOK
<1>4. Dns!TypeOK'
  BY <1>1, <1>2, <1>3, IdleCall DEF Dns!TypeOK, CallType, Dns!Idle
<1>5. Dns!AloneIsRight'
  <2>1. c \in Dns!Active /\ Dns!Active' \subseteq Dns!Active \ {c}
    BY <1>2, IdleCall DEF Dns!Active
  <2>2. \A d \in Dns!Active \ overlapped : d = c
    BY <2>1 DEF Dns!UpsertInv, Dns!AloneIsRight
  <2>3. Dns!Active' \ overlapped' = {}
    BY <2>1, <2>2
  <2> QED
    BY <2>3 DEF Dns!AloneIsRight
<1> QED
  BY <1>4, <1>5 DEF Dns!UpsertInv

LEMMA StaysInv ==
  ASSUME Dns!UpsertInv, NEW c \in Req, NEW a \in {"ok", "error"},
         call[c].at # "idle", Dns!Return(c, a),
         UNCHANGED <<t, recordType, zone, next, overlapped>>
  PROVE  Dns!UpsertInv'
  BY ReturnInv DEF Dns!UpsertInv, Dns!TypeOK, Dns!UniqueIsOne

LEMMA BeginInv ==
  ASSUME Dns!UpsertAssumption, Dns!UpsertInv,
         NEW c \in Req, NEW v \in Value, NEW l \in Ttl, Dns!DnsUpsertRecord(c, v, l)
  PROVE  Dns!UpsertInv'
<1> DEFINE k == [at |-> Dns!First, value |-> v, ttl |-> l, found |-> None]
<1>1. Dns!TypeOK /\ call \in [Req -> CallType]
  BY CallFields DEF Dns!UpsertInv
<1>2. k \in CallType /\ k.at # "idle" /\ k.at # "update" /\ k.at # "create"
  BY FirstIsNoWrite DEF CallType
<1>3. call' = [call EXCEPT ![c] = k]
  BY DEF Dns!DnsUpsertRecord
<1> HIDE DEF k
<1>4. \A d \in Req : call'[d] = IF d = c THEN k ELSE call[d]
  BY <1>1, <1>3
<1>5. k.value = v /\ k.found = None /\ k.at = Dns!First /\ v # None
  BY DEF k, Dns!UpsertAssumption
<1>6. Dns!TypeOK'
  <2>1. call' \in [Req -> CallType]
    BY <1>1, <1>2, <1>3
  <2>2. overlapped' \subseteq Req
    BY <1>1 DEF Dns!TypeOK, Dns!DnsUpsertRecord, Dns!Active
  <2> QED
    BY <1>1, <1>2, <1>4, <1>5, <2>1, <2>2, FirstIsNoWrite
       DEF Dns!TypeOK, Dns!DnsUpsertRecord, CallType, Dns!Idle
<1>7. Dns!AloneIsRight'
  <2>1. Dns!Active' = Dns!Active \cup {c}
    BY <1>2, <1>4 DEF Dns!Active
  <2>2. CASE Dns!Active = {}
    BY <1>2, <1>4, <2>1, <2>2 DEF Dns!AloneIsRight
  <2>3. CASE Dns!Active # {}
    <3>1. Dns!Active' \ overlapped' = {}
      BY <2>1, <2>3 DEF Dns!DnsUpsertRecord
    <3> QED
      BY <3>1 DEF Dns!AloneIsRight
  <2> QED
    BY <2>2, <2>3
<1> QED
  BY <1>6, <1>7 DEF Dns!UpsertInv, Dns!UniqueIsOne, Dns!DnsUpsertRecord

LEMMA LookInv ==
  ASSUME Dns!UpsertInv, NEW c \in Req, NEW from \in {"client", "zone"},
         NEW to \in {"zone", "find"}, Dns!Look(c, from, to)
  PROVE  Dns!UpsertInv'
<1>1. CASE Dns!Return(c, "error")
  BY <1>1, StaysInv DEF Dns!Look
<1>2. CASE Dns!Becomes(c, to)
  <2> DEFINE k == [call[c] EXCEPT !.at = to]
  <2>1. Dns!TypeOK /\ call[c] \in CallType /\ call[c].at = from
    BY CallFields DEF Dns!UpsertInv, Dns!Look
  <2>2. k \in CallType /\ k.at = to /\ k.value = call[c].value /\ k.found = call[c].found
    BY <2>1 DEF CallType
  <2>3. call' = [call EXCEPT ![c] = k]
    BY <1>2 DEF Dns!Becomes
  <2>4. call[c].found = None /\ k.value \in Value /\ k.ttl \in Ttl
    BY <2>1, CallFields DEF Dns!UpsertInv, CallType
  <2>5. answer' \in [Req -> {"none", "ok", "error"}]
    BY <1>2, <2>1 DEF Dns!Becomes, Dns!TypeOK
  <2> HIDE DEF k
  <2> QED
    BY <2>1, <2>2, <2>3, <2>4, <2>5, MoveInv DEF Dns!Look
<1> QED
  BY <1>1, <1>2 DEF Dns!Look

LEMMA FindInv ==
  ASSUME Dns!UpsertAssumption, Dns!UpsertInv, NEW c \in Req, Dns!Find(c)
  PROVE  Dns!UpsertInv'
<1>1. /\ Dns!TypeOK /\ call[c] \in CallType /\ call[c].at = "find"
      /\ call[c].found = None /\ call[c].value \in Value /\ call[c].ttl \in Ttl
  BY CallFields DEF Dns!UpsertInv, Dns!Find, Dns!FindWith
<1>2. CASE Dns!Return(c, "error") \/ Dns!Return(c, "ok")
  BY <1>1, <1>2, StaysInv DEF Dns!Find, Dns!FindWith
<1>3. CASE zone = {} /\ Dns!Becomes(c, "create")
  <2> DEFINE k == [call[c] EXCEPT !.at = "create"]
  <2>1. /\ k \in CallType /\ k.at = "create" /\ k.found = None
        /\ k.value \in Value /\ k.ttl \in Ttl
    BY <1>1 DEF CallType
  <2>2. call' = [call EXCEPT ![c] = k] /\ answer' \in [Req -> {"none", "ok", "error"}]
    BY <1>1, <1>3 DEF Dns!Becomes, Dns!TypeOK
  <2> HIDE DEF k
  <2> QED
    BY <1>1, <1>3, <2>1, <2>2, MoveInv DEF Dns!Find, Dns!FindWith
<1>4. ASSUME NEW r \in zone, UNCHANGED answer,
             call' = [call EXCEPT ![c].at = "update", ![c].found = r.id]
      PROVE  Dns!UpsertInv'
  <2> DEFINE k == [call[c] EXCEPT !.at = "update", !.found = r.id]
  <2>1. r.id \in 1..MaxId /\ r.id # None
    BY <1>1 DEF Dns!TypeOK, Dns!Record, Dns!UpsertAssumption
  <2>2. /\ k \in CallType /\ k.at = "update" /\ k.found = r.id
        /\ k.value \in Value /\ k.ttl \in Ttl
    BY <1>1, <2>1 DEF CallType
  <2>3. call' = [call EXCEPT ![c] = k] /\ answer' \in [Req -> {"none", "ok", "error"}]
    BY <1>1, <1>4 DEF Dns!TypeOK
  <2> HIDE DEF k
  <2> QED
    BY <1>1, <2>1, <2>2, <2>3, MoveInv DEF Dns!Find, Dns!FindWith
<1> QED
  BY <1>2, <1>3, <1>4 DEF Dns!Find, Dns!FindWith

LEMMA AddInv ==
  ASSUME Dns!UpsertAssumption, Dns!UpsertInv, NEW c \in Req, Dns!addRecord(c)
  PROVE  Dns!UpsertInv'
<1>1. /\ Dns!TypeOK /\ call[c] \in CallType /\ call[c].at = "create"
      /\ call[c].value \in Value /\ call[c].ttl \in Ttl
  BY CallFields DEF Dns!UpsertInv, Dns!addRecord
<1>2. CASE Dns!Refused(c)
  BY <1>1, <1>2, StaysInv DEF Dns!addRecord, Dns!Refused
<1>3. CASE Dns!addRecord(c) /\ ~Dns!Refused(c)
  <2> DEFINE new == [id |-> next + 1, value |-> call[c].value, ttl |-> call[c].ttl]
  <2>1. /\ next < MaxId /\ next' = next + 1 /\ zone' = zone \cup {new}
        /\ recordType \in Dns!Unique => zone = {}
        /\ Dns!Applied(c) /\ UNCHANGED <<t, recordType, overlapped>>
    BY <1>3 DEF Dns!addRecord
  <2>2. new \in Dns!Record /\ next + 1 \in 0..MaxId
    BY <1>1, <2>1 DEF Dns!TypeOK, Dns!Record, Dns!UpsertAssumption, CallType
  <2>3. zone' \subseteq Dns!Record
    BY <1>1, <2>1, <2>2 DEF Dns!TypeOK
  <2>4. \A r \in zone : r.id \in 1..MaxId /\ r.id <= next /\ r.id # next + 1
    BY <1>1 DEF Dns!TypeOK, Dns!Record, Dns!UpsertAssumption
  <2>5. \A r \in zone' : r.id <= next'
    BY <1>1, <2>1, <2>4 DEF Dns!TypeOK, Dns!UpsertAssumption
  <2>6. \A r, q \in zone' : r.id = q.id => r = q
    BY <1>1, <2>1, <2>4 DEF Dns!TypeOK
  <2>7. Dns!UniqueIsOne'
    BY <2>1 DEF Dns!UniqueIsOne
  <2> HIDE DEF new
  <2> QED
    BY <1>1, <2>1, <2>2, <2>3, <2>5, <2>6, <2>7, ReturnInv DEF Dns!Applied
<1> QED
  BY <1>2, <1>3

LEMMA UpdateInv ==
  ASSUME Dns!UpsertAssumption, Dns!UpsertInv, NEW c \in Req, Dns!updateRecord(c)
  PROVE  Dns!UpsertInv'
<1>1. /\ Dns!TypeOK /\ call[c] \in CallType /\ call[c].at = "update"
      /\ call[c].value \in Value /\ call[c].ttl \in Ttl
  BY CallFields DEF Dns!UpsertInv, Dns!updateRecord
<1>2. CASE Dns!Refused(c)
  BY <1>1, <1>2, StaysInv DEF Dns!updateRecord, Dns!Refused
<1>3. ASSUME NEW r \in zone, Dns!Applied(c), UNCHANGED next,
             zone' = (zone \ {r}) \cup
                       {[id |-> r.id, value |-> call[c].value, ttl |-> call[c].ttl]}
      PROVE  Dns!UpsertInv'
  <2> DEFINE new == [id |-> r.id, value |-> call[c].value, ttl |-> call[c].ttl]
  <2>1. new \in Dns!Record /\ new.id = r.id
    BY <1>1 DEF Dns!TypeOK, Dns!Record, CallType
  <2>2. zone' = (zone \ {r}) \cup {new}
    BY <1>3
  <2> HIDE DEF new
  <2>3. zone' \subseteq Dns!Record /\ \A q \in zone' : q.id <= next'
    BY <1>1, <1>3, <2>1, <2>2 DEF Dns!TypeOK
  <2>4. \A p, q \in zone' : p.id = q.id => p = q
    BY <1>1, <2>1, <2>2 DEF Dns!TypeOK
  <2>5. Dns!UniqueIsOne'
    BY <2>2 DEF Dns!UpsertInv, Dns!UniqueIsOne, Dns!updateRecord
  <2> QED
    BY <1>1, <1>3, <2>3, <2>4, <2>5, ReturnInv
       DEF Dns!Applied, Dns!TypeOK, Dns!updateRecord
<1> QED
  BY <1>2, <1>3 DEF Dns!updateRecord

LEMMA ConsoleInv == Dns!UpsertInv /\ Dns!Console => Dns!UpsertInv'
<1> SUFFICES ASSUME Dns!UpsertInv, Dns!Console PROVE Dns!UpsertInv'
  OBVIOUS
<1>1. Dns!TypeOK'
  BY DEF Dns!UpsertInv, Dns!TypeOK, Dns!Console, Dns!Active
<1>2. Dns!Active' \ overlapped' = {}
  BY DEF Dns!Active, Dns!Console
<1>3. Dns!AloneIsRight'
  BY <1>2 DEF Dns!AloneIsRight
<1> QED
  BY <1>1, <1>3 DEF Dns!UpsertInv, Dns!UniqueIsOne, Dns!Console

LEMMA UpsertInit == Dns!UpsertAssumption /\ Dns!Init => Dns!UpsertInv
<1> SUFFICES ASSUME Dns!UpsertAssumption, Dns!Init PROVE Dns!UpsertInv
  OBVIOUS
<1>1. zone = {} \/ \E r \in Dns!Record : r.id = 1 /\ zone = {r} /\ next = 1
  BY DEF Dns!Init
<1>2. next \in {0, 1} /\ zone \subseteq Dns!Record /\ \A r, q \in zone : r = q
  BY <1>1 DEF Dns!Init
<1>3. next \in 0..MaxId /\ \A r \in zone : r.id <= next
  BY <1>1, <1>2 DEF Dns!UpsertAssumption, Dns!Record, Dns!Init
<1>4. \A c \in Req : call[c] = Dns!Idle
  BY DEF Dns!Init
<1>5. Dns!TypeOK
  BY <1>2, <1>3, <1>4, IdleCall DEF Dns!Init, Dns!TypeOK, CallType
<1>6. Dns!Active = {}
  BY <1>4, IdleCall DEF Dns!Active
<1> QED
  BY <1>2, <1>5, <1>6 DEF Dns!UpsertInv, Dns!UniqueIsOne, Dns!AloneIsRight

LEMMA UpsertStep ==
  ASSUME Dns!UpsertAssumption, Dns!UpsertInv, [Dns!Next]_(Dns!vars)
  PROVE  Dns!UpsertInv'
<1>1. CASE Dns!Next
  <2>1. ASSUME NEW c \in Req, NEW v \in Value, NEW l \in Ttl, Dns!DnsUpsertRecord(c, v, l)
        PROVE  Dns!UpsertInv'
    BY <2>1, BeginInv
  <2>2. ASSUME NEW c \in Req, Dns!NoDriver(c) PROVE Dns!UpsertInv'
    BY <2>2, StaysInv DEF Dns!NoDriver
  <2>3. ASSUME NEW c \in Req, Dns!Look(c, "client", "zone") \/ Dns!Look(c, "zone", "find")
        PROVE  Dns!UpsertInv'
    BY <2>3, LookInv
  <2>4. ASSUME NEW c \in Req, Dns!Find(c) PROVE Dns!UpsertInv'
    BY <2>4, FindInv
  <2>5. ASSUME NEW c \in Req, Dns!addRecord(c) \/ Dns!updateRecord(c)
        PROVE  Dns!UpsertInv'
    BY <2>5, AddInv, UpdateInv
  <2> QED
    BY <1>1, <2>1, <2>2, <2>3, <2>4, <2>5, ConsoleInv, Steps DEF DriverStep
<1>2. CASE UNCHANGED Dns!vars
  BY <1>2 DEF Dns!vars, Dns!UpsertInv, Dns!TypeOK, Dns!UniqueIsOne, Dns!AloneIsRight,
              Dns!Active
<1> QED
  BY <1>1, <1>2

\* The zone of a name: the identifiers of its records differ, a unique name has one
\* record at most, and a call that nothing came between has found what is there.
THEOREM UpsertsKeepTheZone == Dns!Spec => []UpsertInv
<1>1. Dns!Init => Dns!UpsertInv
  BY SupplyAssumption, UpsertInit
<1>2. Dns!UpsertInv /\ [Dns!Next]_(Dns!vars) => Dns!UpsertInv'
  BY SupplyAssumption, UpsertStep
<1> QED
  BY <1>1, <1>2, PTL DEF Dns!Spec, UpsertInv

(***************************************************************************)
(* A unique record is a register (DnsRegister).                            *)
(***************************************************************************)
reg == IF Dns!Atomic /\ \E r \in zone : TRUE THEN (CHOOSE r \in zone : TRUE).value ELSE None
want == [c \in Req |-> IF Dns!Atomic THEN call[c].value ELSE None]
done == [c \in Req |-> IF Dns!Atomic THEN answer[c] ELSE "none"]

\* A step of a record that is one.
AtomicStep == Dns!Atomic /\ Dns!Atomic'

LEMMA OneRecord == ASSUME Dns!Atomic, NEW r, zone = {r} PROVE reg = r.value
  BY DEF reg

LEMMA OneRecordNext == ASSUME Dns!Atomic', NEW r, zone' = {r} PROVE reg' = r.value
  BY DEF reg

LEMMA NoRecordNext == zone' = {} => reg' = None
  BY DEF reg

LEMMA WantNext ==
  ASSUME AtomicStep, Dns!TypeOK, NEW c \in Req, NEW k, call' = [call EXCEPT ![c] = k]
  PROVE  want' = [want EXCEPT ![c] = k.value]
  BY DEF AtomicStep, Dns!TypeOK, want

LEMMA SameRegister ==
  /\ AtomicStep /\ UNCHANGED zone => UNCHANGED reg
  /\ AtomicStep /\ UNCHANGED answer => UNCHANGED done
  BY DEF AtomicStep, reg, done

LEMMA WantIs == ASSUME Dns!Atomic, NEW c \in Req PROVE want[c] = call[c].value
  BY DEF want

LEMMA UniqueZone ==
  ASSUME Dns!UpsertInv, Dns!Atomic
  PROVE  \A r \in zone : zone = {r}
  BY DEF Dns!Atomic, Dns!UpsertInv, Dns!TypeOK, Dns!UniqueIsOne

\* What ends in one step, ends so in the register.
LEMMA EndEnds ==
  ASSUME Dns!UpsertAssumption, Dns!UpsertInv, AtomicStep, NEW c \in Req, NEW a,
         call[c].at # "idle", Dns!Return(c, a)
  PROVE  Dns!Register!End(c, a)
<1>1. Dns!TypeOK /\ call[c].value \in Value /\ None \notin Value
  BY CallFields DEF Dns!UpsertInv, Dns!UpsertAssumption
<1>2. want[c] # None
  BY <1>1, WantIs DEF AtomicStep
<1>3. want' = [want EXCEPT ![c] = None]
  BY <1>1, WantNext, IdleCall DEF Dns!Return
<1>4. done' = [done EXCEPT ![c] = a]
  BY <1>1 DEF Dns!Return, AtomicStep, Dns!TypeOK, done
<1> QED
  BY <1>2, <1>3, <1>4 DEF Dns!Register!End, want, done

LEMMA ErrorFails ==
  ASSUME Dns!UpsertAssumption, Dns!UpsertInv, AtomicStep, NEW c \in Req,
         call[c].at # "idle", Dns!Return(c, "error"), UNCHANGED zone
  PROVE  Dns!Register!Fail(c)
<1>1. UNCHANGED reg
  BY SameRegister
<1> QED
  BY <1>1, EndEnds DEF Dns!Register!Fail, reg

LEMMA AppliedSets ==
  ASSUME Dns!UpsertAssumption, Dns!UpsertInv, AtomicStep, NEW c \in Req, NEW r,
         call[c].at # "idle", Dns!Applied(c), zone' = {r}, r.value = call[c].value
  PROVE  Dns!Register!Set(c)
<1>1. reg' = want[c]
  BY OneRecordNext, WantIs DEF AtomicStep
<1>2. Dns!Register!End(c, "ok") \/ Dns!Register!End(c, "error")
  BY EndEnds DEF Dns!Applied
<1> QED
  BY <1>1, <1>2 DEF Dns!Register!Set, reg, want

LEMMA BeginBegins ==
  ASSUME Dns!UpsertInv, AtomicStep, NEW c \in Req, NEW v \in Value, NEW l \in Ttl,
         Dns!DnsUpsertRecord(c, v, l)
  PROVE  Dns!Register!Begin(c, v)
<1> DEFINE k == [at |-> Dns!First, value |-> v, ttl |-> l, found |-> None]
<1>1. Dns!TypeOK /\ call' = [call EXCEPT ![c] = k] /\ k.value = v
  BY DEF Dns!UpsertInv, Dns!DnsUpsertRecord
<1> HIDE DEF k
<1>2. want' = [want EXCEPT ![c] = v]
  BY <1>1, WantNext
<1>3. want[c] = None
  BY IdleCall, WantIs DEF Dns!DnsUpsertRecord, AtomicStep
<1>4. UNCHANGED <<reg, done>>
  BY SameRegister DEF Dns!DnsUpsertRecord
<1> QED
  BY <1>2, <1>3, <1>4 DEF Dns!Register!Begin, reg, want, done

\* A call that goes on changes nothing the register knows of.
LEMMA MoveStutters ==
  ASSUME Dns!UpsertInv, AtomicStep, NEW c \in Req, NEW k, k.value = call[c].value,
         call' = [call EXCEPT ![c] = k], UNCHANGED <<zone, answer>>
  PROVE  UNCHANGED Dns!Register!vars
<1>1. want' = [want EXCEPT ![c] = want[c]]
  BY WantNext, WantIs DEF Dns!UpsertInv, AtomicStep
<1>2. want' = want
  BY <1>1 DEF want
<1>3. UNCHANGED <<reg, done>>
  BY SameRegister
<1> QED
  BY <1>2, <1>3 DEF Dns!Register!vars, reg, want, done

LEMMA LookMaps ==
  ASSUME Dns!UpsertAssumption, Dns!UpsertInv, AtomicStep, NEW c \in Req,
         NEW from \in {"client", "zone"}, NEW to, Dns!Look(c, from, to)
  PROVE  Dns!Register!Fail(c) \/ UNCHANGED Dns!Register!vars
<1>1. CASE Dns!Return(c, "error")
  BY <1>1, ErrorFails DEF Dns!Look
<1>2. CASE Dns!Becomes(c, to)
  <2> DEFINE k == [call[c] EXCEPT !.at = to]
  <2>1. call[c] \in CallType
    BY CallFields DEF Dns!UpsertInv
  <2>2. k.value = call[c].value /\ call' = [call EXCEPT ![c] = k]
    BY <1>2, <2>1 DEF Dns!Becomes, CallType
  <2> HIDE DEF k
  <2> QED
    BY <1>2, <2>2, MoveStutters DEF Dns!Becomes, Dns!Look
<1> QED
  BY <1>1, <1>2 DEF Dns!Look

LEMMA FindMaps ==
  ASSUME Dns!UpsertAssumption, Dns!UpsertInv, AtomicStep, NEW c \in Req, Dns!Find(c)
  PROVE  \/ Dns!Register!Fail(c) \/ Dns!Register!Found(c)
         \/ UNCHANGED Dns!Register!vars
<1>1. call[c] \in CallType /\ call[c].at = "find" /\ UNCHANGED zone
  BY CallFields DEF Dns!UpsertInv, Dns!Find, Dns!FindWith
<1>2. CASE Dns!Return(c, "error")
  BY <1>1, <1>2, ErrorFails
<1>3. CASE Dns!Becomes(c, "create")
  <2> DEFINE k == [call[c] EXCEPT !.at = "create"]
  <2>1. k.value = call[c].value /\ call' = [call EXCEPT ![c] = k]
    BY <1>1, <1>3 DEF Dns!Becomes, CallType
  <2> HIDE DEF k
  <2> QED
    BY <1>1, <1>3, <2>1, MoveStutters DEF Dns!Becomes
<1>4. ASSUME NEW r \in zone, Dns!AsWished(c, r), Dns!Return(c, "ok")
      PROVE  Dns!Register!Found(c)
  <2>1. reg = want[c]
    BY <1>4, UniqueZone, OneRecord, WantIs DEF Dns!AsWished, AtomicStep
  <2>2. Dns!Register!End(c, "ok") /\ UNCHANGED reg
    BY <1>1, <1>4, EndEnds, SameRegister
  <2> QED
    BY <2>1, <2>2 DEF Dns!Register!Found, reg, want
<1>5. ASSUME NEW r \in zone, UNCHANGED answer,
             call' = [call EXCEPT ![c].at = "update", ![c].found = r.id]
      PROVE  UNCHANGED Dns!Register!vars
  <2> DEFINE k == [call[c] EXCEPT !.at = "update", !.found = r.id]
  <2>1. k.value = call[c].value /\ call' = [call EXCEPT ![c] = k]
    BY <1>1, <1>5 DEF CallType
  <2> HIDE DEF k
  <2> QED
    BY <1>1, <1>5, <2>1, MoveStutters
<1> QED
  BY <1>2, <1>3, <1>4, <1>5 DEF Dns!Find, Dns!FindWith

LEMMA WriteMaps ==
  ASSUME Dns!UpsertAssumption, Dns!UpsertInv, AtomicStep, NEW c \in Req,
         Dns!addRecord(c) \/ Dns!updateRecord(c)
  PROVE  Dns!Register!Fail(c) \/ Dns!Register!Set(c)
<1>1. call[c].at # "idle" /\ recordType \in Dns!Unique
  BY DEF Dns!addRecord, Dns!updateRecord, AtomicStep, Dns!Atomic
<1>2. CASE Dns!Refused(c)
  BY <1>1, <1>2, ErrorFails DEF Dns!Refused
<1>3. CASE Dns!addRecord(c) /\ ~Dns!Refused(c)
  <2> DEFINE new == [id |-> next', value |-> call[c].value, ttl |-> call[c].ttl]
  <2>1. Dns!Applied(c) /\ zone' = {new} /\ new.value = call[c].value
    BY <1>1, <1>3 DEF Dns!addRecord
  <2> HIDE DEF new
  <2> QED
    BY <1>1, <2>1, AppliedSets
<1>4. CASE Dns!updateRecord(c) /\ ~Dns!Refused(c)
  <2>1. PICK r \in zone :
          /\ zone' = (zone \ {r}) \cup
                       {[id |-> r.id, value |-> call[c].value, ttl |-> call[c].ttl]}
          /\ Dns!Applied(c)
    BY <1>4 DEF Dns!updateRecord
  <2> DEFINE new == [id |-> r.id, value |-> call[c].value, ttl |-> call[c].ttl]
  <2>2. zone' = {new} /\ new.value = call[c].value
    BY <2>1, UniqueZone DEF AtomicStep
  <2> HIDE DEF new
  <2> QED
    BY <1>1, <2>1, <2>2, AppliedSets
<1> QED
  BY <1>2, <1>3, <1>4

LEMMA ConsoleMaps ==
  ASSUME Dns!UpsertInv, AtomicStep, Dns!Console
  PROVE  Dns!Register!Console
<1>1. zone' = {}
  BY UniqueZone DEF Dns!Console, AtomicStep
<1>2. UNCHANGED <<want, done>>
  BY SameRegister DEF Dns!Console, AtomicStep, want
<1> QED
  BY <1>1, <1>2, NoRecordNext DEF Dns!Register!Console, reg, want, done

LEMMA RegisterInit ==
  ASSUME Dns!UpsertAssumption, Dns!Init
  PROVE  Dns!Register!Init
<1>1. zone = {} \/ \E r \in Dns!Record : zone = {r}
  BY DEF Dns!Init
<1>2. reg \in Value \cup {None}
  <2>1. CASE zone = {} \/ ~Dns!Atomic
    BY <2>1 DEF reg
  <2>2. ASSUME NEW r \in Dns!Record, zone = {r}, Dns!Atomic PROVE reg \in Value
    BY <2>2, OneRecord DEF Dns!Record
  <2> QED
    BY <1>1, <2>1, <2>2
<1>3. want = [c \in Req |-> None]
  BY IdleCall DEF Dns!Init, want
<1>4. done = [c \in Req |-> "none"]
  BY DEF Dns!Init, done
<1> QED
  BY <1>2, <1>3, <1>4 DEF Dns!Register!Init, reg, want, done

LEMMA RegisterStep ==
  ASSUME Dns!UpsertAssumption, Dns!UpsertInv, [Dns!Next]_(Dns!vars)
  PROVE  [Dns!Register!Next]_(Dns!Register!vars)
<1>1. UNCHANGED <<t, recordType>>
  BY Steps DEF DriverStep, Dns!vars, Dns!DnsUpsertRecord, Dns!NoDriver, Dns!Look, Dns!Find,
               Dns!FindWith, Dns!addRecord, Dns!updateRecord, Dns!Console
<1>2. AtomicStep \/ (~Dns!Atomic /\ ~Dns!Atomic')
  BY <1>1 DEF AtomicStep, Dns!Atomic
<1>3. CASE ~Dns!Atomic /\ ~Dns!Atomic'
  <2>1. UNCHANGED <<reg, want, done>>
    BY <1>3 DEF reg, want, done
  <2> QED
    BY <2>1 DEF Dns!Register!vars, reg, want, done
<1>4. CASE AtomicStep /\ UNCHANGED Dns!vars
  <2>1. UNCHANGED <<reg, want, done>>
    BY <1>4, SameRegister DEF Dns!vars, AtomicStep, want
  <2> QED
    BY <2>1 DEF Dns!Register!vars, reg, want, done
<1>5. CASE AtomicStep /\ Dns!Next
  <2>1. ASSUME NEW c \in Req, NEW v \in Value, NEW l \in Ttl, Dns!DnsUpsertRecord(c, v, l)
        PROVE  Dns!Register!Next
    <3>1. Dns!Register!Begin(c, v)
      BY <1>5, <2>1, BeginBegins
    <3> QED
      BY <3>1 DEF Dns!Register!Next
  <2>2. ASSUME NEW c \in Req PROVE ~Dns!NoDriver(c)
    BY <1>5, CallFields DEF Dns!NoDriver, Dns!UpsertInv, AtomicStep, Dns!Atomic
  <2>3. ASSUME NEW c \in Req, \/ Dns!Look(c, "client", "zone") \/ Dns!Look(c, "zone", "find")
                               \/ Dns!Find(c) \/ Dns!addRecord(c) \/ Dns!updateRecord(c)
        PROVE  [Dns!Register!Next]_(Dns!Register!vars)
    <3>1. \/ Dns!Register!Fail(c) \/ Dns!Register!Found(c) \/ Dns!Register!Set(c)
          \/ UNCHANGED Dns!Register!vars
      BY <1>5, <2>3, LookMaps, FindMaps, WriteMaps
    <3> QED
      BY <3>1 DEF Dns!Register!Next
  <2>4. Dns!Console => Dns!Register!Next
    BY <1>5, ConsoleMaps DEF Dns!Register!Next
  <2> QED
    BY <1>5, <2>1, <2>2, <2>3, <2>4, Steps DEF DriverStep
<1> QED
  BY <1>2, <1>3, <1>4, <1>5

\* Upserts of a type a name has once are atomic, at every supplier with a driver, for
\* any number of calls that overlap, fail, or lose their answers.
THEOREM UpsertsAreAtomic == Dns!Spec => RegisterSpec
<1>1. Dns!Init => Dns!Register!Init
  BY SupplyAssumption, RegisterInit
<1>2. Dns!UpsertInv /\ [Dns!Next]_(Dns!vars) => [Dns!Register!Next]_(Dns!Register!vars)
  BY SupplyAssumption, RegisterStep
<1>3. Dns!Spec => []Dns!UpsertInv
  BY UpsertsKeepTheZone DEF UpsertInv
<1> QED
  BY <1>1, <1>2, <1>3, PTL
     DEF Dns!Spec, RegisterSpec, Dns!RegisterSpec, Dns!Register!Spec

(***************************************************************************)
(* What a step may not do to a record.                                     *)
(***************************************************************************)
LEMMA ReturnEnds ==
  ASSUME Dns!TypeOK, NEW c \in Req, NEW d \in Req, NEW a, Dns!Return(d, a),
         call[c].at # "idle", call'[c].at = "idle"
  PROVE  c = d /\ answer'[c] = a
  BY DEF Dns!TypeOK, Dns!Return

LEMMA MoveEndsNone ==
  ASSUME Dns!TypeOK, NEW c \in Req, NEW d \in Req, NEW to, Dns!Becomes(d, to),
         to # "idle", call[c].at # "idle"
  PROVE  call'[c].at # "idle"
<1>1. call \in [Req -> CallType]
  BY CallFields
<1> QED
  BY <1>1 DEF Dns!Becomes, CallType

LEMMA FindSuccess ==
  ASSUME Dns!TypeOK, NEW c \in Req, NEW d \in Req, Dns!Find(d),
         call[c].at # "idle", call'[c].at = "idle", answer'[c] = "ok"
  PROVE  \E r \in zone' : Dns!AsWished(c, r)
<1>1. call \in [Req -> CallType] /\ UNCHANGED zone
  BY CallFields DEF Dns!Find, Dns!FindWith
<1>2. ~Dns!Return(d, "error") /\ ~Dns!Becomes(d, "create")
  BY ReturnEnds, MoveEndsNone
<1>3. PICK r \in zone :
        \/ Dns!AsWished(d, r) /\ Dns!Return(d, "ok")
        \/ call' = [call EXCEPT ![d].at = "update", ![d].found = r.id]
  BY <1>2 DEF Dns!Find, Dns!FindWith
<1>4. call' # [call EXCEPT ![d].at = "update", ![d].found = r.id]
  <2> SUFFICES ASSUME call' = [call EXCEPT ![d].at = "update", ![d].found = r.id]
               PROVE  FALSE
    OBVIOUS
  <2>1. call'[d].at = "update" /\ (c # d => call'[c] = call[c])
    BY <1>1 DEF CallType
  <2> QED
    BY <2>1
<1> QED
  BY <1>1, <1>3, <1>4, ReturnEnds

LEMMA WriteSuccess ==
  ASSUME Dns!TypeOK, NEW c \in Req, NEW d \in Req, Dns!addRecord(d) \/ Dns!updateRecord(d),
         call[c].at # "idle", call'[c].at = "idle", answer'[c] = "ok"
  PROVE  \E r \in zone' : Dns!AsWished(c, r)
<1>1. ~Dns!Refused(d)
  BY ReturnEnds DEF Dns!Refused
<1>2. Dns!Applied(d)
  BY <1>1 DEF Dns!addRecord, Dns!updateRecord
<1>3. c = d
  BY <1>2, ReturnEnds DEF Dns!Applied
<1>4. \E r \in zone' : r.value = call[c].value /\ r.ttl = call[c].ttl
  <2>1. CASE Dns!addRecord(d)
    <3>1. [id |-> next', value |-> call[d].value, ttl |-> call[d].ttl] \in zone'
      BY <1>1, <2>1 DEF Dns!addRecord
    <3> QED
      BY <1>3, <3>1
  <2>2. CASE Dns!updateRecord(d)
    <3>1. \E r : [id |-> r.id, value |-> call[d].value, ttl |-> call[d].ttl] \in zone'
      BY <1>1, <2>2 DEF Dns!updateRecord
    <3> QED
      BY <1>3, <3>1
  <2> QED
    BY <2>1, <2>2
<1> QED
  BY <1>4 DEF Dns!AsWished

\* A call that succeeds leaves the record as wished at that moment, whatever it
\* overlaps, at a supplier with a driver.
THEOREM SuccessLeavesTheRecord == Dns!Spec => Dns!SuccessIsVisible
<1>1. ASSUME Dns!UpsertInv, Dns!Next, NEW c \in Req, t \in Dns!Driver,
             call[c].at # "idle", call'[c].at = "idle", answer'[c] = "ok"
      PROVE  \E r \in zone' : Dns!AsWished(c, r)
  <2>1. Dns!TypeOK
    BY <1>1 DEF Dns!UpsertInv
  <2>2. ASSUME NEW d \in Req, NEW v \in Value, NEW l \in Ttl
        PROVE  ~Dns!DnsUpsertRecord(d, v, l)
    BY <1>1, <2>1, IdleCall DEF Dns!DnsUpsertRecord, Dns!TypeOK
  <2>3. ASSUME NEW d \in Req PROVE ~Dns!NoDriver(d)
    BY <1>1, <2>1, CallFields DEF Dns!NoDriver
  <2>4. ASSUME NEW d \in Req
        PROVE  ~Dns!Look(d, "client", "zone") /\ ~Dns!Look(d, "zone", "find")
    BY <1>1, <2>1, ReturnEnds, MoveEndsNone DEF Dns!Look
  <2>5. ~Dns!Console
    BY <1>1 DEF Dns!Console
  <2> QED
    BY <1>1, <2>1, <2>2, <2>3, <2>4, <2>5, FindSuccess, WriteSuccess, Steps DEF DriverStep
<1>2. Dns!UpsertInv /\ [Dns!Next]_(Dns!vars) =>
        [\A c \in Req :
           /\ call[c].at # "idle" /\ call'[c].at = "idle"
           /\ answer'[c] = "ok" /\ t \in Dns!Driver
           => \E r \in zone' : Dns!AsWished(c, r)]_(Dns!vars)
  BY <1>1
<1>3. Dns!Spec => []Dns!UpsertInv
  BY UpsertsKeepTheZone DEF UpsertInv
<1> QED
  BY <1>2, <1>3, PTL DEF Dns!Spec, Dns!SuccessIsVisible

LEMMA ZoneIsFinite == ASSUME Dns!UpsertAssumption, Dns!TypeOK PROVE IsFiniteSet(zone)
<1> DEFINE f == [r \in zone |-> r.id]
<1>1. f \in Injection(zone, 1..MaxId)
  BY DEF Dns!TypeOK, Dns!Record, Injection, IsInjective
<1>2. IsFiniteSet(1..MaxId)
  BY FS_Interval DEF Dns!UpsertAssumption
<1> QED
  BY <1>1, <1>2, FS_Injection

LEMMA OneOrNone ==
  ASSUME NEW S, IsFiniteSet(S), Cardinality(S) <= 1
  PROVE  \A r \in S : S = {r}
<1>1. Cardinality(S) \in Nat
  BY FS_CardinalityType
<1>2. CASE Cardinality(S) = 0
  BY <1>2, FS_EmptySet
<1>3. CASE Cardinality(S) = 1
  BY <1>3, FS_Singleton
<1> QED
  BY <1>1, <1>2, <1>3

\* A name gets a second record only when a call creates it that overlaps another.
THEOREM SecondRecordTakesTwo == Dns!Spec => Dns!TwiceOnlyIfOverlapped
<1>1. ASSUME Dns!UpsertInv, Dns!Next, Cardinality(zone) <= 1, Cardinality(zone') > 1
      PROVE  \E c \in overlapped : call[c].at = "create"
  <2>1. Dns!TypeOK /\ IsFiniteSet(zone) /\ \A r \in zone : zone = {r}
    BY <1>1, SupplyAssumption, ZoneIsFinite, OneOrNone DEF Dns!UpsertInv
  <2>2. zone' # zone /\ zone' # {} /\ \A r : zone' # {r}
    <3>1. Cardinality(zone) \in Nat
      BY <2>1, FS_CardinalityType
    <3>2. zone' # zone
      BY <1>1, <3>1
    <3>3. zone' # {}
      BY <1>1, FS_EmptySet
    <3>4. ASSUME NEW r, zone' = {r} PROVE FALSE
      <4>1. Cardinality({r}) = 1
        BY FS_Singleton
      <4>2. Cardinality(zone') = 1
        BY <3>4, <4>1
      <4> QED
        BY <1>1, <4>2
    <3> QED
      BY <3>2, <3>3, <3>4
  <2>3. PICK c \in Req : Dns!addRecord(c)
    <3>1. ~Dns!Console
      BY <2>1, <2>2 DEF Dns!Console
    <3>2. ASSUME NEW c \in Req PROVE ~Dns!updateRecord(c)
      BY <2>1, <2>2 DEF Dns!updateRecord, Dns!Refused
    <3> QED
      BY <1>1, <2>2, <3>1, <3>2, Steps
         DEF DriverStep, Dns!DnsUpsertRecord, Dns!NoDriver, Dns!Look, Dns!Find, Dns!FindWith
  <2>4. zone # {} /\ call[c].at = "create"
    BY <2>2, <2>3 DEF Dns!addRecord, Dns!Refused
  <2>5. c \in overlapped
    BY <1>1, <2>4 DEF Dns!UpsertInv, Dns!AloneIsRight, Dns!Active
  <2> QED
    BY <2>4, <2>5
<1>2. Cardinality(zone) = Dns!Cardinality(zone) /\ Cardinality(zone') = Dns!Cardinality(zone')
  BY DEF Cardinality, Dns!Cardinality
<1>3. ASSUME Dns!UpsertInv, [Dns!Next]_(Dns!vars)
      PROVE  [Dns!Cardinality(zone) <= 1 /\ Dns!Cardinality(zone') > 1 =>
                \E c \in overlapped : call[c].at = "create"]_(Dns!vars)
  BY <1>1, <1>2, <1>3
<1>4. Dns!Spec => []Dns!UpsertInv
  BY UpsertsKeepTheZone DEF UpsertInv
<1> QED
  BY <1>3, <1>4, PTL DEF Dns!Spec, Dns!TwiceOnlyIfOverlapped

\* Records of any type: what a success leaves, and what it takes to double one.
THEOREM AnyRecordIsKept == Dns!Spec => AnyRecordIsAsWished
  BY SuccessLeavesTheRecord, SecondRecordTakesTwo DEF AnyRecordIsAsWished

(***************************************************************************)
(* The certificates of a domain (DomainCert).                              *)
(***************************************************************************)
LEMMA Numbers ==
  /\ Life \in Nat /\ Guess \in Nat /\ Renew \in Nat /\ Grace \in Nat /\ MaxDay \in Nat
  /\ Week \in Nat /\ MaxCerts \in Nat /\ MaxFails \in Nat
  /\ Life > 0 /\ Guess < Life /\ Renew <= Life /\ Grace <= MaxDay
  BY CertAssumption

LEMMA Names == "none" \notin Domain /\ "none" \notin Supplier /\ Cdn \cap Proxy = {}
  BY CertAssumption DEF Supplier

LEMMA Nothing ==
  /\ NoCert \in Cert /\ NoCert.until = 0
  /\ NoRow \in Row /\ NoRow.pend = NoCert /\ NoRow.ssl_at = 0
  /\ NoRecord \in RecordType /\ NoRecord.cert = NoCert /\ NoRecord.is = FALSE
  /\ Idle \in ReqType /\ Idle.at = "idle" /\ Idle.d = "none" /\ Idle.cert = NoCert
  /\ CronIdle \in CronType /\ CronIdle.at = "idle" /\ CronIdle.todo = {}
  /\ CronIdle.d = "none" /\ CronIdle.cert = NoCert /\ CronIdle.live = {}
  /\ \A d \in Domain : CronIdle.copy[d] = NoRow
<1> USE Numbers
<1>1. NoCert \in Cert /\ NoCert.until = 0
  BY DEF NoCert, Cert
<1>2. NoRow \in Row /\ NoRow.pend = NoCert /\ NoRow.ssl_at = 0
  BY <1>1 DEF NoRow, Row
<1>3. NoRecord \in RecordType /\ NoRecord.cert = NoCert /\ NoRecord.is = FALSE
  BY <1>1 DEF NoRecord, RecordType
<1>4. Idle \in ReqType /\ Idle.at = "idle" /\ Idle.d = "none" /\ Idle.cert = NoCert
  BY <1>1 DEF Idle, ReqType
<1>5. /\ CronIdle \in CronType /\ CronIdle.at = "idle" /\ CronIdle.todo = {}
      /\ CronIdle.d = "none" /\ CronIdle.cert = NoCert /\ CronIdle.live = {}
      /\ \A d \in Domain : CronIdle.copy[d] = NoRow
  BY <1>1, <1>2 DEF CronIdle, CronType
<1> QED
  BY <1>1, <1>2, <1>3, <1>4, <1>5

\* A step that touches nothing of a domain keeps it consistent.
RequestsSame(d) == \A r \in Req : req[r].d = d \/ req'[r].d = d => req'[r] = req[r]
JobSame(d) ==
  /\ d \in cron'.todo => d \in cron.todo
  /\ d = cron'.d <=> d = cron.d
  /\ d = cron.d => cron'.at = cron.at /\ cron'.cert = cron.cert
  /\ d \in cron.todo \/ d = cron.d =>
       cron'.copy[d] = cron.copy[d] /\ (d \in cron.live => d \in cron'.live)

LEMMA Frame ==
  ASSUME NEW d \in Domain, Consistent(d), RequestsSame(d), JobSame(d),
         UNCHANGED <<today, warned>>,
         server_hosts'[d] = server_hosts[d], tjMap'[d] = tjMap[d],
         issued'[d] = issued[d], uploaded'[d] = uploaded[d], served'[d] = served[d],
         d \in claimed => d \in claimed'
  PROVE  Consistent(d)'
<1> USE DEF Consistent, RequestsSame, JobSame
<1>1. CertificateIsKept(d)'
  <2> SUFFICES ASSUME NEW c \in issued[d] \ uploaded[d]
               PROVE  \/ server_hosts[d].pend = c
                      \/ tjMap[d].cert = c
                      \/ \E r \in Req : req'[r].d = d /\ req'[r].cert = c
                      \/ cron'.d = d /\ cron'.cert = c
    BY DEF CertificateIsKept
  <2> QED
    BY DEF CertificateIsKept
<1>2. RecordedIsServed(d)'
  BY DEF RecordedIsServed
<1>3. RequestFollows(d)'
  BY DEF RequestFollows
<1>4. RecordIsRecent(d)'
  BY DEF RecordIsRecent
<1>5. JobFollows(d)'
  BY DEF JobFollows
<1> QED
  BY <1>1, <1>2, <1>3, <1>4, <1>5

LEMMA CertInit == Init => CertInv
<1> SUFFICES ASSUME Init PROVE CertInv
  OBVIOUS
<1> USE Numbers, Nothing
<1>1. \A d \in Domain : \/ server_hosts[d] = NoRow
                        \/ /\ server_hosts[d] \in Row /\ server_hosts[d].pend = NoCert
                           /\ server_hosts[d].ssl_at \in {Grace + Renew, Grace + Life}
                           /\ server_hosts[d].sup \in Cdn
  <2> TAKE d \in Domain
  <2>1. CASE server_hosts[d] = NoRow
    BY <2>1
  <2>2. ASSUME NEW u \in {Grace + Renew, Grace + Life}, NEW s \in Cdn, NEW b \in BOOLEAN,
               server_hosts[d] = [ssl_at |-> u, pend |-> NoCert, sup |-> s,
                                  renewable |-> b]
        PROVE  /\ server_hosts[d] \in Row /\ server_hosts[d].pend = NoCert
               /\ server_hosts[d].ssl_at \in {Grace + Renew, Grace + Life}
               /\ server_hosts[d].sup \in Cdn
    <3>1. u \in 0..(MaxDay + Life)
      OBVIOUS
    <3> QED
      BY <2>2, <3>1 DEF Row, Supplier
  <2> QED
    BY <2>1, <2>2 DEF Init
<1>2. server_hosts \in [Domain -> Row]
  BY <1>1 DEF Init
<1>3. Typed
  <2>1. today \in Grace..MaxDay
    BY DEF Init
  <2>6. warned \in BOOLEAN /\ ran \in BOOLEAN
    BY DEF Init
  <2>2. served \in [Domain -> Cert]
    <3>1. \A d \in Domain : server_hosts[d].ssl_at \in 0..(MaxDay + Life)
      BY <1>2 DEF Row
    <3> QED
      BY <3>1 DEF Init, Cert
  <2>3. provisioned \in [Domain -> SUBSET Supplier]
    <3>1. \A d \in Domain : {server_hosts[d].sup} \ {"none"} \subseteq Supplier
      BY <1>2 DEF Row
    <3> QED
      BY <3>1 DEF Init
  <2>4. /\ issued \in [Domain -> SUBSET Cert] /\ uploaded \in [Domain -> SUBSET Cert]
        /\ claimed \subseteq Domain /\ disturbed \subseteq Domain
        /\ fails \in [Domain -> 0..MaxFails] /\ warnings \in [Domain -> Nat]
        /\ taken \in [Domain -> SUBSET DayNamed] /\ unsent \in [Domain -> Nat]
    BY DEF Init
  <2>5. /\ tjMap \in [Domain -> RecordType] /\ req \in [Req -> ReqType] /\ cron \in CronType
        /\ seen \in [Domain -> Row]
    BY <1>2 DEF Init
  <2> QED
    BY <1>2, <2>1, <2>2, <2>3, <2>4, <2>5, <2>6 DEF Typed
<1>4. CronWhole /\ \A r \in Req : ReqWhole(req[r])
  BY DEF Init, CronWhole, ReqWhole
<1>5. ASSUME NEW d \in Domain PROVE IssuedOnly(d) /\ Consistent(d)
  <2>1. /\ issued[d] = {} /\ uploaded[d] = {} /\ tjMap[d] = NoRecord /\ seen[d] = server_hosts[d]
        /\ served[d].until = server_hosts[d].ssl_at /\ cron = CronIdle /\ today = Grace
        /\ \A r \in Req : req[r].d # d
    BY Names DEF Init
  <2>2. server_hosts[d].pend = NoCert /\ server_hosts[d].ssl_at <= today + Life
    BY <1>1, <2>1
  <2>3. IssuedOnly(d)
    BY <2>1, <2>2 DEF IssuedOnly, Held
  <2>4. RecordedIsServed(d)
    <3>1. server_hosts[d].ssl_at \in Int
      BY <1>2 DEF Row
    <3> QED
      BY <2>1, <3>1 DEF RecordedIsServed
  <2> QED
    BY <2>1, <2>2, <2>3, <2>4, Names
       DEF Consistent, CertificateIsKept, RequestFollows, RecordIsRecent, JobFollows
<1> QED
  BY <1>3, <1>4, <1>5 DEF CertInv, TypeOK

\* What was issued and set up stays so; with that, what a step does not change stays
\* of its type.
Grows == \A d \in Domain : issued[d] \subseteq issued'[d] /\ provisioned[d] \subseteq provisioned'[d]

LEMMA ReqStays ==
  ASSUME NEW r \in Req, ReqWhole(req[r]), req'[r] = req[r], Grows
  PROVE  ReqWhole(req[r])'
  BY DEF ReqWhole, Grows, Held

LEMMA CronStays ==
  ASSUME CronWhole, cron' = cron, Grows
  PROVE  CronWhole'
  BY DEF CronWhole, Grows, Held

LEMMA OnlyStays ==
  ASSUME NEW d \in Domain, IssuedOnly(d), Typed,
         today' = today, issued'[d] = issued[d], uploaded'[d] = uploaded[d],
         server_hosts'[d] = server_hosts[d], seen'[d] \in {seen[d], server_hosts[d]},
         tjMap'[d] \in {tjMap[d], NoRecord}, provisioned[d] \subseteq provisioned'[d],
         cron'.copy[d] \in {cron.copy[d], server_hosts[d], NoRow}
  PROVE  IssuedOnly(d)'
<1>1. NoRow.pend \in Held(d) /\ NoRow.ssl_at <= today + Life
  BY Nothing, Numbers DEF Held, Typed
<1>2. NoRecord.cert \in Held(d) /\ ~NoRecord.is
  BY Nothing DEF Held
<1> QED
  BY <1>1, <1>2 DEF IssuedOnly, Held

LEMMA InvFacts ==
  ASSUME CertInv
  PROVE  /\ Typed /\ CronWhole /\ \A r \in Req : ReqWhole(req[r])
         /\ \A d \in Domain : IssuedOnly(d)
         /\ \A d \in Domain : d \notin disturbed => Consistent(d)
         /\ today \in Int /\ Life \in Int
         /\ \A r \in Req : req[r] \in ReqType /\ (req[r].at = "idle" => req[r] = Idle)
         /\ \A d \in Domain : /\ server_hosts[d] \in Row /\ server_hosts[d].ssl_at \in Int
                              /\ tjMap[d] \in RecordType /\ served[d].until \in Int
                              /\ \A c \in Held(d) : c \in Cert /\ c.until \in Int
  BY Numbers, Nothing DEF CertInv, TypeOK, Typed, ReqWhole, Row, Cert, Held

LEMMA PostInv ==
  ASSUME CertInv, NEW r \in Req, NEW d \in Domain, NEW s \in Supplier,
         PostServerDomain(r, d, s)
  PROVE  CertInv'
<1> DEFINE k == [at |-> IF tjMap[d].is THEN "obtain" ELSE "provision", d |-> d, sup |-> s,
                 by |-> IF tjMap[d].is THEN tjMap[d].by ELSE s, cert |-> tjMap[d].cert]
<1>1. /\ req' = [req EXCEPT ![r] = k]
      /\ disturbed' = IF \E q \in Req : req[q].d = d THEN disturbed \cup {d} ELSE disturbed
      /\ UNCHANGED <<server_hosts, seen, tjMap, cron, today, warned, ran, issued, served,
                     taken, provisioned, uploaded, claimed, fails, warnings, unsent>>
  BY DEF PostServerDomain, Disturb, table, days, world, reports
<1>2. req[r] = Idle
  BY InvFacts DEF PostServerDomain, Busy
<1>3. tjMap[d].cert \in Cert /\ tjMap[d].cert \in Held(d) /\ (tjMap[d].is => tjMap[d].by \in provisioned[d])
      /\ (~tjMap[d].is => tjMap[d].cert = NoCert) /\ provisioned[d] \subseteq Supplier
  BY InvFacts, Nothing DEF IssuedOnly, RecordType, Typed
<1>4. k \in ReqType /\ k.d = d /\ k.cert = tjMap[d].cert /\ k.at \in {"provision", "obtain"}
  BY <1>3 DEF ReqType
<1>5. ReqWhole(k)
  BY <1>3 DEF ReqWhole
<1> HIDE DEF k
<1>6. \A q \in Req : req'[q] = IF q = r THEN k ELSE req[q]
  BY <1>1, InvFacts DEF Typed
<1>7. Grows /\ Typed'
  BY <1>1, <1>4, InvFacts DEF Typed, Grows
<1>8. TypeOK'
  <2>1. ReqWhole(req[r])'
    BY <1>1, <1>5, <1>6 DEF ReqWhole, Held
  <2> QED
    BY <1>1, <1>6, <1>7, <2>1, InvFacts, ReqStays, CronStays DEF TypeOK
<1>9. \A e \in Domain : IssuedOnly(e)'
  BY <1>1, InvFacts DEF IssuedOnly, Held
<1>10. ASSUME NEW e \in Domain, e \notin disturbed' PROVE Consistent(e)'
  <2>1. Consistent(e)
    BY <1>1, <1>10, InvFacts
  <2>2. CASE e # d
    BY <1>1, <1>2, <1>4, <1>6, <2>1, <2>2, Frame, Nothing, Names DEF RequestsSame, JobSame
  <2>3. CASE e = d
    <3>1. \A q \in Req : req[q].d # d
      BY <1>1, <1>10, <2>3
    <3>2. CertificateIsKept(d)'
      BY <1>1, <2>1, <2>3, <3>1 DEF Consistent, CertificateIsKept
    <3>3. RequestFollows(d)'
      BY <1>1, <1>4, <1>6, <3>1 DEF RequestFollows
    <3> QED
      BY <1>1, <2>1, <2>3, <3>2, <3>3
         DEF Consistent, RecordedIsServed, RecordIsRecent, JobFollows
  <2> QED
    BY <2>2, <2>3
<1> QED
  BY <1>8, <1>9, <1>10 DEF CertInv

LEMMA ReqFacts ==
  ASSUME CertInv, NEW r \in Req, req[r].at # "idle"
  PROVE  /\ req[r].d \in Domain /\ req[r].sup \in Supplier /\ req[r].by \in Supplier
         /\ req[r].cert \in Held(req[r].d) /\ req[r].cert \in Cert
         /\ \A q \in Req : req[r].d \notin disturbed /\ req[q].d = req[r].d => q = r
  BY InvFacts DEF ReqWhole, Consistent, RequestFollows, ReqType

\* Of another domain a request's step changes nothing.
LEMMA ReqElsewhere ==
  ASSUME Typed, NEW r \in Req, NEW k, req' = [req EXCEPT ![r] = k], cron' = cron,
         NEW e, req[r].d # e, k.d # e
  PROVE  RequestsSame(e) /\ JobSame(e)
  BY DEF Typed, RequestsSame, JobSame

LEMMA FaultFacts ==
  ASSUME CertInv, NEW d \in Domain, Fault(d)
  PROVE  fails' \in [Domain -> 0..MaxFails]
  BY InvFacts, Numbers DEF Fault, Typed

LEMMA LaterThanZero == ASSUME Typed PROVE today + Life > 0 /\ today + Life # 0
<1>1. today \in Grace..MaxDay
  BY DEF Typed
<1> QED
  BY <1>1, Numbers

LEMMA IssueFacts ==
  ASSUME CertInv, NEW d \in Domain, NEW c \in Cert,
         NEW a \in {"issued", "already issued", "error"}, Issue(d, c, a)
  PROVE  /\ issued' \in [Domain -> SUBSET Cert] /\ fails' \in [Domain -> 0..MaxFails]
         /\ \A e \in Domain : issued'[e] = IF e = d /\ a = "issued" THEN issued[e] \cup {c}
                                           ELSE issued[e]
         /\ a = "issued" => c # NoCert /\ c.until = today + Life /\ c.until > 0
         /\ a # "issued" => c = NoCert
<1>1. CASE a = "issued"
  <2>1. /\ c = [until |-> today + Life, no |-> Cardinality(issued[d]) + 1]
        /\ issued' = [issued EXCEPT ![d] = @ \cup {c}] /\ UNCHANGED fails
    BY <1>1 DEF Issue
  <2>2. today + Life > 0 /\ today + Life # 0
    BY LaterThanZero, InvFacts
  <2>3. c.until = today + Life
    BY <2>1
  <2>4. c # NoCert
    BY <2>2, <2>3, Nothing
  <2> QED
    BY <1>1, <2>1, <2>2, <2>3, <2>4, InvFacts DEF Typed
<1>2. CASE a # "issued"
  <2>1. c = NoCert /\ UNCHANGED issued /\ (Fault(d) \/ UNCHANGED fails)
    BY <1>2 DEF Issue
  <2> QED
    BY <1>2, <2>1, FaultFacts, InvFacts DEF Typed
<1> QED
  BY <1>1, <1>2

LEMMA IssuedFacts ==
  ASSUME CertInv, NEW d \in Domain, NEW c \in Cert, Issue(d, c, "issued")
  PROVE  /\ issued' \in [Domain -> SUBSET Cert] /\ fails' \in [Domain -> 0..MaxFails]
         /\ \A e \in Domain : issued'[e] = IF e = d THEN issued[e] \cup {c} ELSE issued[e]
         /\ c # NoCert /\ c.until = today + Life /\ c.until > 0
<1> DEFINE a == "issued"
<1>1. a \in {"issued", "already issued", "error"} /\ Issue(d, c, a)
  OBVIOUS
<1> HIDE DEF a
<1>2. /\ issued' \in [Domain -> SUBSET Cert] /\ fails' \in [Domain -> 0..MaxFails]
      /\ \A e \in Domain : issued'[e] = IF e = d /\ a = "issued" THEN issued[e] \cup {c}
                                        ELSE issued[e]
      /\ a = "issued" => c # NoCert /\ c.until = today + Life /\ c.until > 0
  BY <1>1, IssueFacts
<1> QED
  BY <1>2 DEF a

LEMMA UploadFacts ==
  ASSUME CertInv, NEW d \in Domain, NEW s \in Supplier \cup {"none"}, NEW c \in Cert,
         NEW ok \in BOOLEAN, Upload(d, s, c, ok)
  PROVE  /\ served' \in [Domain -> Cert] /\ uploaded' \in [Domain -> SUBSET Cert]
         /\ taken' \in [Domain -> SUBSET DayNamed]
         /\ fails' \in [Domain -> 0..MaxFails] /\ disturbed' \subseteq Domain
         /\ disturbed \subseteq disturbed' /\ disturbed' \subseteq disturbed \cup {d}
         /\ \A e \in Domain : e # d => served'[e] = served[e] /\ uploaded'[e] = uploaded[e]
         /\ uploaded'[d] \in {uploaded[d], uploaded[d] \cup {c}}
         /\ \/ d \in disturbed'
            \/ served'[d] = c /\ uploaded'[d] = uploaded[d] \cup {c} /\ s \in Cdn
            \/ ~ok /\ served' = served /\ uploaded' = uploaded
<1>1. taken' \in [Domain -> SUBSET DayNamed]
  <2>1. taken \in [Domain -> SUBSET DayNamed]
    BY InvFacts DEF Typed
  <2> QED
    BY <2>1 DEF Upload, Take
<1>2. CASE ok /\ Disturb({d}) /\ UNCHANGED <<served, uploaded, fails>>
  BY <1>1, <1>2, InvFacts DEF Disturb, Typed
<1>3. CASE /\ s \in Cdn /\ UNCHANGED disturbed
           /\ served' = [served EXCEPT ![d] = c]
           /\ uploaded' = [uploaded EXCEPT ![d] = @ \cup {c}]
           /\ IF ok THEN UNCHANGED fails ELSE Fault(d)
  <2>1. fails' \in [Domain -> 0..MaxFails]
    BY <1>3, FaultFacts, InvFacts DEF Typed
  <2> QED
    BY <1>1, <1>3, <2>1, InvFacts DEF Typed
<1>4. CASE ~ok /\ Fault(d) /\ UNCHANGED <<served, uploaded, disturbed>>
  BY <1>1, <1>4, FaultFacts, InvFacts DEF Typed
<1> QED
  BY <1>2, <1>3, <1>4 DEF Upload

LEMMA ProvisionComesTo ==
  ASSUME CertInv, NEW r \in Req, Provision(r),
         NEW d, d = req[r].d, NEW s, s = req[r].sup
  PROVE  \E k \in ReqType :
        /\ req' = [req EXCEPT ![r] = k]
        /\ \/ k = Idle
           \/ /\ k.d = d /\ k.sup = s /\ k.by = s /\ k.cert = NoCert
              /\ k.at \in {"obtain", "save"} /\ s \in provisioned'[d]
              /\ k.at = "save" => s \in Proxy
<1>1. /\ d \in Domain /\ s \in Supplier /\ req[r].by = s /\ req[r].cert = NoCert
      /\ req[r] \in ReqType /\ Typed
  BY ReqFacts, InvFacts DEF Provision, ReqWhole
<1>2. CASE req' = [req EXCEPT ![r] = Idle]
  BY <1>2, Nothing
<1>3. ASSUME NEW at \in {"obtain", "save"}, req' = [req EXCEPT ![r].at = at],
             at = "save" => s \in Proxy,
             provisioned' = [provisioned EXCEPT ![d] = @ \cup {s}]
      PROVE  \E k \in ReqType :
               /\ req' = [req EXCEPT ![r] = k]
               /\ k.d = d /\ k.sup = s /\ k.by = s /\ k.cert = NoCert
               /\ k.at \in {"obtain", "save"} /\ s \in provisioned'[d]
               /\ k.at = "save" => s \in Proxy
  <2> DEFINE k == [req[r] EXCEPT !.at = at]
  <2>1. /\ k \in ReqType /\ k.d = d /\ k.sup = s /\ k.by = s /\ k.cert = NoCert
        /\ k.at = at
    BY <1>1 DEF ReqType
  <2>2. req' = [req EXCEPT ![r] = k]
    BY <1>3
  <2>3. s \in provisioned'[d]
    BY <1>1, <1>3 DEF Typed
  <2> HIDE DEF k
  <2> QED
    BY <1>3, <2>1, <2>2, <2>3
<1> QED
  BY <1>2, <1>3 DEF Provision

LEMMA ProvisionInv ==
  ASSUME CertInv, NEW r \in Req, Provision(r),
         NEW d, d = req[r].d, NEW s, s = req[r].sup
  PROVE  CertInv'
<1>1. /\ d \in Domain /\ s \in Supplier /\ req[r].by = s /\ req[r].cert = NoCert
      /\ req[r].at = "provision" /\ req[r] \in ReqType
      /\ \A q \in Req : d \notin disturbed /\ req[q].d = d => q = r
      /\ Typed
  BY ReqFacts, InvFacts DEF Provision, ReqWhole
<1>2. UNCHANGED <<server_hosts, seen, cron, today, warned, ran, issued, served, taken,
                  uploaded, claimed, disturbed, warnings, unsent>>
  BY DEF Provision, table, days, reports
<1>3. PICK k \in ReqType :
        /\ req' = [req EXCEPT ![r] = k]
        /\ \/ k = Idle
           \/ /\ k.d = d /\ k.sup = s /\ k.by = s /\ k.cert = NoCert
              /\ k.at \in {"obtain", "save"} /\ s \in provisioned'[d]
              /\ k.at = "save" => s \in Proxy
  BY ProvisionComesTo
<1>4. /\ provisioned' \in [Domain -> SUBSET Supplier]
      /\ \A e \in Domain : provisioned[e] \subseteq provisioned'[e]
  BY <1>1 DEF Provision, Typed
<1>5. fails' \in [Domain -> 0..MaxFails]
  BY <1>1, FaultFacts DEF Provision, Typed
<1>6. /\ tjMap' \in [Domain -> RecordType]
      /\ \A e \in Domain : e # d => tjMap'[e] = tjMap[e]
      /\ \/ tjMap'[d] = tjMap[d]
         \/ tjMap'[d] = [is |-> TRUE, cert |-> NoCert, by |-> s] /\ s \in provisioned'[d]
  <2>1. [is |-> TRUE, cert |-> NoCert, by |-> s] \in RecordType
    BY <1>1, Nothing DEF RecordType
  <2> QED
    BY <1>1, <2>1 DEF Provision, Typed
<1>7. Grows /\ Typed' /\ \A q \in Req : req'[q] = IF q = r THEN k ELSE req[q]
  <2>1. \A q \in Req : req'[q] = IF q = r THEN k ELSE req[q]
    BY <1>1, <1>3 DEF Typed
  <2>2. req' \in [Req -> ReqType]
    BY <1>1, <1>3 DEF Typed
  <2> QED
    BY <1>1, <1>2, <1>4, <1>5, <1>6, <2>1, <2>2 DEF Typed, Grows
<1>8. TypeOK'
  <2>1. ReqWhole(req[r])'
    BY <1>1, <1>3, <1>7, Nothing DEF ReqWhole, Held
  <2> QED
    BY <1>2, <1>7, <2>1, InvFacts, ReqStays, CronStays DEF TypeOK
<1>9. ASSUME NEW e \in Domain PROVE IssuedOnly(e)'
  BY <1>2, <1>4, <1>6, InvFacts DEF IssuedOnly, Held
<1>10. ASSUME NEW e \in Domain, e \notin disturbed' PROVE Consistent(e)'
  <2>1. Consistent(e)
    BY <1>2, <1>10, InvFacts
  <2>2. CASE e # d
    <3>1. k.d # e
      BY <1>3, <2>2, Nothing, Names
    <3> QED
      BY <1>1, <1>2, <1>3, <1>6, <2>1, <2>2, <3>1, Frame, ReqElsewhere
  <2>3. CASE e = d
    <3>1. tjMap[d].cert = NoCert /\ tjMap'[d].cert = NoCert
      BY <1>1, <1>6, <2>1, <2>3 DEF Consistent, RequestFollows
    <3>2. \A q \in Req : req'[q].d = d => q = r
      BY <1>1, <1>2, <1>7, <1>10, <2>3
    <3>3. CertificateIsKept(d)'
      <4>1. \A c \in issued[d] \ uploaded[d] : c # NoCert
        BY <1>1, InvFacts DEF IssuedOnly
      <4> QED
        BY <1>1, <1>2, <1>10, <2>1, <2>3, <3>1, <4>1 DEF Consistent, CertificateIsKept
    <3>4. RequestFollows(d)'
      BY <1>1, <1>3, <1>7, <3>1, <3>2, Nothing, Names DEF RequestFollows
    <3>5. RecordIsRecent(d)'
      BY <3>1 DEF RecordIsRecent
    <3> QED
      BY <1>2, <2>1, <2>3, <3>3, <3>4, <3>5 DEF Consistent, RecordedIsServed, JobFollows
  <2> QED
    BY <2>2, <2>3
<1> QED
  BY <1>8, <1>9, <1>10 DEF CertInv

\* A request goes on with a certificate, or without one; or it ends.
Obtained(r, d, k) ==
  /\ req' = [req EXCEPT ![r] = k]
  /\ k = Idle \/ (k.d = d /\ k.sup = req[r].sup /\ k.by = req[r].by)
  /\ \/ /\ k.at = "upload" /\ k.cert = req[r].cert /\ k.cert # NoCert
        /\ UNCHANGED <<tjMap, issued, fails>>
     \/ /\ k.at = "upload" /\ req[r].cert = NoCert
        /\ Issue(d, k.cert, "issued") /\ UNCHANGED tjMap
     \/ /\ k.at = "save" /\ k.cert = NoCert /\ req[r].cert = NoCert
        /\ Issue(d, NoCert, "already issued")
        /\ tjMap' = [tjMap EXCEPT ![d] = NoRecord]
     \/ /\ k = Idle /\ req[r].cert = NoCert
        /\ Issue(d, NoCert, "error") /\ UNCHANGED tjMap

LEMMA ObtainComesTo ==
  ASSUME CertInv, NEW r \in Req, Obtain(r), NEW d, d = req[r].d
  PROVE  \E k \in ReqType : Obtained(r, d, k)
<1>1. d \in Domain /\ req[r] \in ReqType /\ Typed
  BY ReqFacts, InvFacts DEF Obtain
<1>2. CASE /\ req[r].cert # NoCert
           /\ req' = [req EXCEPT ![r].at = "upload"]
           /\ UNCHANGED <<tjMap, issued, fails>>
  <2> DEFINE k == [req[r] EXCEPT !.at = "upload"]
  <2>1. /\ k \in ReqType /\ k.d = d /\ k.sup = req[r].sup /\ k.by = req[r].by
        /\ k.at = "upload" /\ k.cert = req[r].cert
    BY <1>1 DEF ReqType
  <2>2. req' = [req EXCEPT ![r] = k]
    BY <1>2
  <2> HIDE DEF k
  <2> QED
    BY <1>2, <2>1, <2>2 DEF Obtained
<1>3. ASSUME NEW c \in Cert, req[r].cert = NoCert, Issue(d, c, "issued"), UNCHANGED tjMap,
             req' = [req EXCEPT ![r].at = "upload", ![r].cert = c]
      PROVE  \E k \in ReqType :
               /\ req' = [req EXCEPT ![r] = k]
               /\ k.d = d /\ k.sup = req[r].sup /\ k.by = req[r].by
               /\ k.at = "upload" /\ Issue(d, k.cert, "issued")
  <2> DEFINE k == [req[r] EXCEPT !.at = "upload", !.cert = c]
  <2>1. /\ k \in ReqType /\ k.d = d /\ k.sup = req[r].sup /\ k.by = req[r].by
        /\ k.at = "upload" /\ k.cert = c
    BY <1>1 DEF ReqType
  <2>2. req' = [req EXCEPT ![r] = k]
    BY <1>1, <1>3 DEF Typed
  <2> HIDE DEF k
  <2> QED
    BY <1>3, <2>1, <2>2
<1>4. ASSUME NEW c \in Cert, req[r].cert = NoCert, Issue(d, c, "already issued"),
             req' = [req EXCEPT ![r].at = "save"]
      PROVE  \E k \in ReqType :
               /\ req' = [req EXCEPT ![r] = k]
               /\ k.d = d /\ k.sup = req[r].sup /\ k.by = req[r].by
               /\ k.at = "save" /\ k.cert = NoCert
               /\ Issue(d, NoCert, "already issued")
  <2> DEFINE k == [req[r] EXCEPT !.at = "save"]
  <2>1. /\ k \in ReqType /\ k.d = d /\ k.sup = req[r].sup /\ k.by = req[r].by
        /\ k.at = "save" /\ k.cert = NoCert
    BY <1>1, <1>4 DEF ReqType
  <2>2. req' = [req EXCEPT ![r] = k]
    BY <1>4
  <2>3. c = NoCert
    BY <1>1, <1>4, IssueFacts
  <2> HIDE DEF k
  <2> QED
    BY <1>4, <2>1, <2>2, <2>3
<1>5. ASSUME NEW c \in Cert, Issue(d, c, "error") PROVE Issue(d, NoCert, "error")
  <2>1. c = NoCert
    BY <1>1, <1>5, IssueFacts
  <2> QED
    BY <1>5, <2>1
<1> QED
  BY <1>2, <1>3, <1>4, <1>5, Nothing DEF Obtain, Obtained

LEMMA ObtainInv ==
  ASSUME CertInv, NEW r \in Req, Obtain(r), NEW d, d = req[r].d
  PROVE  CertInv'
<1>1. /\ d \in Domain /\ req[r].sup \in Supplier /\ req[r].by \in Supplier
      /\ req[r].cert \in Held(d) /\ req[r].at = "obtain" /\ req[r] \in ReqType
      /\ req[r].by \in provisioned[d]
      /\ \A q \in Req : d \notin disturbed /\ req[q].d = d => q = r
      /\ Typed
  BY ReqFacts, InvFacts DEF Obtain, ReqWhole
<1>2. UNCHANGED <<server_hosts, seen, cron, today, warned, ran, served, taken, provisioned,
                  uploaded, claimed, disturbed, warnings, unsent>>
  BY DEF Obtain, table, days, reports
<1>3. PICK k \in ReqType : Obtained(r, d, k)
  BY ObtainComesTo
<1> USE DEF Obtained
<1>4. /\ issued' \in [Domain -> SUBSET Cert] /\ fails' \in [Domain -> 0..MaxFails]
      /\ \A e \in Domain : issued[e] \subseteq issued'[e]
      /\ \A e \in Domain : e # d => issued'[e] = issued[e]
      /\ \/ issued'[d] = issued[d]
         \/ /\ k.at = "upload" /\ issued'[d] = issued[d] \cup {k.cert} /\ k.cert # NoCert
            /\ k.cert.until = today + Life /\ k.cert.until > 0 /\ req[r].cert = NoCert
  <2>1. CASE UNCHANGED <<issued, fails>>
    BY <1>1, <2>1 DEF Typed
  <2>2. CASE Issue(d, k.cert, "issued") /\ k.at = "upload" /\ req[r].cert = NoCert
    <3>1. k.cert \in Cert
      BY <1>3 DEF ReqType
    <3>2. /\ issued' \in [Domain -> SUBSET Cert] /\ fails' \in [Domain -> 0..MaxFails]
          /\ \A e \in Domain : issued'[e] = IF e = d THEN issued[e] \cup {k.cert} ELSE issued[e]
          /\ k.cert # NoCert /\ k.cert.until = today + Life /\ k.cert.until > 0
      BY <1>1, <2>2, <3>1, IssuedFacts
    <3> QED
      BY <1>1, <2>2, <3>2
  <2>3. CASE Issue(d, NoCert, "already issued") \/ Issue(d, NoCert, "error")
    BY <1>1, <2>3, IssueFacts, Nothing
  <2> QED
    BY <1>3, <2>1, <2>2, <2>3
<1>5. /\ tjMap' \in [Domain -> RecordType]
      /\ \A e \in Domain : e # d => tjMap'[e] = tjMap[e]
      /\ tjMap'[d] = tjMap[d] \/ (tjMap'[d] = NoRecord /\ req[r].cert = NoCert)
      /\ k.at = "save" => tjMap'[d] = NoRecord
  BY <1>1, <1>3, Nothing DEF Typed
<1>6. /\ k = Idle \/ (k.d = d /\ k.sup = req[r].sup /\ k.by = req[r].by)
      /\ k.at \in {"idle", "upload", "save"} /\ (k.at = "idle" => k = Idle)
      /\ k.at = "upload" => k.cert # NoCert /\ k.cert \in issued'[d]
      /\ k.at = "save" => k.cert = NoCert
      /\ k.cert # req[r].cert => req[r].cert = NoCert /\ k.cert.until = today + Life
  <2>1. CASE UNCHANGED issued /\ k.at = "upload" /\ k.cert = req[r].cert /\ k.cert # NoCert
    BY <1>1, <1>3, <2>1 DEF Held
  <2>2. CASE Issue(d, k.cert, "issued") /\ k.at = "upload" /\ req[r].cert = NoCert
    <3>1. k.cert \in Cert
      BY <1>3 DEF ReqType
    <3> QED
      BY <1>1, <1>3, <2>2, <3>1, IssueFacts
  <2> QED
    BY <1>3, <2>1, <2>2, Nothing
<1>7. \A q \in Req : req'[q] = IF q = r THEN k ELSE req[q]
  BY <1>1, <1>3 DEF Typed
<1>8. Grows /\ Typed'
  <2>1. req' \in [Req -> ReqType]
    BY <1>1, <1>3 DEF Typed
  <2> QED
    BY <1>1, <1>2, <1>4, <1>5, <2>1 DEF Typed, Grows
<1>9. TypeOK'
  <2>1. ReqWhole(req[r])'
    BY <1>1, <1>2, <1>6, <1>7, Nothing DEF ReqWhole, Held
  <2> QED
    BY <1>2, <1>7, <1>8, <2>1, InvFacts, ReqStays, CronStays DEF TypeOK
<1>10. ASSUME NEW e \in Domain PROVE IssuedOnly(e)'
  <2>1. \A c \in issued'[e] : c # NoCert /\ c.until > 0 /\ c.until <= today + Life
    BY <1>1, <1>4, InvFacts DEF IssuedOnly
  <2> QED
    BY <1>2, <1>4, <1>5, <2>1, InvFacts, Nothing DEF IssuedOnly, Held
<1>11. ASSUME NEW e \in Domain, e \notin disturbed' PROVE Consistent(e)'
  <2>1. Consistent(e)
    BY <1>2, <1>11, InvFacts
  <2>2. CASE e # d
    <3>1. k.d # e
      BY <1>6, <2>2, Nothing, Names
    <3> QED
      BY <1>1, <1>2, <1>3, <1>4, <1>5, <2>1, <2>2, <3>1, Frame, ReqElsewhere
  <2>3. CASE e = d
    <3>1. tjMap[d].cert = req[r].cert /\ tjMap'[d].cert = tjMap[d].cert
      BY <1>1, <1>5, <2>1, <2>3, Nothing DEF Consistent, RequestFollows
    <3>2. \A q \in Req : req'[q].d = d => q = r
      BY <1>1, <1>2, <1>7, <1>11, <2>3
    <3>3. CertificateIsKept(d)'
      <4> SUFFICES ASSUME NEW c \in issued'[d] \ uploaded[d]
                   PROVE  \/ server_hosts[d].pend = c
                          \/ tjMap'[d].cert = c
                          \/ \E q \in Req : req'[q].d = d /\ req'[q].cert = c
                          \/ cron.d = d /\ cron.cert = c
        BY <1>2 DEF CertificateIsKept
      <4>1. CASE c \in issued[d]
        <5>1. CASE \E q \in Req : req[q].d = d /\ req[q].cert = c
          BY <1>1, <1>2, <1>11, <2>3, <3>1, <5>1
        <5> QED
          BY <2>1, <2>3, <3>1, <4>1, <5>1 DEF Consistent, CertificateIsKept
      <4>2. CASE c \notin issued[d]
        <5>1. c = k.cert /\ k.at = "upload"
          BY <1>4, <4>2
        <5>2. req'[r].d = d /\ req'[r].cert = c
          BY <1>6, <1>7, <5>1, Nothing
        <5> QED
          BY <5>2
      <4> QED
        BY <4>1, <4>2
    <3>4. RequestFollows(d)'
      <4> SUFFICES ASSUME k.d = d
                   PROVE  /\ k.at \notin {"provision", "obtain"}
                          /\ k.at = "upload" =>
                               \/ tjMap'[d].cert = k.cert
                               \/ tjMap'[d].cert = NoCert /\ k.cert.until = today + Life
                          /\ k.at = "save" => tjMap'[d].cert = NoCert /\ k.cert = NoCert
        BY <1>2, <1>7, <3>2 DEF RequestFollows
      <4> QED
        BY <1>5, <1>6, <3>1, Nothing
    <3>5. RecordIsRecent(d)'
      BY <1>2, <2>1, <2>3, <3>1 DEF Consistent, RecordIsRecent
    <3> QED
      BY <1>2, <2>1, <2>3, <3>3, <3>4, <3>5 DEF Consistent, RecordedIsServed, JobFollows
  <2> QED
    BY <2>2, <2>3
<1> QED
  BY <1>9, <1>10, <1>11 DEF CertInv

\* What a request is about to upload was issued today or yesterday.
LEMMA UploadIsRecent ==
  ASSUME CertInv, NEW r \in Req, req[r].at = "upload", NEW d, d = req[r].d,
         d \notin disturbed
  PROVE  /\ req[r].cert.until + 1 >= today + Life
         /\ warned => req[r].cert.until = today + Life
         /\ tjMap[d].cert \in {NoCert, req[r].cert}
<1>1. d \in Domain /\ req[r].cert # NoCert /\ req[r].cert \in Held(d)
  BY ReqFacts, InvFacts DEF ReqWhole
<1>2. Consistent(d) /\ req[r].cert.until \in Int /\ today \in Int /\ Life \in Int
  BY <1>1, InvFacts
<1>3. CASE tjMap[d].cert = req[r].cert
  BY <1>1, <1>2, <1>3 DEF Consistent, RecordIsRecent
<1>4. CASE tjMap[d].cert = NoCert /\ req[r].cert.until = today + Life
  BY <1>2, <1>4
<1> QED
  BY <1>2, <1>3, <1>4 DEF Consistent, RequestFollows

LEMMA UploadInv ==
  ASSUME CertInv, NEW r \in Req, UploadCert(r), NEW d, d = req[r].d, NEW c, c = req[r].cert
  PROVE  CertInv'
<1>1. /\ d \in Domain /\ req[r].sup \in Supplier /\ req[r].by \in Supplier
      /\ c \in Cert /\ c # NoCert /\ c \in issued[d]
      /\ req[r].at = "upload" /\ req[r] \in ReqType /\ req[r].by \in provisioned[d]
      /\ \A q \in Req : d \notin disturbed /\ req[q].d = d => q = r
      /\ Typed
  BY ReqFacts, InvFacts DEF UploadCert, UploadAnswered, ReqWhole, Held
<1>2. UNCHANGED <<server_hosts, seen, cron, today, warned, ran, issued, provisioned,
                  claimed, warnings, unsent>>
  BY DEF UploadCert, UploadAnswered, table, days, reports
<1>3. PICK ok \in BOOLEAN :
        /\ Upload(d, req[r].sup, c, ok)
        /\ req' = [req EXCEPT ![r] = IF ok THEN [@ EXCEPT !.at = "save"] ELSE Idle]
        /\ tjMap' = [tjMap EXCEPT ![d] = IF ok THEN NoRecord
                                         ELSE [is |-> TRUE, cert |-> c, by |-> req[r].by]]
  BY DEF UploadCert, UploadAnswered
<1>4. /\ served' \in [Domain -> Cert] /\ uploaded' \in [Domain -> SUBSET Cert]
      /\ fails' \in [Domain -> 0..MaxFails] /\ disturbed' \subseteq Domain
      /\ taken' \in [Domain -> SUBSET DayNamed] /\ disturbed \subseteq disturbed'
      /\ \A e \in Domain : e # d => served'[e] = served[e] /\ uploaded'[e] = uploaded[e]
      /\ uploaded'[d] \in {uploaded[d], uploaded[d] \cup {c}}
      /\ \/ d \in disturbed'
         \/ served'[d] = c /\ uploaded'[d] = uploaded[d] \cup {c}
         \/ ~ok /\ served' = served /\ uploaded' = uploaded
  BY <1>1, <1>3, UploadFacts
<1>5. PICK k \in ReqType :
        /\ req' = [req EXCEPT ![r] = k]
        /\ \/ k = Idle
           \/ /\ ok /\ k.at = "save" /\ k.d = d /\ k.cert = c
              /\ k.sup = req[r].sup /\ k.by = req[r].by
  <2>1. CASE ~ok
    BY <1>3, <2>1, Nothing
  <2>2. CASE ok
    <3> DEFINE k == [req[r] EXCEPT !.at = "save"]
    <3>1. /\ k \in ReqType /\ k.d = d /\ k.sup = req[r].sup /\ k.by = req[r].by
          /\ k.at = "save" /\ k.cert = c
      BY <1>1 DEF ReqType
    <3>2. req' = [req EXCEPT ![r] = k]
      BY <1>3, <2>2
    <3> HIDE DEF k
    <3> QED
      BY <2>2, <3>1, <3>2
  <2> QED
    BY <2>1, <2>2
<1>6. /\ tjMap' \in [Domain -> RecordType]
      /\ \A e \in Domain : e # d => tjMap'[e] = tjMap[e]
      /\ \/ tjMap'[d] = NoRecord
         \/ ~ok /\ tjMap'[d].is = TRUE /\ tjMap'[d].cert = c /\ tjMap'[d].by = req[r].by
  <2>1. [is |-> TRUE, cert |-> c, by |-> req[r].by] \in RecordType
    BY <1>1 DEF RecordType
  <2> QED
    BY <1>1, <1>3, <2>1, Nothing DEF Typed
<1>7. \A q \in Req : req'[q] = IF q = r THEN k ELSE req[q]
  BY <1>1, <1>5 DEF Typed
<1>8. Grows /\ Typed'
  <2>1. req' \in [Req -> ReqType]
    BY <1>1, <1>5 DEF Typed
  <2> QED
    BY <1>1, <1>2, <1>4, <1>6, <2>1 DEF Typed, Grows
<1>9. TypeOK'
  <2>1. ReqWhole(req[r])'
    BY <1>1, <1>2, <1>5, <1>7, Nothing DEF ReqWhole, Held
  <2> QED
    BY <1>2, <1>7, <1>8, <2>1, InvFacts, ReqStays, CronStays DEF TypeOK
<1>10. ASSUME NEW e \in Domain PROVE IssuedOnly(e)'
  BY <1>1, <1>2, <1>4, <1>6, InvFacts, Nothing DEF IssuedOnly, Held
<1>11. ASSUME NEW e \in Domain, e \notin disturbed' PROVE Consistent(e)'
  <2>1. Consistent(e) /\ IssuedOnly(e)
    BY <1>4, <1>11, InvFacts
  <2>2. CASE e # d
    <3>1. k.d # e
      BY <1>5, <2>2, Nothing, Names
    <3> QED
      BY <1>1, <1>2, <1>4, <1>5, <1>6, <2>1, <2>2, <3>1, Frame, ReqElsewhere
  <2>3. CASE e = d
    <3>1. /\ c.until + 1 >= today + Life /\ (warned => c.until = today + Life)
          /\ tjMap[d].cert \in {NoCert, c}
      BY <1>1, <1>4, <1>11, <2>3, UploadIsRecent
    <3>2. /\ c.until \in Int /\ today \in Int /\ Life \in Int /\ served[d].until \in Int
          /\ server_hosts[d].ssl_at \in Int
      BY <1>1, InvFacts DEF Held
    <3>3. \A q \in Req : req'[q].d = d => q = r
      BY <1>1, <1>4, <1>7, <1>11, <2>3
    <3>4. CertificateIsKept(d)'
      <4> SUFFICES ASSUME NEW x \in issued[d] \ uploaded'[d]
                   PROVE  \/ server_hosts[d].pend = x
                          \/ tjMap'[d].cert = x
                          \/ cron.d = d /\ cron.cert = x
        BY <1>2 DEF CertificateIsKept
      <4>1. x \in issued[d] \ uploaded[d] /\ x # NoCert
        BY <1>4, <2>1, <2>3 DEF IssuedOnly
      <4>2. CASE x = c
        BY <1>4, <1>6, <1>11, <2>3, <1>3, <1>1, <4>2 DEF Typed
      <4>3. CASE x # c
        BY <1>1, <1>4, <1>11, <2>1, <2>3, <3>1, <4>1, <4>3 DEF Consistent, CertificateIsKept
      <4> QED
        BY <4>2, <4>3
    <3>5. RecordedIsServed(d)'
      <4>1. server_hosts[d].ssl_at <= today + Life
        BY <2>1, <2>3 DEF IssuedOnly
      <4>2. CASE served'[d] = c
        BY <1>2, <3>1, <3>2, <4>1, <4>2 DEF RecordedIsServed
      <4>3. CASE served' = served
        BY <1>2, <2>1, <2>3, <4>3 DEF Consistent, RecordedIsServed
      <4> QED
        BY <1>4, <1>11, <2>3, <4>2, <4>3
    <3>6. RequestFollows(d)'
      <4> SUFFICES ASSUME k.d = d
                   PROVE  /\ k.at = "save" /\ tjMap'[d].cert = NoCert /\ k.cert = c
                          /\ c \in uploaded'[d] /\ served'[d] = c
        BY <1>2, <1>7, <3>3 DEF RequestFollows
      <4>1. ok /\ k.at = "save" /\ k.cert = c
        BY <1>1, <1>5, Nothing, Names
      <4> QED
        BY <1>4, <1>6, <1>11, <2>3, <4>1, Nothing
    <3>7. RecordIsRecent(d)'
      BY <1>2, <1>6, <3>1, Nothing DEF RecordIsRecent
    <3>8. JobFollows(d)'
      <4>1. ASSUME d = cron.d, cron.at = "renewed"
            PROVE  cron.cert \in uploaded'[d] /\ cron.cert.until <= served'[d].until + 1
        <5>1. cron.cert \in uploaded[d] /\ cron.cert.until <= served[d].until + 1
          BY <2>1, <2>3, <4>1 DEF Consistent, JobFollows
        <5>2. cron.cert.until <= today + Life /\ cron.cert.until \in Int
          BY <1>1, <2>1, <2>3, <5>1, InvFacts DEF IssuedOnly, Held
        <5>3. CASE served'[d] = c
          BY <1>4, <3>1, <3>2, <5>1, <5>2, <5>3
        <5>4. CASE served' = served
          BY <1>4, <5>1, <5>4
        <5> QED
          BY <1>4, <1>11, <2>3, <5>3, <5>4
      <4> QED
        BY <1>2, <2>1, <2>3, <4>1 DEF Consistent, JobFollows
    <3> QED
      BY <2>3, <3>4, <3>5, <3>6, <3>7, <3>8 DEF Consistent
  <2> QED
    BY <2>2, <2>3
<1> QED
  BY <1>9, <1>10, <1>11 DEF CertInv

LEMMA SaveInv ==
  ASSUME CertInv, NEW r \in Req, SaveRow(r), NEW d, d = req[r].d, NEW c, c = req[r].cert
  PROVE  CertInv'
<1>1. /\ d \in Domain /\ req[r].sup \in Supplier /\ c \in Cert /\ c \in Held(d)
      /\ req[r].at = "save" /\ req[r] \in ReqType
      /\ \A q \in Req : d \notin disturbed /\ req[q].d = d => q = r
      /\ Typed
  BY ReqFacts, InvFacts DEF SaveRow, ReqWhole
<1>2. /\ UNCHANGED <<tjMap, cron, today, warned, ran, issued, served, taken, provisioned, uploaded>>
      /\ req' = [req EXCEPT ![r] = Idle]
      /\ seen' = [seen EXCEPT ![d] = server_hosts'[d]]
  BY DEF SaveRow, days, world, reports
<1>3. PICK u : /\ u = IF c # NoCert THEN c.until
                      ELSE IF req[r].by \in Cdn THEN today + Guess ELSE 0
               /\ \/ /\ server_hosts[d] = NoRow
                     /\ server_hosts' = [server_hosts EXCEPT ![d] =
                                           [ssl_at |-> u, pend |-> NoCert, sup |-> req[r].sup,
                                            renewable |-> TRUE]]
                     /\ claimed' = IF c # NoCert /\ req[r].sup \in Cdn THEN claimed \ {d}
                                   ELSE claimed \cup {d}
                     /\ fails' = [fails EXCEPT ![d] = 0]
                     /\ warnings' = [warnings EXCEPT ![d] = 0]
                     /\ unsent' = [unsent EXCEPT ![d] = 0]
                     /\ UNCHANGED disturbed
                  \/ /\ Fault(d) \/ UNCHANGED fails
                     /\ disturbed' = disturbed \cup {d}
                     /\ UNCHANGED <<server_hosts, claimed, warnings, unsent>>
  BY DEF SaveRow, Disturb, reports
<1>4. u \in 0..(MaxDay + Life) /\ u <= today + Life
  <2>1. today \in Grace..MaxDay /\ c.until \in 0..(MaxDay + Life)
    BY <1>1 DEF Typed, Cert
  <2>2. c # NoCert => c.until <= today + Life
    BY <1>1, InvFacts DEF Held, IssuedOnly
  <2>3. CASE c # NoCert
    BY <1>3, <2>1, <2>2, <2>3
  <2>4. CASE c = NoCert
    BY <1>3, <2>1, <2>4, Numbers
  <2> QED
    BY <2>3, <2>4
<1> DEFINE row == [ssl_at |-> u, pend |-> NoCert, sup |-> req[r].sup, renewable |-> TRUE]
<1>5. row \in Row /\ row.ssl_at = u /\ row.pend = NoCert
  BY <1>1, <1>4, Nothing DEF Row
<1>6. /\ server_hosts' \in [Domain -> Row]
      /\ \A e \in Domain : e # d => server_hosts'[e] = server_hosts[e]
      /\ \/ d \in disturbed' /\ server_hosts' = server_hosts /\ UNCHANGED claimed
         \/ /\ server_hosts[d] = NoRow
            /\ server_hosts'[d].ssl_at = u /\ server_hosts'[d].pend = NoCert
            /\ claimed' = IF c # NoCert /\ req[r].sup \in Cdn THEN claimed \ {d}
                          ELSE claimed \cup {d}
  BY <1>1, <1>3, <1>5 DEF Typed
<1>7. /\ disturbed' \subseteq Domain /\ disturbed \subseteq disturbed'
      /\ fails' \in [Domain -> 0..MaxFails] /\ warnings' \in [Domain -> Nat]
      /\ unsent' \in [Domain -> Nat]
      /\ claimed' \subseteq Domain /\ \A e \in Domain \ {d} : e \in claimed => e \in claimed'
  <2>1. Fault(d) => fails' \in [Domain -> 0..MaxFails]
    BY <1>1, FaultFacts
  <2>2. 0 \in 0..MaxFails
    BY Numbers
  <2> QED
    BY <1>1, <1>3, <2>1, <2>2 DEF Typed
<1>8. \A q \in Req : req'[q] = IF q = r THEN Idle ELSE req[q]
  BY <1>1, <1>2 DEF Typed
<1>9. Grows /\ Typed'
  <2>1. req' \in [Req -> ReqType] /\ seen' \in [Domain -> Row]
    BY <1>1, <1>2, <1>6, Nothing DEF Typed
  <2> QED
    BY <1>1, <1>2, <1>6, <1>7, <2>1 DEF Typed, Grows
<1>10. TypeOK'
  <2>1. ReqWhole(req[r])'
    BY <1>8, Nothing DEF ReqWhole
  <2> QED
    BY <1>2, <1>8, <1>9, <2>1, InvFacts, ReqStays, CronStays DEF TypeOK
<1>11. ASSUME NEW e \in Domain PROVE IssuedOnly(e)'
  <2>1. IssuedOnly(e) /\ today' + Life = today + Life /\ Held(e)' = Held(e)
    BY <1>2, InvFacts DEF Held
  <2>2. server_hosts'[e].pend \in Held(e) /\ server_hosts'[e].ssl_at <= today + Life
    BY <1>4, <1>6, <2>1 DEF IssuedOnly, Held
  <2>3. seen'[e] \in {seen[e], server_hosts'[e]}
    BY <1>1, <1>2 DEF Typed
  <2> QED
    BY <1>2, <2>1, <2>2, <2>3 DEF IssuedOnly
<1>12. ASSUME NEW e \in Domain, e \notin disturbed' PROVE Consistent(e)'
  <2>1. Consistent(e) /\ IssuedOnly(e)
    BY <1>7, <1>12, InvFacts
  <2>2. CASE e # d
    BY <1>1, <1>2, <1>6, <1>7, <2>1, <2>2, Frame, ReqElsewhere, Nothing, Names
  <2>3. CASE e = d
    <3>1. /\ tjMap[d].cert = NoCert /\ (c # NoCert => c \in uploaded[d])
          /\ c # NoCert /\ server_hosts[d] = NoRow => served[d] = c
      BY <1>1, <2>1, <2>3 DEF Consistent, RequestFollows
    <3>2. /\ server_hosts[d] = NoRow
          /\ server_hosts'[d].ssl_at = u /\ server_hosts'[d].pend = NoCert
          /\ d \notin claimed' => c # NoCert
      BY <1>1, <1>6, <1>12, <2>3
    <3>3. \A q \in Req : req'[q].d # d
      BY <1>1, <1>7, <1>8, <1>12, <2>3, Nothing, Names
    <3>4. CertificateIsKept(d)'
      <4> SUFFICES ASSUME NEW x \in issued[d] \ uploaded[d]
                   PROVE  cron.d = d /\ cron.cert = x
        BY <1>2 DEF CertificateIsKept
      <4>1. x # NoCert
        BY <2>1, <2>3 DEF IssuedOnly
      <4>2. ~\E q \in Req : req[q].d = d /\ req[q].cert = x
        BY <1>1, <1>7, <1>12, <2>3, <3>1, <4>1
      <4> QED
        BY <2>1, <2>3, <3>1, <3>2, <4>1, <4>2, Nothing DEF Consistent, CertificateIsKept
    <3>5. RecordedIsServed(d)'
      <4> SUFFICES ASSUME d \notin claimed' PROVE u <= served[d].until + 1
        BY <1>2, <3>2 DEF RecordedIsServed
      <4>1. u = c.until /\ served[d] = c /\ u \in Int
        BY <1>3, <1>4, <3>1, <3>2
      <4> QED
        BY <4>1
    <3>6. JobFollows(d)'
      BY <1>2, <2>1, <2>3, <3>2 DEF Consistent, JobFollows
    <3> QED
      BY <1>2, <2>1, <2>3, <3>3, <3>4, <3>5, <3>6
         DEF Consistent, RequestFollows, RecordIsRecent
  <2> QED
    BY <2>2, <2>3
<1> QED
  BY <1>10, <1>11, <1>12 DEF CertInv

\* A step of the job changes nothing of a domain it is not at.
LEMMA JobElsewhere ==
  ASSUME NEW e \in Domain, e # cron.d, e # cron'.d, req' = req,
         cron'.copy = cron.copy, cron'.live = cron.live, cron'.todo \subseteq cron.todo
  PROVE  RequestsSame(e) /\ JobSame(e)
  BY DEF RequestsSame, JobSame

LEMMA JobFacts ==
  ASSUME CertInv, cron.at \notin {"idle", "next"}, NEW d, d = cron.d
  PROVE  /\ d \in Domain /\ d \notin cron.todo /\ cron.cert \in Held(d) /\ cron.cert \in Cert
         /\ cron \in CronType /\ cron.copy[d] \in Row
         /\ cron.copy[d].sup \in Supplier \cup {"none"}
         /\ d \notin disturbed => Consistent(d)
<1>1. cron \in CronType /\ d \in Domain /\ d \notin cron.todo /\ cron.cert \in Held(d)
  BY InvFacts DEF CronWhole, Typed
<1>2. cron.cert \in Cert /\ cron.copy[d] \in Row
  BY <1>1 DEF CronType
<1> QED
  BY <1>1, <1>2, InvFacts DEF Row

LEMMA StartJobInv == CertInv /\ UploadCDNDomainCert => CertInv'
<1> SUFFICES ASSUME CertInv, UploadCDNDomainCert PROVE CertInv'
  OBVIOUS
<1> DEFINE rows == {d \in Domain : Within(d, Renew)}
<1>1. /\ UNCHANGED <<server_hosts, seen, tjMap, req, today, warned, issued, served,
                     taken, provisioned, uploaded, claimed, disturbed, fails, warnings, unsent>>
      /\ cron = CronIdle
      /\ \/ cron' = cron /\ ran' = TRUE
         \/ /\ cron' = [CronIdle EXCEPT !.at = "next", !.todo = rows,
                                        !.copy = server_hosts, !.live = rows]
            /\ ran' = ran
  BY InvFacts DEF UploadCDNDomainCert, CronWhole, table, world, history, reports
<1>2. \/ cron' = CronIdle
      \/ /\ cron'.at = "next" /\ cron'.todo = rows /\ cron'.live = rows
         /\ cron'.copy = server_hosts /\ cron'.d = "none" /\ cron'.cert = NoCert
  BY <1>1 DEF CronIdle
<1>4. /\ rows \subseteq Domain
      /\ \A d \in rows : server_hosts[d] # NoRow
  BY DEF Within
<1> HIDE DEF rows
<1>3. cron' \in CronType
  <2>1. server_hosts \in [Domain -> Row] /\ cron \in CronType
    BY InvFacts DEF Typed
  <2> QED
    BY <1>1, <1>4, <2>1, Nothing DEF CronType
<1>5. ran' \in BOOLEAN
  BY <1>1, InvFacts DEF Typed
<1>6. Typed'
  BY <1>1, <1>3, <1>5, InvFacts DEF Typed
<1>7. CronWhole'
  BY <1>2, Nothing DEF CronWhole
<1>8. TypeOK'
  BY <1>1, <1>6, <1>7, InvFacts, ReqStays DEF TypeOK, Grows
<1>9. ASSUME NEW d \in Domain PROVE IssuedOnly(d)'
  BY <1>1, <1>2, InvFacts, Nothing, OnlyStays
<1>10. ASSUME NEW d \in Domain, d \notin disturbed' PROVE Consistent(d)'
  <2>1. Consistent(d)
    BY <1>1, <1>10, InvFacts
  <2>2. d # cron.d /\ d # cron'.d
    BY <1>1, <1>2, Nothing, Names
  <2>3. CertificateIsKept(d)'
    BY <1>1, <2>1, <2>2 DEF Consistent, CertificateIsKept
  <2>4. JobFollows(d)'
    BY <1>1, <1>2, <1>4, <2>1, <2>2, Nothing DEF Consistent, JobFollows
  <2> QED
    BY <1>1, <2>1, <2>3, <2>4 DEF Consistent, RecordedIsServed, RequestFollows, RecordIsRecent
<1> QED
  BY <1>8, <1>9, <1>10 DEF CertInv

LEMMA PickInv ==
  ASSUME CertInv, NEW d \in Domain, Pick(d), NEW c, c = cron.copy[d].pend
  PROVE  CertInv'
<1>1. /\ cron.at = "next" /\ cron.d = "none" /\ cron.cert = NoCert /\ d \in cron.todo
      /\ UNCHANGED <<server_hosts, seen, tjMap, req, today, warned, ran, issued, served,
                     taken, provisioned, uploaded, claimed, disturbed, warnings, unsent>>
      /\ cron \in CronType /\ Typed
  BY InvFacts DEF Pick, PickWith, CronWhole, table, days, world, reports, Typed
<1>2. c \in Held(d) /\ c \in Cert
  BY <1>1, InvFacts DEF IssuedOnly, CronType, Row
<1>3. /\ cron' \in CronType /\ fails' \in [Domain -> 0..MaxFails]
      /\ cron'.todo = cron.todo \ {d} /\ cron'.copy = cron.copy /\ cron'.live = cron.live
      /\ \/ /\ cron'.at = IF c = NoCert THEN "obtain" ELSE "upload"
            /\ cron'.d = d /\ cron'.cert = c
         \/ cron'.at = "next" /\ cron'.d = "none" /\ cron'.cert = NoCert
  <2>1. CASE /\ cron' = [cron EXCEPT !.at = IF c = NoCert THEN "obtain" ELSE "upload",
                                     !.d = d, !.cert = c, !.todo = @ \ {d}]
             /\ UNCHANGED fails
    BY <1>1, <1>2, <2>1 DEF CronType, Typed
  <2>2. CASE Fault(d) /\ cron' = [cron EXCEPT !.todo = @ \ {d}]
    <3>1. fails' \in [Domain -> 0..MaxFails]
      BY <2>2, FaultFacts
    <3> QED
      BY <1>1, <2>2, <3>1 DEF CronType
  <2> QED
    BY <2>1, <2>2 DEF Pick, PickWith
<1>4. Typed'
  BY <1>1, <1>3 DEF Typed
<1>5. CronWhole'
  BY <1>1, <1>2, <1>3 DEF CronWhole, Held
<1>6. TypeOK'
  BY <1>1, <1>4, <1>5, InvFacts, ReqStays DEF TypeOK, Grows
<1>7. ASSUME NEW e \in Domain PROVE IssuedOnly(e)'
  BY <1>1, <1>3, InvFacts, OnlyStays
<1>8. ASSUME NEW e \in Domain, e \notin disturbed' PROVE Consistent(e)'
  <2>1. Consistent(e)
    BY <1>1, <1>8, InvFacts
  <2>2. CASE e # d
    BY <1>1, <1>3, <2>1, <2>2, Frame, JobElsewhere, Names
  <2>3. CASE e = d
    <3>1. CertificateIsKept(d)'
      BY <1>1, <1>3, <2>1, <2>3, Names DEF Consistent, CertificateIsKept
    <3>2. JobFollows(d)'
      BY <1>1, <1>2, <1>3, <2>1, <2>3, Names DEF Consistent, JobFollows
    <3> QED
      BY <1>1, <2>1, <2>3, <3>1, <3>2
         DEF Consistent, RecordedIsServed, RequestFollows, RecordIsRecent
  <2> QED
    BY <2>2, <2>3
<1> QED
  BY <1>6, <1>7, <1>8 DEF CertInv

LEMMA ContinueFacts ==
  ASSUME cron \in CronType
  PROVE  /\ Continue \in CronType /\ Continue.at = "next" /\ Continue.d = "none"
         /\ Continue.cert = NoCert /\ Continue.todo = cron.todo
         /\ Continue.copy = cron.copy /\ Continue.live = cron.live
  BY Nothing DEF Continue, CronType

LEMMA CronObtainInv ==
  ASSUME CertInv, CronObtain, NEW d, d = cron.d
  PROVE  CertInv'
<1>1. /\ cron.at = "obtain" /\ cron.cert = NoCert /\ d \in Domain /\ d \notin cron.todo
      /\ UNCHANGED <<server_hosts, seen, tjMap, req, today, warned, ran, served,
                     taken, provisioned, uploaded, claimed, disturbed, warnings, unsent>>
      /\ cron \in CronType /\ Typed
  BY JobFacts, InvFacts DEF CronObtain, CronWhole, table, days, reports
<1>2. PICK c \in Cert :
        \/ Issue(d, c, "issued") /\ cron' = [cron EXCEPT !.at = "upload", !.cert = c]
        \/ /\ Issue(d, c, "already issued") \/ Issue(d, c, "error")
           /\ cron' = Continue
  BY DEF CronObtain
<1>3. /\ issued' \in [Domain -> SUBSET Cert] /\ fails' \in [Domain -> 0..MaxFails]
      /\ \A e \in Domain : issued[e] \subseteq issued'[e]
      /\ \A e \in Domain : e # d => issued'[e] = issued[e]
      /\ cron' \in CronType /\ cron'.todo = cron.todo /\ cron'.copy = cron.copy
      /\ cron'.live = cron.live
      /\ \/ /\ cron'.at = "upload" /\ cron'.d = d /\ cron'.cert = c
            /\ issued'[d] = issued[d] \cup {c} /\ c # NoCert
            /\ c.until = today + Life /\ c.until > 0
         \/ /\ cron'.at = "next" /\ cron'.d = "none" /\ cron'.cert = NoCert
            /\ issued'[d] = issued[d]
  <2>1. CASE Issue(d, c, "issued") /\ cron' = [cron EXCEPT !.at = "upload", !.cert = c]
    <3>1. /\ cron' \in CronType /\ cron'.todo = cron.todo /\ cron'.copy = cron.copy
          /\ cron'.live = cron.live /\ cron'.at = "upload" /\ cron'.d = d /\ cron'.cert = c
      BY <1>1, <2>1 DEF CronType
    <3> QED
      BY <1>1, <2>1, <3>1, IssueFacts
  <2>2. CASE /\ Issue(d, c, "already issued") \/ Issue(d, c, "error")
             /\ cron' = Continue
    <3>1. /\ issued' \in [Domain -> SUBSET Cert] /\ fails' \in [Domain -> 0..MaxFails]
          /\ \A e \in Domain : issued'[e] = issued[e]
      BY <1>1, <2>2, IssueFacts
    <3> QED
      BY <1>1, <2>2, <3>1, ContinueFacts
  <2> QED
    BY <1>2, <2>1, <2>2
<1>4. Grows /\ Typed'
  BY <1>1, <1>3 DEF Typed, Grows
<1>5. CronWhole'
  BY <1>1, <1>3 DEF CronWhole, Held
<1>6. TypeOK'
  BY <1>1, <1>4, <1>5, InvFacts, ReqStays DEF TypeOK
<1>7. ASSUME NEW e \in Domain PROVE IssuedOnly(e)'
  <2>1. \A x \in issued'[e] : x # NoCert /\ x.until > 0 /\ x.until <= today + Life
    BY <1>1, <1>3, InvFacts DEF IssuedOnly
  <2> QED
    BY <1>1, <1>3, <2>1, InvFacts DEF IssuedOnly, Held
<1>8. ASSUME NEW e \in Domain, e \notin disturbed' PROVE Consistent(e)'
  <2>1. Consistent(e) /\ IssuedOnly(e)
    BY <1>1, <1>8, InvFacts
  <2>2. CASE e # d
    BY <1>1, <1>3, <2>1, <2>2, Frame, JobElsewhere, Names
  <2>3. CASE e = d
    <3>1. CertificateIsKept(d)'
      <4> SUFFICES ASSUME NEW x \in issued'[d] \ uploaded[d]
                   PROVE  \/ server_hosts[d].pend = x
                          \/ tjMap[d].cert = x
                          \/ \E r \in Req : req[r].d = d /\ req[r].cert = x
                          \/ cron'.d = d /\ cron'.cert = x
        BY <1>1 DEF CertificateIsKept
      <4>1. CASE x \in issued[d]
        <5>1. x # NoCert
          BY <2>1, <2>3, <4>1 DEF IssuedOnly
        <5> QED
          BY <1>1, <2>1, <2>3, <4>1, <5>1 DEF Consistent, CertificateIsKept
      <4>2. CASE x \notin issued[d]
        BY <1>3, <4>2
      <4> QED
        BY <4>1, <4>2
    <3>2. JobFollows(d)'
      <4>1. server_hosts[d].ssl_at <= today + Life
        BY <2>1, <2>3 DEF IssuedOnly
      <4> QED
        BY <1>1, <1>3, <2>1, <2>3, <4>1, Names DEF Consistent, JobFollows
    <3> QED
      BY <1>1, <2>1, <2>3, <3>1, <3>2
         DEF Consistent, RecordedIsServed, RequestFollows, RecordIsRecent
  <2> QED
    BY <2>2, <2>3
<1> QED
  BY <1>6, <1>7, <1>8 DEF CertInv

LEMMA CronUploadInv ==
  ASSUME CertInv, CronUpload, NEW d, d = cron.d, NEW c, c = cron.cert,
         NEW s, s = cron.copy[d].sup
  PROVE  CertInv'
<1>1. /\ cron.at = "upload" /\ d \in Domain /\ d \notin cron.todo
      /\ c # NoCert /\ c \in issued[d] /\ c \in Cert
      /\ UNCHANGED <<server_hosts, seen, tjMap, req, today, warned, ran, issued,
                     provisioned, claimed, warnings, unsent>>
      /\ cron \in CronType /\ Typed /\ s \in Supplier \cup {"none"}
  BY JobFacts, InvFacts DEF CronUpload, CronWhole, Held, table, days, reports
<1>2. PICK ok \in BOOLEAN :
        /\ Upload(d, s, c, ok)
        /\ cron' = [cron EXCEPT !.at = IF ok THEN "renewed" ELSE "pending"]
  BY DEF CronUpload
<1>3. /\ served' \in [Domain -> Cert] /\ uploaded' \in [Domain -> SUBSET Cert]
      /\ fails' \in [Domain -> 0..MaxFails] /\ disturbed' \subseteq Domain
      /\ taken' \in [Domain -> SUBSET DayNamed] /\ disturbed \subseteq disturbed'
      /\ \A e \in Domain : e # d => served'[e] = served[e] /\ uploaded'[e] = uploaded[e]
      /\ uploaded'[d] \in {uploaded[d], uploaded[d] \cup {c}}
      /\ \/ d \in disturbed'
         \/ /\ served'[d] = c /\ uploaded'[d] = uploaded[d] \cup {c} /\ s \in Cdn
         \/ ~ok /\ served' = served /\ uploaded' = uploaded
  BY <1>1, <1>2, UploadFacts
<1>4. /\ cron' \in CronType /\ cron'.at = IF ok THEN "renewed" ELSE "pending"
      /\ cron'.d = d /\ cron'.cert = c /\ cron'.todo = cron.todo
      /\ cron'.copy = cron.copy /\ cron'.live = cron.live
  BY <1>1, <1>2 DEF CronType
<1>5. Grows /\ Typed'
  BY <1>1, <1>3, <1>4 DEF Typed, Grows
<1>6. CronWhole'
  BY <1>1, <1>4 DEF CronWhole, Held
<1>7. TypeOK'
  BY <1>1, <1>5, <1>6, InvFacts, ReqStays DEF TypeOK
<1>8. ASSUME NEW e \in Domain PROVE IssuedOnly(e)'
  BY <1>1, <1>3, <1>4, InvFacts DEF IssuedOnly, Held
<1>9. ASSUME NEW e \in Domain, e \notin disturbed' PROVE Consistent(e)'
  <2>1. Consistent(e) /\ IssuedOnly(e)
    BY <1>3, <1>9, InvFacts
  <2>2. CASE e # d
    BY <1>1, <1>3, <1>4, <2>1, <2>2, Frame, JobElsewhere
  <2>3. CASE e = d
    <3>1. /\ server_hosts[d].ssl_at <= c.until /\ server_hosts[d] # NoRow
          /\ server_hosts[d].ssl_at \in Int /\ c.until \in Int
      BY <1>1, <2>1, <2>3, InvFacts DEF Consistent, JobFollows, Held
    <3>2. CertificateIsKept(d)'
      BY <1>1, <1>3, <1>4, <2>1, <2>3 DEF Consistent, CertificateIsKept
    <3>3. RecordedIsServed(d)'
      BY <1>1, <1>3, <1>9, <2>1, <2>3, <3>1 DEF Consistent, RecordedIsServed
    <3>4. RequestFollows(d)'
      BY <1>1, <1>3, <2>1, <2>3, <3>1 DEF Consistent, RequestFollows
    <3>5. JobFollows(d)'
      <4>1. ok => /\ c \in uploaded'[d] /\ c.until <= served'[d].until + 1
                  /\ cron.copy[d].sup \in Cdn
        BY <1>3, <1>9, <2>3, <3>1
      <4> QED
        BY <1>1, <1>4, <2>1, <2>3, <3>1, <4>1 DEF Consistent, JobFollows
    <3> QED
      BY <1>1, <2>1, <2>3, <3>2, <3>3, <3>4, <3>5 DEF Consistent, RecordIsRecent
  <2> QED
    BY <2>2, <2>3
<1> QED
  BY <1>7, <1>8, <1>9 DEF CertInv

LEMMA PutInv ==
  ASSUME CertInv, PutServerHostById, NEW d, d = cron.d, NEW c, c = cron.cert
  PROVE  CertInv'
<1> DEFINE renewed == [server_hosts[d] EXCEPT !.ssl_at = c.until, !.pend = NoCert]
           pending == [server_hosts[d] EXCEPT !.pend = c]
<1>1. /\ cron.at \in {"renewed", "pending"} /\ d \in Domain /\ d \notin cron.todo
      /\ c # NoCert /\ c \in issued[d] /\ c \in Cert /\ cron' = Continue
      /\ UNCHANGED <<seen, tjMap, req, today, warned, ran, issued, served,
                     taken, provisioned, uploaded>>
      /\ cron \in CronType /\ Typed /\ server_hosts[d] \in Row
  BY JobFacts, InvFacts
     DEF PutServerHostById, WriteRow, CronWhole, Held, days, world, reports
<1>2. \/ /\ server_hosts' = [server_hosts EXCEPT ![d] =
                               IF cron.at = "renewed" THEN renewed ELSE pending]
         /\ IF cron.at = "renewed"
            THEN /\ claimed' = IF cron.copy[d].sup \in Cdn THEN claimed \ {d} ELSE claimed
                 /\ fails' = [fails EXCEPT ![d] = 0]
                 /\ warnings' = [warnings EXCEPT ![d] = 0]
                 /\ unsent' = [unsent EXCEPT ![d] = 0]
            ELSE UNCHANGED <<claimed, fails, warnings, unsent>>
         /\ UNCHANGED disturbed
      \/ /\ d \notin cron.live
         /\ UNCHANGED <<server_hosts, claimed, fails, warnings, unsent, disturbed>>
      \/ /\ Fault(d)
         /\ disturbed' = disturbed \cup {d}
         /\ UNCHANGED <<server_hosts, claimed, warnings, unsent>>
  BY DEF PutServerHostById, WriteRow, Renewed, Pending, Disturb, reports
<1>3. /\ renewed \in Row /\ renewed.ssl_at = c.until /\ renewed.pend = NoCert
      /\ pending \in Row /\ pending.ssl_at = server_hosts[d].ssl_at /\ pending.pend = c
  <2>1. c.until \in 0..(MaxDay + Life)
    BY <1>1 DEF Cert
  <2> QED
    BY <1>1, <2>1, Nothing DEF Row
<1> HIDE DEF renewed, pending
<1>4. /\ cron' \in CronType /\ cron'.at = "next" /\ cron'.d = "none" /\ cron'.cert = NoCert
      /\ cron'.todo = cron.todo /\ cron'.copy = cron.copy /\ cron'.live = cron.live
  BY <1>1, ContinueFacts
<1>5. /\ server_hosts' \in [Domain -> Row]
      /\ \A e \in Domain : e # d => server_hosts'[e] = server_hosts[e]
      /\ server_hosts'[d] \in {server_hosts[d], renewed, pending}
  BY <1>1, <1>2, <1>3 DEF Typed
<1>6. /\ claimed' \subseteq Domain /\ \A e \in Domain \ {d} : e \in claimed => e \in claimed'
      /\ fails' \in [Domain -> 0..MaxFails] /\ warnings' \in [Domain -> Nat]
      /\ unsent' \in [Domain -> Nat]
      /\ disturbed' \subseteq Domain /\ disturbed \subseteq disturbed'
  <2>1. Fault(d) => fails' \in [Domain -> 0..MaxFails]
    BY <1>1, FaultFacts
  <2>2. 0 \in 0..MaxFails
    BY Numbers
  <2> QED
    BY <1>1, <1>2, <2>1, <2>2 DEF Typed
<1>7. Grows /\ Typed'
  BY <1>1, <1>4, <1>5, <1>6 DEF Typed, Grows
<1>8. CronWhole'
  BY <1>4 DEF CronWhole
<1>9. TypeOK'
  BY <1>1, <1>7, <1>8, InvFacts, ReqStays DEF TypeOK
<1>10. ASSUME NEW e \in Domain PROVE IssuedOnly(e)'
  <2>1. server_hosts'[e].pend \in Held(e) /\ server_hosts'[e].ssl_at <= today + Life
    BY <1>1, <1>3, <1>5, InvFacts DEF IssuedOnly, Held
  <2> QED
    BY <1>1, <1>4, <2>1, InvFacts DEF IssuedOnly, Held
<1>11. ASSUME NEW e \in Domain, e \notin disturbed' PROVE Consistent(e)'
  <2>1. Consistent(e) /\ IssuedOnly(e)
    BY <1>6, <1>11, InvFacts
  <2>2. CASE e # d
    BY <1>1, <1>4, <1>5, <1>6, <2>1, <2>2, Frame, JobElsewhere, Names
  <2>3. CASE e = d
    <3>1. /\ d \in cron.live /\ server_hosts[d].pend \in {NoCert, c}
          /\ cron.at = "pending" => server_hosts[d].ssl_at <= c.until
          /\ cron.at = "renewed" => /\ c \in uploaded[d] /\ c.until <= served[d].until + 1
                                    /\ cron.copy[d].sup \in Cdn
          /\ c.until > 0
      BY <1>1, <2>1, <2>3 DEF Consistent, JobFollows, IssuedOnly
    <3>2. \/ /\ cron.at = "renewed" /\ server_hosts'[d] = renewed
             /\ claimed' = claimed \ {d}
          \/ /\ cron.at = "pending" /\ server_hosts'[d] = pending /\ claimed' = claimed
      BY <1>1, <1>2, <1>11, <2>3, <3>1 DEF Typed
    <3>3. server_hosts'[d] # NoRow
      BY <1>1, <1>3, <3>1, <3>2, Nothing
    <3>4. CertificateIsKept(d)'
      <4> SUFFICES ASSUME NEW x \in issued[d] \ uploaded[d]
                   PROVE  \/ server_hosts'[d].pend = x
                          \/ tjMap[d].cert = x
                          \/ \E r \in Req : req[r].d = d /\ req[r].cert = x
        BY <1>1 DEF CertificateIsKept
      <4>1. x # NoCert
        BY <2>1, <2>3 DEF IssuedOnly
      <4>2. CASE x = c
        BY <1>3, <3>1, <3>2, <4>2
      <4>3. CASE x # c
        BY <2>1, <2>3, <3>1, <4>1, <4>3 DEF Consistent, CertificateIsKept
      <4> QED
        BY <4>2, <4>3
    <3>5. RecordedIsServed(d)'
      <4>1. CASE cron.at = "renewed"
        BY <1>1, <1>3, <3>1, <3>2, <4>1 DEF RecordedIsServed
      <4>2. CASE cron.at = "pending"
        <5>1. server_hosts[d] # NoRow
          BY <1>1, <2>1, <2>3 DEF Consistent, JobFollows
        <5> QED
          BY <1>1, <1>3, <2>1, <2>3, <3>2, <4>2, <5>1 DEF Consistent, RecordedIsServed
      <4> QED
        BY <1>1, <4>1, <4>2
    <3>6. RequestFollows(d)'
      BY <1>1, <2>1, <2>3, <3>3 DEF Consistent, RequestFollows
    <3>7. JobFollows(d)'
      BY <1>1, <1>3, <1>4, <3>1, <3>2, Names DEF JobFollows
    <3> QED
      BY <1>1, <2>1, <2>3, <3>4, <3>5, <3>6, <3>7 DEF Consistent, RecordIsRecent
  <2> QED
    BY <2>2, <2>3
<1> QED
  BY <1>9, <1>10, <1>11 DEF CertInv

LEMMA EndOfRunInv == CertInv /\ EndOfRun => CertInv'
<1> SUFFICES ASSUME CertInv, EndOfRun PROVE CertInv'
  OBVIOUS
<1>1. /\ cron' = CronIdle /\ cron.d = "none" /\ cron.todo = {}
      /\ UNCHANGED <<server_hosts, seen, tjMap, req, today, warned, issued, served,
                     taken, provisioned, uploaded, claimed, disturbed, fails, warnings, unsent>>
      /\ Typed
  BY InvFacts DEF EndOfRun, CronWhole, table, world, history, reports
<1>2. ran' = TRUE
  BY DEF EndOfRun
<1>3. Typed'
  <2>1. ran' \in BOOLEAN
    BY <1>2
  <2> QED
    BY <1>1, <2>1, Nothing DEF Typed
<1>4. TypeOK'
  BY <1>1, <1>3, InvFacts, ReqStays, Nothing DEF TypeOK, Grows, CronWhole
<1>5. ASSUME NEW d \in Domain PROVE IssuedOnly(d)'
  BY <1>1, InvFacts, OnlyStays, Nothing
<1>6. ASSUME NEW d \in Domain, d \notin disturbed' PROVE Consistent(d)'
  <2>1. RequestsSame(d) /\ JobSame(d)
    BY <1>1, Nothing, Names DEF RequestsSame, JobSame
  <2> QED
    BY <1>1, <1>6, <2>1, InvFacts, Frame
<1> QED
  BY <1>4, <1>5, <1>6 DEF CertInv

LEMMA TaskDayInv == CertInv /\ TaskDay => CertInv'
<1> SUFFICES ASSUME CertInv, TaskDay PROVE CertInv'
  OBVIOUS
<1>1. /\ UNCHANGED <<server_hosts, seen, req, cron, today, ran, issued, served,
                     taken, provisioned, uploaded, claimed, fails>>
      /\ tjMap' = [d \in Domain |-> NoRecord]
      /\ disturbed' = disturbed \cup {d \in Domain : tjMap[d].cert # NoCert}
      /\ Typed
  BY InvFacts DEF TaskDay, Kept, Disturb, table, world, reports
<1>2. warned' = TRUE
  BY DEF TaskDay
<1>3. warnings' \in [Domain -> Nat] /\ unsent' \in [Domain -> Nat]
  <2>1. warnings \in [Domain -> Nat] /\ unsent \in [Domain -> Nat]
    BY <1>1 DEF Typed
  <2>2. Reported(warnings) \in [Domain -> Nat] /\ Reported(unsent) \in [Domain -> Nat]
    BY <2>1 DEF Reported
  <2> QED
    BY <2>1, <2>2 DEF TaskDay
<1>4. Typed'
  <2>1. warned' \in BOOLEAN
    BY <1>2
  <2>2. tjMap' \in [Domain -> RecordType] /\ disturbed' \subseteq Domain
    BY <1>1, Nothing DEF Typed
  <2> QED
    BY <1>1, <1>3, <2>1, <2>2 DEF Typed
<1>5. TypeOK'
  BY <1>1, <1>4, InvFacts, ReqStays, CronStays DEF TypeOK, Grows
<1>6. ASSUME NEW d \in Domain PROVE IssuedOnly(d)'
  BY <1>1, InvFacts, OnlyStays
<1>7. ASSUME NEW d \in Domain, d \notin disturbed' PROVE Consistent(d)'
  <2>1. Consistent(d) /\ tjMap[d].cert = NoCert /\ tjMap'[d].cert = NoCert
    BY <1>1, <1>7, InvFacts, Nothing
  <2>2. CertificateIsKept(d)'
    BY <1>1, <2>1 DEF Consistent, CertificateIsKept
  <2>3. RequestFollows(d)'
    BY <1>1, <2>1 DEF Consistent, RequestFollows
  <2>4. RecordIsRecent(d)'
    BY <2>1 DEF RecordIsRecent
  <2> QED
    BY <1>1, <2>1, <2>2, <2>3, <2>4 DEF Consistent, RecordedIsServed, JobFollows
<1> QED
  BY <1>5, <1>6, <1>7 DEF CertInv

LEMMA FormInv ==
  ASSUME CertInv, NEW d \in Domain, GetServersHost(d) \/ PostServerHost(d)
  PROVE  CertInv'
<1>1. /\ UNCHANGED <<tjMap, req, cron, today, warned, ran, issued, served, taken, provisioned,
                     uploaded, claimed, fails, warnings, unsent>>
      /\ \A e \in Domain : e # d => server_hosts'[e] = server_hosts[e] /\ seen'[e] = seen[e]
      /\ \E row \in {server_hosts[d], seen[d]} :
           server_hosts'[d].pend = row.pend /\ server_hosts'[d].ssl_at = row.ssl_at
      /\ seen'[d] \in {server_hosts[d], seen[d]}
      /\ server_hosts' \in [Domain -> Row] /\ seen' \in [Domain -> Row]
      /\ disturbed' = disturbed \/ disturbed' = disturbed \cup {d}
      /\ server_hosts' = server_hosts \/ d \in disturbed'
      /\ Typed
  <2>1. Typed
    BY InvFacts
  <2>2. CASE GetServersHost(d)
    BY <2>1, <2>2 DEF GetServersHost, Typed, days, world, history, reports
  <2>3. CASE PostServerHost(d)
    <3>1. PICK b \in BOOLEAN :
            server_hosts' = [server_hosts EXCEPT ![d] = [seen[d] EXCEPT !.renewable = b]]
      BY <2>3 DEF PostServerHost
    <3> DEFINE row == [seen[d] EXCEPT !.renewable = b]
    <3>2. row \in Row /\ row.pend = seen[d].pend /\ row.ssl_at = seen[d].ssl_at
      BY <2>1 DEF Typed, Row
    <3> HIDE DEF row
    <3>3. /\ server_hosts'[d] = row /\ server_hosts' \in [Domain -> Row]
          /\ \A e \in Domain : e # d => server_hosts'[e] = server_hosts[e]
      BY <2>1, <3>1, <3>2 DEF Typed, row
    <3> QED
      BY <2>1, <2>3, <3>2, <3>3 DEF PostServerHost, Disturb, Typed, days, world, reports
  <2> QED
    BY <2>2, <2>3
<1>2. Typed'
  BY <1>1 DEF Typed
<1>3. TypeOK'
  BY <1>1, <1>2, InvFacts, ReqStays, CronStays DEF TypeOK, Grows
<1>4. ASSUME NEW e \in Domain PROVE IssuedOnly(e)'
  BY <1>1, InvFacts DEF IssuedOnly, Held
<1>5. ASSUME NEW e \in Domain, e \notin disturbed' PROVE Consistent(e)'
  <2>1. RequestsSame(e) /\ JobSame(e)
    BY <1>1 DEF RequestsSame, JobSame
  <2> QED
    BY <1>1, <1>5, <2>1, InvFacts, Frame
<1> QED
  BY <1>3, <1>4, <1>5 DEF CertInv

LEMMA DeleteInv ==
  ASSUME CertInv, NEW d \in Domain, ServerHostDel(d)
  PROVE  CertInv'
<1>1. /\ UNCHANGED <<seen, tjMap, req, today, warned, ran, issued, served, taken, provisioned,
                     uploaded, claimed, fails, warnings, unsent>>
      /\ server_hosts' = [server_hosts EXCEPT ![d] = NoRow]
      /\ cron' = [cron EXCEPT !.live = @ \ {d}]
      /\ disturbed' = disturbed \cup {d}
      /\ Typed /\ cron \in CronType
  BY InvFacts DEF ServerHostDel, Disturb, days, world, reports, Typed
<1>2. /\ cron' \in CronType /\ cron'.at = cron.at /\ cron'.d = cron.d /\ cron'.cert = cron.cert
      /\ cron'.todo = cron.todo /\ cron'.copy = cron.copy /\ cron'.live = cron.live \ {d}
      /\ cron = CronIdle => cron' = CronIdle
  <2>1. cron = CronIdle => cron' = CronIdle
    BY <1>1 DEF CronIdle
  <2> QED
    BY <1>1, <2>1 DEF CronType
<1>3. Typed' /\ \A e \in Domain : server_hosts'[e] = IF e = d THEN NoRow ELSE server_hosts[e]
  BY <1>1, <1>2, Nothing DEF Typed
<1>4. CronWhole'
  BY <1>1, <1>2, InvFacts DEF CronWhole, Held
<1>5. TypeOK'
  BY <1>1, <1>3, <1>4, InvFacts, ReqStays DEF TypeOK, Grows
<1>6. ASSUME NEW e \in Domain PROVE IssuedOnly(e)'
  <2>1. IssuedOnly(e) /\ NoRow.pend \in Held(e) /\ NoRow.ssl_at <= today + Life
    BY <1>1, InvFacts, Nothing, LaterThanZero DEF Held
  <2> QED
    BY <1>1, <1>2, <1>3, <2>1 DEF IssuedOnly, Held
<1>7. ASSUME NEW e \in Domain, e \notin disturbed' PROVE Consistent(e)'
  <2>1. RequestsSame(e) /\ JobSame(e) /\ e # d
    BY <1>1, <1>2, <1>7 DEF RequestsSame, JobSame
  <2> QED
    BY <1>1, <1>3, <1>7, <2>1, InvFacts, Frame
<1> QED
  BY <1>5, <1>6, <1>7 DEF CertInv

LEMMA RestartInv == CertInv /\ Restart => CertInv'
<1> SUFFICES ASSUME CertInv, Restart PROVE CertInv'
  OBVIOUS
<1>1. /\ UNCHANGED <<server_hosts, seen, today, warned, ran, issued, served, taken, provisioned,
                     uploaded, claimed, fails, warnings, unsent>>
      /\ req' = [r \in Req |-> Idle] /\ cron' = CronIdle
      /\ tjMap' = [d \in Domain |-> NoRecord]
      /\ disturbed' = disturbed \cup {d \in Domain : tjMap[d].cert # NoCert}
                       \cup {req[r].d : r \in {q \in Req : req[q].at # "idle"}}
                       \cup ({cron.d} \cap Domain)
      /\ Typed
  BY InvFacts DEF Restart, Kept, Busy, Disturb, table, days, world, reports
<1>2. disturbed' \subseteq Domain
  BY <1>1, ReqFacts DEF Typed
<1>3. Typed'
  BY <1>1, <1>2, Nothing DEF Typed
<1>4. TypeOK'
  BY <1>1, <1>3, Nothing DEF TypeOK, ReqWhole, CronWhole
<1>5. ASSUME NEW d \in Domain PROVE IssuedOnly(d)'
  BY <1>1, InvFacts, OnlyStays, Nothing
<1>6. ASSUME NEW d \in Domain, d \notin disturbed' PROVE Consistent(d)'
  <2>1. Consistent(d) /\ IssuedOnly(d)
    BY <1>1, <1>6, InvFacts
  <2>2. tjMap[d].cert = NoCert /\ tjMap'[d].cert = NoCert /\ cron.d # d
    BY <1>1, <1>6, Nothing
  <2>3. \A r \in Req : req[r].d # d
    BY <1>1, <1>6, InvFacts, Nothing, Names
  <2>4. \A r \in Req : req'[r].d # d
    BY <1>1, Nothing, Names
  <2>5. CertificateIsKept(d)'
    BY <1>1, <2>1, <2>2, <2>3 DEF Consistent, CertificateIsKept, IssuedOnly
  <2>6. RequestFollows(d)'
    BY <2>4 DEF RequestFollows
  <2>7. RecordIsRecent(d)'
    BY <2>2 DEF RecordIsRecent
  <2>8. JobFollows(d)'
    BY <1>1, <2>1, Nothing, Names DEF Consistent, JobFollows
  <2> QED
    BY <1>1, <2>1, <2>5, <2>6, <2>7, <2>8 DEF Consistent, RecordedIsServed
<1> QED
  BY <1>4, <1>5, <1>6 DEF CertInv

LEMMA TickInv == CertInv /\ Tick => CertInv'
<1> SUFFICES ASSUME CertInv, Tick PROVE CertInv'
  OBVIOUS
<1>1. /\ UNCHANGED <<server_hosts, seen, tjMap, req, cron, issued, served, provisioned,
                     uploaded, claimed, disturbed, fails, warnings, unsent>>
      /\ taken' = [d \in Domain |-> {}]
      /\ today < MaxDay /\ today' = today + 1
      /\ cron.at = "idle" /\ \A r \in Req : req[r].at = "idle"
      /\ Typed
  BY InvFacts DEF Tick, Busy, table, world, history, reports
<1>2. warned
  BY DEF Tick
<1>3. warned' = FALSE /\ ran' = FALSE
  BY DEF Tick
<1>4. today' \in Grace..MaxDay /\ today + Life <= today' + Life /\ today \in Int /\ Life \in Int
  <2>1. today \in Grace..MaxDay
    BY <1>1 DEF Typed
  <2> QED
    BY <1>1, <2>1, Numbers
<1>5. Typed'
  <2>1. warned' \in BOOLEAN /\ ran' \in BOOLEAN
    BY <1>3
  <2> QED
    BY <1>1, <1>4, <2>1 DEF Typed
<1>6. TypeOK'
  BY <1>1, <1>5, InvFacts, ReqStays, CronStays DEF TypeOK, Grows
<1>7. ASSUME NEW d \in Domain PROVE IssuedOnly(d)'
  <2>1. /\ IssuedOnly(d) /\ \A c \in issued[d] : c.until \in Int
        /\ server_hosts[d].ssl_at \in Int /\ seen[d].ssl_at \in Int
        /\ cron.copy[d].ssl_at \in Int
    BY <1>1, InvFacts DEF Typed, CronType, Row, Held
  <2> QED
    BY <1>1, <1>4, <2>1 DEF IssuedOnly, Held
<1>8. ASSUME NEW d \in Domain, d \notin disturbed' PROVE Consistent(d)'
  <2>1. Consistent(d) /\ tjMap[d].cert.until \in Int
    BY <1>1, <1>8, InvFacts DEF IssuedOnly
  <2>2. \A r \in Req : req[r].d # d
    BY <1>1, InvFacts, Nothing, Names
  <2>3. RecordIsRecent(d)'
    <3>1. tjMap[d].cert # NoCert => tjMap[d].cert.until = today + Life
      BY <1>2, <2>1 DEF Consistent, RecordIsRecent
    <3>2. tjMap[d].cert # NoCert => tjMap[d].cert.until + 1 >= today' + Life
      BY <1>1, <1>4, <2>1, <3>1
    <3> QED
      BY <1>1, <1>3, <3>2 DEF RecordIsRecent
  <2>4. RequestFollows(d)'
    BY <1>1, <2>2 DEF RequestFollows
  <2> QED
    BY <1>1, <2>1, <2>3, <2>4
       DEF Consistent, CertificateIsKept, RecordedIsServed, JobFollows
<1> QED
  BY <1>6, <1>7, <1>8 DEF CertInv

LEMMA CertStep == CertInv /\ [Next]_vars => CertInv'
<1> SUFFICES ASSUME CertInv, [Next]_vars PROVE CertInv'
  OBVIOUS
<1>1. ASSUME NEW r \in Req,
             \/ \E d \in Domain, s \in Supplier : PostServerDomain(r, d, s)
             \/ Provision(r) \/ Obtain(r) \/ UploadCert(r) \/ SaveRow(r)
      PROVE  CertInv'
  BY <1>1, PostInv, ProvisionInv, ObtainInv, UploadInv, SaveInv
<1>2. ASSUME NEW d \in Domain, Pick(d) PROVE CertInv'
  BY <1>2, PickInv
<1>3. ASSUME NEW d \in Edited, GetServersHost(d) \/ PostServerHost(d) \/ ServerHostDel(d)
      PROVE  CertInv'
  <2>1. d \in Domain
    BY CertAssumption
  <2> QED
    BY <1>3, <2>1, FormInv, DeleteInv
<1>4. ASSUME \/ UploadCDNDomainCert \/ CronObtain \/ CronUpload \/ PutServerHostById
             \/ EndOfRun
      PROVE  CertInv'
  BY <1>4, StartJobInv, CronObtainInv, CronUploadInv, PutInv, EndOfRunInv
<1>5. ASSUME TaskDay \/ Restart \/ Tick PROVE CertInv'
  BY <1>5, TaskDayInv, RestartInv, TickInv
<1>6. CASE UNCHANGED vars
  <2>1. UNCHANGED <<server_hosts, seen, tjMap, req, cron, today, warned, ran, issued, served,
                    taken, provisioned, uploaded, claimed, disturbed, fails, warnings, unsent>>
    BY <1>6 DEF vars, table, days, world, history, reports
  <2>2. Grows /\ Typed'
    BY <2>1, InvFacts DEF Grows, Typed
  <2>3. TypeOK'
    BY <2>1, <2>2, InvFacts, ReqStays, CronStays DEF TypeOK
  <2>4. ASSUME NEW d \in Domain PROVE IssuedOnly(d)'
    BY <2>1, InvFacts, OnlyStays
  <2>5. ASSUME NEW d \in Domain, d \notin disturbed' PROVE Consistent(d)'
    <3>1. RequestsSame(d) /\ JobSame(d)
      BY <2>1 DEF RequestsSame, JobSame
    <3> QED
      BY <2>1, <2>5, <3>1, InvFacts, Frame
  <2> QED
    BY <2>3, <2>4, <2>5 DEF CertInv
<1> QED
  BY <1>1, <1>2, <1>3, <1>4, <1>5, <1>6 DEF Next

\* A certificate that was issued is uploaded, or waits with somebody who will upload
\* it; and a row claims at most one day more than the domain is served with, unless
\* one of the causes named in the model came between.
THEOREM CertificatesAreKept == Spec => []CertInv
<1>1. Init => CertInv
  BY CertInit
<1>2. CertInv /\ [Next]_vars => CertInv'
  BY CertStep
<1> QED
  BY <1>1, <1>2, PTL DEF Spec

\* While a certificate waits in the row, the job has no second one issued.
THEOREM WaitingIsUsedFirst == Spec => NoSecondIssue
<1>1. ASSUME CertInv, NEW d \in Domain, cron.at = "obtain", cron.d = d, d \notin disturbed
      PROVE  server_hosts[d].pend = NoCert
  <2>1. cron.cert = NoCert /\ Consistent(d)
    BY <1>1, InvFacts DEF CronWhole
  <2> QED
    BY <1>1, <2>1 DEF Consistent, JobFollows
<1>2. CertInv /\ [Next]_vars =>
        [\A d \in Domain :
           /\ cron.at = "obtain" /\ cron.d = d /\ issued'[d] # issued[d]
           /\ d \in cron.live /\ d \notin disturbed
           => server_hosts[d].pend = NoCert]_vars
  BY <1>1
<1> QED
  BY <1>2, CertificatesAreKept, PTL DEF Spec, NoSecondIssue

\* A row at a supplier means the domain was set up there, unless the retry of a
\* request named another.
THEOREM RowsAreSetUp == Spec => RowIsProvisioned
<1>1. ASSUME CertInv, NEW r \in Req, req[r].at = "save", req[r].by = req[r].sup
      PROVE  req[r].sup \in provisioned[req[r].d]
  BY <1>1, InvFacts DEF ReqWhole
<1>2. CertInv /\ [Next]_vars =>
        [\A r \in Req :
           /\ req[r].at = "save" /\ req'[r].at = "idle"
           /\ server_hosts' # server_hosts
           /\ req[r].by = req[r].sup
           => req[r].sup \in provisioned[req[r].d]]_vars
  BY <1>1
<1> QED
  BY <1>2, CertificatesAreKept, PTL DEF Spec, RowIsProvisioned

(***************************************************************************)
(* The days of a domain's window (DomainCert).                             *)
(***************************************************************************)
LEMMA WindowNumbers ==
  /\ Life \in Nat /\ Renew \in Nat /\ Warn \in Nat /\ Grace \in Nat /\ Week \in Nat
  /\ IssueLimit \in Nat /\ Guess \in Nat
  /\ Warn < Renew /\ Renew + Week <= Life /\ 2 * Renew + Grace <= Life + 2
  /\ Week > 0 /\ IssueLimit > 1
  BY CertAssumption

\* Each undisturbed domain's faults and reports keep up with the days.
EachOnTime == \A d \in Domain \ disturbed : OnTime(d)

LEMMA RowFacts ==
  ASSUME CertInv, NEW d \in Domain
  PROVE  /\ server_hosts[d] \in Row /\ server_hosts[d].ssl_at \in Int
         /\ fails[d] \in Nat /\ warnings[d] \in Nat /\ unsent[d] \in Nat
         /\ today \in Nat /\ today >= Grace
         /\ \A c \in Held(d) : c.until \in Int
<1>1. Typed /\ fails[d] \in 0..MaxFails /\ today \in Grace..MaxDay
  BY InvFacts DEF Typed
<1> QED
  BY <1>1, InvFacts, Numbers DEF Typed

LEMMA NextFacts ==
  ASSUME CertInv', NEW d \in Domain
  PROVE  server_hosts'[d].ssl_at \in Int /\ fails'[d] \in Nat
<1>1. server_hosts' \in [Domain -> Row] /\ fails' \in [Domain -> 0..MaxFails]
  BY DEF CertInv, TypeOK, Typed
<1>2. server_hosts'[d] \in Row /\ fails'[d] \in 0..MaxFails
  BY <1>1
<1> QED
  BY <1>2, Numbers DEF Row

\* The row has the same date, and is looked after as before.
SameClaim(d) ==
  /\ server_hosts'[d].ssl_at = server_hosts[d].ssl_at
  /\ LookedAfter(d)' => LookedAfter(d)

LEMMA SameRow ==
  ASSUME NEW d, server_hosts'[d] = server_hosts[d]
  PROVE  SameClaim(d)
  BY DEF SameClaim, LookedAfter

\* The count of such a row grows with its faults.
LEMMA FaultsStay ==
  ASSUME CertInv, CertInv', NEW d \in Domain, AFaultADay(d),
         SameClaim(d), today' = today, fails'[d] >= fails[d],
         Tried(d)' => Tried(d) \/ fails'[d] > fails[d]
  PROVE  AFaultADay(d)'
<1>1. /\ server_hosts[d].ssl_at \in Int /\ fails[d] \in Nat /\ today \in Nat
      /\ fails'[d] \in Nat
  BY RowFacts, NextFacts
<1>2. Tried(d) \in BOOLEAN /\ Tried(d)' \in BOOLEAN
  BY InvFacts DEF Tried, Typed
<1> QED
  BY <1>1, <1>2, WindowNumbers DEF AFaultADay, SameClaim, DaysTried

LEMMA WarningsStay ==
  ASSUME CertInv, NEW d \in Domain, AWarningADay(d),
         SameClaim(d), today' = today, warned' = warned,
         warnings'[d] = warnings[d], unsent'[d] = unsent[d]
  PROVE  AWarningADay(d)'
  BY DEF AWarningADay, SameClaim, DaysWarned, TimesReported

\* A row that was just written has no day of its window behind it.
LEMMA NewRow ==
  ASSUME CertInv, CertInv', NEW d \in Domain, today' = today,
         server_hosts'[d].ssl_at >= today + Renew, fails'[d] = 0, warnings'[d] = 0,
         unsent'[d] = 0
  PROVE  AFaultADay(d)' /\ AWarningADay(d)'
<1>1. server_hosts'[d].ssl_at \in Int /\ today \in Nat
  BY RowFacts, NextFacts
<1>2. DaysTried(d)' <= 0 /\ DaysWarned(d)' <= 0
  BY <1>1, WindowNumbers DEF DaysTried, DaysWarned
<1>3. DaysTried(d)' \in Int /\ DaysWarned(d)' \in Int
  BY <1>1, WindowNumbers DEF DaysTried, DaysWarned
<1> QED
  BY <1>2, <1>3 DEF AFaultADay, AWarningADay, TimesReported

LEMMA DueStays ==
  ASSUME NEW d \in Domain, RenewalIsDue(d), JobSame(d),
         server_hosts'[d] = server_hosts[d], today' = today
  PROVE  RenewalIsDue(d)'
  BY DEF RenewalIsDue, JobSame, IssuedInWindow, Within

LEMMA TimeFrame ==
  ASSUME CertInv, CertInv', NEW d \in Domain, OnTime(d), RequestsSame(d), JobSame(d),
         UNCHANGED <<today, warned>>,
         server_hosts'[d] = server_hosts[d], tjMap'[d] = tjMap[d], issued'[d] = issued[d],
         warnings'[d] = warnings[d], unsent'[d] = unsent[d], fails'[d] >= fails[d],
         Tried(d)' => Tried(d) \/ fails'[d] > fails[d]
  PROVE  OnTime(d)'
<1>1. AFaultADay(d)' /\ AWarningADay(d)' /\ RenewalIsDue(d)'
  BY FaultsStay, SameRow, WarningsStay, DueStays DEF OnTime
<1>2. LaterIsAtHand(d)'
  <2> SUFFICES ASSUME NEW c \in issued[d]
               PROVE  \/ c.until <= server_hosts[d].ssl_at
                      \/ server_hosts[d].pend = c
                      \/ tjMap[d].cert = c
                      \/ \E r \in Req : req'[r].d = d /\ req'[r].cert = c
                      \/ cron'.d = d /\ cron'.cert = c
    BY DEF LaterIsAtHand
  <2> QED
    BY DEF OnTime, LaterIsAtHand, RequestsSame, JobSame
<1>3. RequestIsRecent(d)'
  BY DEF OnTime, RequestIsRecent, RequestsSame
<1> QED
  BY <1>1, <1>2, <1>3 DEF OnTime

\* Requests do not touch the job.
LEMMA JobRests ==
  ASSUME NEW d, cron' = cron, ran' = ran
  PROVE  JobSame(d) /\ (Tried(d)' <=> Tried(d))
  BY DEF JobSame, Tried

LEMMA OnTimeElsewhere ==
  ASSUME CertInv, CertInv', NEW r \in Req, NEW k, req' = [req EXCEPT ![r] = k],
         UNCHANGED <<cron, ran, today, warned>>,
         NEW e \in Domain, OnTime(e), req[r].d # e, k.d # e,
         server_hosts'[e] = server_hosts[e], tjMap'[e] = tjMap[e], issued'[e] = issued[e],
         warnings'[e] = warnings[e], unsent'[e] = unsent[e], fails'[e] >= fails[e]
  PROVE  OnTime(e)'
<1>1. RequestsSame(e) /\ JobSame(e) /\ (Tried(e)' <=> Tried(e))
  BY ReqElsewhere, JobRests, InvFacts
<1> QED
  BY <1>1, TimeFrame

\* The parts a request's step leaves alone, of its own domain.
LEMMA RequestOnTime ==
  ASSUME CertInv, CertInv', NEW d \in Domain, OnTime(d),
         UNCHANGED <<cron, ran, today, warned>>, server_hosts'[d] = server_hosts[d],
         warnings'[d] = warnings[d], unsent'[d] = unsent[d], fails'[d] >= fails[d]
  PROVE  AFaultADay(d)' /\ AWarningADay(d)' /\ RenewalIsDue(d)'
<1>1. JobSame(d) /\ (Tried(d)' <=> Tried(d))
  BY JobRests
<1> QED
  BY <1>1, FaultsStay, SameRow, WarningsStay, DueStays DEF OnTime

LEMMA MoreFaults ==
  ASSUME CertInv, CertInv', NEW d \in Domain, Fault(d) \/ UNCHANGED fails
  PROVE  /\ \A e \in Domain : fails'[e] >= fails[e]
         /\ \A e \in Domain \ {d} : fails'[e] = fails[e]
         /\ Fault(d) => fails'[d] = fails[d] + 1
<1>1. \A e \in Domain : fails[e] \in Nat
  BY RowFacts
<1>2. Typed
  BY InvFacts
<1> QED
  BY <1>1, <1>2 DEF Fault, Typed

LEMMA PostOnTime ==
  ASSUME CertInv, CertInv', EachOnTime, NEW r \in Req, NEW d \in Domain, NEW s \in Supplier,
         PostServerDomain(r, d, s)
  PROVE  EachOnTime'
<1> DEFINE k == [at |-> IF tjMap[d].is THEN "obtain" ELSE "provision", d |-> d, sup |-> s,
                 by |-> IF tjMap[d].is THEN tjMap[d].by ELSE s, cert |-> tjMap[d].cert]
<1>1. /\ req' = [req EXCEPT ![r] = k]
      /\ disturbed' = IF \E q \in Req : req[q].d = d THEN disturbed \cup {d} ELSE disturbed
      /\ UNCHANGED <<server_hosts, tjMap, cron, today, warned, ran, issued, fails, warnings,
                     unsent>>
  BY DEF PostServerDomain, Disturb, table, days, world, reports
<1>2. req[r] = Idle
  BY InvFacts DEF PostServerDomain, Busy
<1>3. k.d = d /\ k.cert = tjMap[d].cert /\ k.at # "save"
  OBVIOUS
<1> HIDE DEF k
<1>4. \A q \in Req : req'[q] = IF q = r THEN k ELSE req[q]
  BY <1>1, InvFacts DEF Typed
<1>5. \A e \in Domain : fails[e] >= fails[e]
  BY RowFacts
<1>6. ASSUME NEW e \in Domain, e \notin disturbed' PROVE OnTime(e)'
  <2>1. OnTime(e) /\ Consistent(e)
    BY <1>1, <1>6, InvFacts DEF EachOnTime
  <2>2. CASE e # d
    BY <1>1, <1>2, <1>3, <1>5, <2>1, <2>2, OnTimeElsewhere, Nothing, Names
  <2>3. CASE e = d
    <3>1. \A q \in Req : req[q].d # d
      BY <1>1, <1>6, <2>3
    <3>2. AFaultADay(d)' /\ AWarningADay(d)' /\ RenewalIsDue(d)'
      BY <1>1, <1>5, <2>1, <2>3, RequestOnTime
    <3>3. LaterIsAtHand(d)'
      BY <1>1, <2>1, <2>3, <3>1 DEF OnTime, LaterIsAtHand
    <3>4. RequestIsRecent(d)'
      <4>1. tjMap[d].cert # NoCert => tjMap[d].cert.until + 1 >= today + Life
        <5>1. tjMap[d].cert.until \in Int /\ today \in Int /\ Life \in Int
          BY InvFacts DEF IssuedOnly
        <5> QED
          BY <2>1, <2>3, <5>1 DEF Consistent, RecordIsRecent
      <4> QED
        BY <1>1, <1>3, <1>4, <3>1, <4>1 DEF RequestIsRecent
    <3> QED
      BY <2>3, <3>2, <3>3, <3>4 DEF OnTime
  <2> QED
    BY <2>2, <2>3
<1> QED
  BY <1>6 DEF EachOnTime

LEMMA ProvisionOnTime ==
  ASSUME CertInv, CertInv', EachOnTime, NEW r \in Req, Provision(r),
         NEW d, d = req[r].d, NEW s, s = req[r].sup
  PROVE  EachOnTime'
<1>1. /\ d \in Domain /\ s \in Supplier /\ req[r].cert = NoCert
      /\ req[r].at = "provision" /\ req[r] \in ReqType
      /\ \A q \in Req : d \notin disturbed /\ req[q].d = d => q = r
      /\ Typed
  BY ReqFacts, InvFacts DEF Provision, ReqWhole
<1>2. /\ UNCHANGED <<server_hosts, cron, today, warned, ran, issued, disturbed, warnings, unsent>>
      /\ Fault(d) \/ UNCHANGED fails
  BY DEF Provision, table, days, reports
<1>3. PICK k \in ReqType :
        /\ req' = [req EXCEPT ![r] = k]
        /\ \/ k = Idle
           \/ /\ k.d = d /\ k.sup = s /\ k.by = s /\ k.cert = NoCert
              /\ k.at \in {"obtain", "save"} /\ s \in provisioned'[d]
              /\ k.at = "save" => s \in Proxy
  BY ProvisionComesTo
<1>4. /\ \A e \in Domain : e # d => tjMap'[e] = tjMap[e]
      /\ tjMap'[d] = tjMap[d] \/ tjMap'[d].cert = NoCert
  BY <1>1 DEF Provision, Typed
<1>5. \A q \in Req : req'[q] = IF q = r THEN k ELSE req[q]
  BY <1>1, <1>3 DEF Typed
<1>6. ASSUME NEW e \in Domain, e \notin disturbed' PROVE OnTime(e)'
  <2>1. OnTime(e) /\ Consistent(e) /\ fails'[e] >= fails[e]
    BY <1>1, <1>2, <1>6, InvFacts, MoreFaults DEF EachOnTime
  <2>2. CASE e # d
    <3>1. k.d # e
      BY <1>3, <2>2, Nothing, Names
    <3> QED
      BY <1>1, <1>2, <1>3, <1>4, <2>1, <2>2, <3>1, OnTimeElsewhere
  <2>3. CASE e = d
    <3>1. \A c \in issued[d] : c # NoCert
      BY <1>1, InvFacts DEF IssuedOnly
    <3>2. AFaultADay(d)' /\ AWarningADay(d)' /\ RenewalIsDue(d)'
      BY <1>2, <2>1, <2>3, RequestOnTime
    <3>3. tjMap[d].cert = NoCert
      BY <1>1, <2>1, <2>3 DEF Consistent, RequestFollows
    <3>4. LaterIsAtHand(d)'
      BY <1>1, <1>2, <1>6, <2>1, <2>3, <3>1, <3>3 DEF OnTime, LaterIsAtHand
    <3>5. RequestIsRecent(d)'
      BY <1>1, <1>2, <1>3, <1>5, <1>6, <2>3, Nothing, Names DEF RequestIsRecent
    <3> QED
      BY <2>3, <3>2, <3>4, <3>5 DEF OnTime
  <2> QED
    BY <2>2, <2>3
<1> QED
  BY <1>6 DEF EachOnTime

LEMMA OneAtMost ==
  ASSUME NEW S, NEW x, S \subseteq {x}
  PROVE  Cardinality(S) \in Nat /\ Cardinality(S) <= 1
<1>1. CASE S = {}
  BY <1>1, FS_EmptySet
<1>2. CASE S = {x}
  BY <1>2, FS_Singleton
<1> QED
  BY <1>1, <1>2

\* The issuer refuses nobody for one recent certificate.
LEMMA NotRefused ==
  ASSUME NEW d, NEW c, NEW x, Recent(d) \subseteq {x}
  PROVE  ~Issue(d, c, "already issued")
<1>1. Cardinality(Recent(d)) \in Nat /\ Cardinality(Recent(d)) <= 1
  BY OneAtMost
<1> QED
  BY <1>1, WindowNumbers DEF Issue

\* A request without a certificate, of a domain without a row: none was issued.
LEMMA NewIsNotRefused ==
  ASSUME CertInv, NEW r \in Req, req[r].at = "obtain", req[r].cert = NoCert,
         NEW d, d = req[r].d, d \notin disturbed, OnTime(d), server_hosts[d] = NoRow,
         NEW c
  PROVE  ~Issue(d, c, "already issued")
<1>1. /\ d \in Domain /\ Consistent(d)
      /\ \A q \in Req : req[q].d = d => q = r
  BY ReqFacts, InvFacts
<1>2. tjMap[d].cert = NoCert /\ cron.d # d
  BY <1>1 DEF Consistent, RequestFollows, JobFollows
<1>3. \A x \in issued[d] : x # NoCert /\ x.until > 0 /\ x.until \in Int
  BY <1>1, InvFacts DEF IssuedOnly, Held
<1>4. issued[d] = {}
  BY <1>1, <1>2, <1>3, Nothing DEF OnTime, LaterIsAtHand
<1>5. Recent(d) \subseteq {NoCert}
  BY <1>4 DEF Recent
<1> QED
  BY <1>5, NotRefused

\* Nor is the job: what was issued lately is with one request, or with tjMap.
LEMMA JobIsNotRefused ==
  ASSUME CertInv, NEW d \in Domain, cron.d = d, cron.at = "obtain", d \notin disturbed,
         OnTime(d), NEW c
  PROVE  ~Issue(d, c, "already issued")
<1>1. Consistent(d) /\ cron.cert = NoCert
  BY InvFacts DEF CronWhole
<1>2. server_hosts[d].pend = NoCert
  BY <1>1 DEF Consistent, JobFollows
<1>3. \A x \in issued[d] : x # NoCert /\ x.until \in Int
  BY InvFacts DEF IssuedOnly, Held
<1>4. \A x \in Recent(d) : ~(x.until <= server_hosts[d].ssl_at)
  <2> SUFFICES ASSUME NEW x \in Recent(d), x.until <= server_hosts[d].ssl_at PROVE FALSE
    OBVIOUS
  <2>1. /\ x.until - Life > today - Week /\ x.until \in Int /\ today \in Nat
        /\ server_hosts[d].ssl_at \in Int
    BY <1>3, RowFacts DEF Recent
  <2>2. server_hosts[d].ssl_at < today + Renew
    BY DEF OnTime, RenewalIsDue, Within
  <2> QED
    BY <2>1, <2>2, WindowNumbers
<1>5. \A x \in Recent(d) : \/ tjMap[d].cert = x
                          \/ \E r \in Req : req[r].d = d /\ req[r].cert = x
  BY <1>1, <1>2, <1>3, <1>4 DEF OnTime, LaterIsAtHand, Recent
<1>6. CASE \E r \in Req : req[r].d = d
  <2> PICK r \in Req : req[r].d = d
    BY <1>6
  <2>1. req[r].at \in {"provision", "obtain", "upload", "save"}
    BY InvFacts, Nothing, Names DEF ReqType
  <2>2. tjMap[d].cert \in {NoCert, req[r].cert} /\ \A q \in Req : req[q].d = d => q = r
    BY <1>1, <2>1 DEF Consistent, RequestFollows
  <2>3. Recent(d) \subseteq {req[r].cert}
    BY <1>3, <1>5, <2>2 DEF Recent
  <2> QED
    BY <2>3, NotRefused
<1>7. CASE ~\E r \in Req : req[r].d = d
  <2>1. Recent(d) \subseteq {tjMap[d].cert}
    BY <1>5, <1>7
  <2> QED
    BY <2>1, NotRefused
<1> QED
  BY <1>6, <1>7

LEMMA ObtainOnTime ==
  ASSUME CertInv, CertInv', EachOnTime, NEW r \in Req, Obtain(r), NEW d, d = req[r].d
  PROVE  EachOnTime'
<1>1. /\ d \in Domain /\ req[r].at = "obtain" /\ req[r] \in ReqType
      /\ \A q \in Req : d \notin disturbed /\ req[q].d = d => q = r
      /\ Typed
  BY ReqFacts, InvFacts DEF Obtain, ReqWhole
<1>2. UNCHANGED <<server_hosts, cron, today, warned, ran, disturbed, warnings, unsent>>
  BY DEF Obtain, table, days, reports
<1>3. PICK k \in ReqType : Obtained(r, d, k)
  BY ObtainComesTo
<1> USE DEF Obtained
<1>4. /\ Fault(d) \/ UNCHANGED fails
      /\ \A e \in Domain : e # d => issued'[e] = issued[e] /\ tjMap'[e] = tjMap[e]
      /\ tjMap'[d] = tjMap[d] \/ (tjMap'[d] = NoRecord /\ req[r].cert = NoCert)
      /\ \/ issued'[d] = issued[d] /\ k.cert = req[r].cert
         \/ /\ k.d = d /\ issued'[d] = issued[d] \cup {k.cert} /\ k.at = "upload"
            /\ k.cert.until = today + Life /\ req[r].cert = NoCert
  <2>1. CASE /\ k.at = "upload" /\ req[r].cert = NoCert
             /\ Issue(d, k.cert, "issued") /\ UNCHANGED tjMap
    <3>1. k.cert \in Cert /\ UNCHANGED fails /\ k.d = d
      BY <1>3, <2>1, Nothing DEF ReqType, Issue
    <3> QED
      BY <1>1, <2>1, <3>1, IssuedFacts
  <2>2. CASE req[r].cert = NoCert /\ k.cert = NoCert
             /\ (Issue(d, NoCert, "already issued") \/ Issue(d, NoCert, "error"))
    <3>1. UNCHANGED issued /\ (Fault(d) \/ UNCHANGED fails)
      BY <2>2 DEF Issue
    <3> QED
      BY <1>1, <1>3, <2>2, <3>1, Nothing DEF Typed
  <2> QED
    BY <1>3, <2>1, <2>2, Nothing
<1>5. \A q \in Req : req'[q] = IF q = r THEN k ELSE req[q]
  BY <1>1, <1>3 DEF Typed
<1>6. ASSUME NEW e \in Domain, e \notin disturbed' PROVE OnTime(e)'
  <2>1. OnTime(e) /\ Consistent(e) /\ fails'[e] >= fails[e]
    BY <1>1, <1>2, <1>4, <1>6, InvFacts, MoreFaults DEF EachOnTime
  <2>2. CASE e # d
    <3>1. k.d # e
      BY <1>3, <2>2, Nothing, Names
    <3> QED
      BY <1>1, <1>2, <1>3, <1>4, <2>1, <2>2, <3>1, OnTimeElsewhere
  <2>3. CASE e = d
    <3>1. \A c \in issued[d] : c # NoCert
      BY <1>1, InvFacts DEF IssuedOnly
    <3>2. AFaultADay(d)' /\ AWarningADay(d)' /\ RenewalIsDue(d)'
      BY <1>2, <2>1, <2>3, RequestOnTime
    <3>3. tjMap[d].cert = req[r].cert /\ tjMap'[d].cert = req[r].cert
      BY <1>1, <1>4, <2>1, <2>3, Nothing DEF Consistent, RequestFollows
    <3>4. LaterIsAtHand(d)'
      <4> SUFFICES ASSUME NEW c \in issued'[d]
                   PROVE  \/ c.until <= server_hosts[d].ssl_at
                          \/ server_hosts[d].pend = c
                          \/ tjMap'[d].cert = c
                          \/ \E q \in Req : req'[q].d = d /\ req'[q].cert = c
                          \/ cron.d = d /\ cron.cert = c
        BY <1>2 DEF LaterIsAtHand
      <4>1. CASE c \in issued[d]
        BY <1>1, <1>2, <1>6, <2>1, <2>3, <3>3, <4>1 DEF OnTime, LaterIsAtHand
      <4>2. CASE c \notin issued[d]
        <5>1. req'[r].d = d /\ req'[r].cert = c
          BY <1>4, <1>5, <4>2
        <5> QED
          BY <5>1
      <4> QED
        BY <4>1, <4>2
    <3>5. RequestIsRecent(d)'
      <4>1. \A q \in Req : req'[q].d = d => q = r
        BY <1>1, <1>2, <1>5, <1>6, <2>3
      <4>2. k.cert # NoCert => k.cert.until + 1 >= today + Life
        <5>1. CASE k.cert = req[r].cert
          BY <2>1, <2>3, <5>1 DEF OnTime, RequestIsRecent
        <5>2. CASE k.cert.until = today + Life
          BY <5>2, InvFacts
        <5> QED
          BY <1>4, <5>1, <5>2
      <4>3. k.at = "save" => server_hosts[d] # NoRow
        BY <1>2, <1>3, <1>6, <1>1, <2>1, <2>3, NewIsNotRefused, Nothing
      <4> QED
        BY <1>2, <1>5, <4>1, <4>2, <4>3 DEF RequestIsRecent
    <3> QED
      BY <2>3, <3>2, <3>4, <3>5 DEF OnTime
  <2> QED
    BY <2>2, <2>3
<1> QED
  BY <1>6 DEF EachOnTime

LEMMA UploadOnTime ==
  ASSUME CertInv, CertInv', EachOnTime, NEW r \in Req, UploadCert(r),
         NEW d, d = req[r].d, NEW c, c = req[r].cert
  PROVE  EachOnTime'
<1>1. /\ d \in Domain /\ req[r].sup \in Supplier /\ c \in Cert
      /\ req[r].at = "upload" /\ req[r] \in ReqType /\ Typed
      /\ \A q \in Req : d \notin disturbed /\ req[q].d = d => q = r
  BY ReqFacts, InvFacts DEF UploadCert, UploadAnswered
<1>2. UNCHANGED <<server_hosts, cron, today, warned, ran, issued, warnings, unsent>>
  BY DEF UploadCert, UploadAnswered, table, days, reports
<1>3. PICK ok \in BOOLEAN :
        /\ Upload(d, req[r].sup, c, ok)
        /\ req' = [req EXCEPT ![r] = IF ok THEN [@ EXCEPT !.at = "save"] ELSE Idle]
        /\ tjMap' = [tjMap EXCEPT ![d] = IF ok THEN NoRecord
                                         ELSE [is |-> TRUE, cert |-> c, by |-> req[r].by]]
  BY DEF UploadCert, UploadAnswered
<1>4. disturbed \subseteq disturbed' /\ (Fault(d) \/ UNCHANGED fails)
  BY <1>1, <1>3, UploadFacts DEF Upload
<1>5. /\ \A e \in Domain : e # d => tjMap'[e] = tjMap[e]
      /\ ok \/ tjMap'[d].cert = c
  BY <1>1, <1>3 DEF Typed
<1>6. PICK k : /\ req' = [req EXCEPT ![r] = k]
               /\ (~ok /\ k = Idle) \/ (ok /\ k.at = "save" /\ k.d = d /\ k.cert = c)
  <2> DEFINE k == IF ok THEN [req[r] EXCEPT !.at = "save"] ELSE Idle
  <2>1. ok => k.at = "save" /\ k.d = d /\ k.cert = c
    BY <1>1 DEF ReqType
  <2>2. req' = [req EXCEPT ![r] = k]
    BY <1>3
  <2>3. ~ok => k = Idle
    OBVIOUS
  <2> HIDE DEF k
  <2> QED
    BY <2>1, <2>2, <2>3
<1>7. \A q \in Req : req'[q] = IF q = r THEN k ELSE req[q]
  BY <1>1, <1>6 DEF Typed
<1>8. ASSUME NEW e \in Domain, e \notin disturbed' PROVE OnTime(e)'
  <2>1. OnTime(e) /\ fails'[e] >= fails[e] /\ e \notin disturbed
    BY <1>1, <1>4, <1>8, InvFacts, MoreFaults DEF EachOnTime
  <2>2. CASE e # d
    <3>1. k.d # e
      BY <1>6, <2>2, Nothing, Names
    <3> QED
      BY <1>1, <1>2, <1>5, <1>6, <2>1, <2>2, <3>1, OnTimeElsewhere
  <2>3. CASE e = d
    <3>1. AFaultADay(d)' /\ AWarningADay(d)' /\ RenewalIsDue(d)'
      BY <1>2, <2>1, <2>3, RequestOnTime
    <3>2. tjMap[d].cert \in {NoCert, c} /\ \A q \in Req : req[q].d = d => q = r
      BY <1>1, <2>1, <2>3, UploadIsRecent
    <3>3. LaterIsAtHand(d)'
      <4> SUFFICES ASSUME NEW x \in issued[d]
                   PROVE  \/ x.until <= server_hosts[d].ssl_at
                          \/ server_hosts[d].pend = x
                          \/ tjMap'[d].cert = x
                          \/ \E q \in Req : req'[q].d = d /\ req'[q].cert = x
                          \/ cron.d = d /\ cron.cert = x
        BY <1>2 DEF LaterIsAtHand
      <4>1. x # NoCert
        BY <1>1, InvFacts DEF IssuedOnly
      <4>2. CASE x = c
        <5>1. ok => req'[r].d = d /\ req'[r].cert = c
          BY <1>6, <1>7
        <5> QED
          BY <1>5, <4>2, <5>1
      <4>3. CASE x # c
        BY <2>1, <2>3, <3>2, <4>1, <4>3 DEF OnTime, LaterIsAtHand
      <4> QED
        BY <4>2, <4>3
    <3>4. RequestIsRecent(d)'
      <4>1. \A q \in Req : req'[q].d = d => q = r /\ ok /\ req'[q].cert = c
        BY <1>1, <1>6, <1>7, <3>2, Nothing, Names
      <4>2. c # NoCert /\ c.until + 1 >= today + Life
        BY <1>1, <2>1, <2>3, InvFacts DEF OnTime, RequestIsRecent, ReqWhole
      <4> QED
        BY <1>2, <4>1, <4>2 DEF RequestIsRecent
    <3> QED
      BY <2>3, <3>1, <3>3, <3>4 DEF OnTime
  <2> QED
    BY <2>2, <2>3
<1> QED
  BY <1>8 DEF EachOnTime

\* A new row has a certificate of today or yesterday, or is of a proxy.
LEMMA SaveOnTime ==
  ASSUME CertInv, CertInv', EachOnTime, NEW r \in Req, SaveRow(r),
         NEW d, d = req[r].d, NEW c, c = req[r].cert
  PROVE  EachOnTime'
<1>1. /\ d \in Domain /\ req[r].sup \in Supplier /\ c \in Held(d)
      /\ req[r].at = "save" /\ Typed
      /\ \A q \in Req : d \notin disturbed /\ req[q].d = d => q = r
  BY ReqFacts, InvFacts DEF SaveRow
<1>2. /\ UNCHANGED <<tjMap, cron, today, warned, ran, issued>>
      /\ req' = [req EXCEPT ![r] = Idle]
  BY DEF SaveRow, days, world, reports
<1>3. PICK row : /\ row = [ssl_at |-> IF c # NoCert THEN c.until
                                      ELSE IF req[r].by \in Cdn THEN today + Guess ELSE 0,
                           pend |-> NoCert, sup |-> req[r].sup, renewable |-> TRUE]
                 /\ \/ /\ server_hosts[d] = NoRow
                       /\ server_hosts' = [server_hosts EXCEPT ![d] = row]
                       /\ fails' = [fails EXCEPT ![d] = 0]
                       /\ warnings' = [warnings EXCEPT ![d] = 0]
                       /\ unsent' = [unsent EXCEPT ![d] = 0]
                       /\ UNCHANGED disturbed
                    \/ /\ Fault(d) \/ UNCHANGED fails
                       /\ disturbed' = disturbed \cup {d}
                       /\ UNCHANGED <<server_hosts, warnings, unsent>>
  BY DEF SaveRow, Disturb, reports
<1>4. /\ row.pend = NoCert /\ row.sup = req[r].sup
      /\ c # NoCert => row.ssl_at = c.until
  BY <1>3
<1>5. disturbed \subseteq disturbed'
  BY <1>3
<1>6. \A q \in Req : req'[q] = IF q = r THEN Idle ELSE req[q]
  BY <1>1, <1>2 DEF Typed
<1>7. ASSUME NEW e \in Domain, e \notin disturbed' PROVE OnTime(e)'
  <2>1. OnTime(e) /\ Consistent(e) /\ e \notin disturbed
    BY <1>5, <1>7, InvFacts DEF EachOnTime
  <2>2. CASE e # d
    <3>1. /\ server_hosts'[e] = server_hosts[e] /\ warnings'[e] = warnings[e]
          /\ unsent'[e] = unsent[e] /\ fails'[e] = fails[e] /\ fails[e] \in Nat
      BY <1>1, <1>3, <2>2, MoreFaults, RowFacts DEF Typed
    <3>2. fails'[e] >= fails[e] /\ Idle.d # e /\ req[r].d # e
      BY <2>2, <3>1, Nothing, Names
    <3> QED
      BY <1>2, <2>1, <3>1, <3>2, OnTimeElsewhere
  <2>3. CASE e = d
    <3>1. /\ server_hosts[d] = NoRow /\ server_hosts'[d] = row
          /\ fails'[d] = 0 /\ warnings'[d] = 0 /\ unsent'[d] = 0
      BY <1>1, <1>3, <1>7, <2>3 DEF Typed
    <3>2. /\ tjMap[d].cert = NoCert /\ d \notin cron.todo /\ d # cron.d
          /\ \A q \in Req : req[q].d = d => q = r
      BY <1>1, <2>1, <2>3, <3>1 DEF Consistent, RequestFollows, JobFollows
    <3>3. \A q \in Req : req'[q].d # d
      BY <1>1, <1>6, <3>2, Nothing, Names
    <3>4. AFaultADay(d)' /\ AWarningADay(d)'
      <4>1. CASE c # NoCert
        <5>1. c.until + 1 >= today + Life /\ c.until \in Int /\ today \in Nat
          BY <1>1, <2>1, <2>3, <4>1, RowFacts DEF OnTime, RequestIsRecent
        <5>2. server_hosts'[d].ssl_at >= today + Renew
          BY <1>4, <3>1, <4>1, <5>1, WindowNumbers
        <5> QED
          BY <1>1, <1>2, <3>1, <5>2, NewRow
      <4>2. CASE c = NoCert
        <5>1. server_hosts'[d].sup \in Proxy
          BY <1>1, <1>4, <2>1, <2>3, <3>1, <4>2 DEF OnTime, RequestIsRecent
        <5> QED
          BY <5>1, Names DEF AFaultADay, AWarningADay, LookedAfter
      <4> QED
        BY <4>1, <4>2
    <3>5. LaterIsAtHand(d)'
      <4> SUFFICES ASSUME NEW x \in issued[d] PROVE x.until <= row.ssl_at
        BY <1>2, <3>1 DEF LaterIsAtHand
      <4>1. x # NoCert /\ x.until > 0 /\ x.until \in Int
        BY <1>1, InvFacts DEF IssuedOnly, Held
      <4>2. x = c
        BY <2>1, <2>3, <3>1, <3>2, <4>1, Nothing DEF OnTime, LaterIsAtHand
      <4> QED
        BY <1>4, <4>1, <4>2
    <3>6. RenewalIsDue(d)'
      BY <1>2, <1>4, <3>1, <3>2 DEF RenewalIsDue, IssuedInWindow
    <3>7. RequestIsRecent(d)'
      BY <3>3 DEF RequestIsRecent
    <3> QED
      BY <2>3, <3>4, <3>5, <3>6, <3>7 DEF OnTime
  <2> QED
    BY <2>2, <2>3
<1> QED
  BY <1>7 DEF EachOnTime

\* Outside of its window nothing is counted for a row.
LEMMA NotDue ==
  ASSUME CertInv, CertInv', NEW d \in Domain, AFaultADay(d), ~Within(d, Renew),
         server_hosts'[d] = server_hosts[d], today' = today, fails'[d] = fails[d]
  PROVE  AFaultADay(d)'
<1>1. server_hosts[d].ssl_at \in Int /\ fails[d] \in Nat /\ today \in Nat
  BY RowFacts
<1>2. Tried(d) \in BOOLEAN /\ Tried(d)' \in BOOLEAN
  BY InvFacts DEF Tried, Typed
<1> QED
  BY <1>1, <1>2, WindowNumbers DEF AFaultADay, DaysTried, Within, LookedAfter

LEMMA StartOnTime ==
  ASSUME CertInv, CertInv', EachOnTime, UploadCDNDomainCert
  PROVE  EachOnTime'
<1> DEFINE rows == {d \in Domain : Within(d, Renew)}
<1>1. /\ UNCHANGED <<server_hosts, tjMap, req, today, warned, issued, disturbed, fails,
                     warnings, unsent>>
      /\ cron = CronIdle
      /\ \/ cron' = cron /\ ran' = TRUE /\ rows = {}
         \/ /\ cron' = [CronIdle EXCEPT !.at = "next", !.todo = rows,
                                        !.copy = server_hosts, !.live = rows]
            /\ ran' = ran
  BY InvFacts DEF UploadCDNDomainCert, CronWhole, table, world, history, reports
<1>2. \/ cron' = CronIdle /\ rows = {}
      \/ cron'.at = "next" /\ cron'.todo = rows /\ cron'.d = "none" /\ ran' = ran
  BY <1>1 DEF CronIdle
<1>3. \A d \in Domain : d \in rows <=> Within(d, Renew)
  OBVIOUS
<1> HIDE DEF rows
<1>4. ASSUME NEW d \in Domain, d \notin disturbed' PROVE OnTime(d)'
  <2>1. OnTime(d)
    BY <1>1, <1>4 DEF EachOnTime
  <2>2. d # cron.d /\ d # cron'.d /\ d \notin cron.todo
    BY <1>1, <1>2, Nothing, Names
  <2>3. AFaultADay(d)'
    <3>1. CASE d \notin rows
      BY <1>1, <1>3, <2>1, <3>1, NotDue DEF OnTime
    <3>2. CASE d \in rows
      <4>1. Tried(d)' => Tried(d)
        BY <1>2, <3>2 DEF Tried
      <4>2. fails'[d] >= fails[d]
        BY <1>1, RowFacts
      <4> QED
        BY <1>1, <2>1, <4>1, <4>2, SameRow, FaultsStay DEF OnTime
    <3> QED
      BY <3>1, <3>2
  <2>4. AWarningADay(d)'
    BY <1>1, <2>1, SameRow, WarningsStay DEF OnTime
  <2>5. LaterIsAtHand(d)'
    BY <1>1, <2>1, <2>2 DEF OnTime, LaterIsAtHand
  <2>6. RenewalIsDue(d)'
    <3>1. d \in cron'.todo => Within(d, Renew)
      BY <1>2, <1>3, Nothing
    <3> QED
      BY <1>1, <2>1, <2>2, <3>1 DEF OnTime, RenewalIsDue, IssuedInWindow, Within
  <2>7. RequestIsRecent(d)'
    BY <1>1, <2>1 DEF OnTime, RequestIsRecent
  <2> QED
    BY <2>3, <2>4, <2>5, <2>6, <2>7 DEF OnTime
<1> QED
  BY <1>4 DEF EachOnTime

\* Of a domain the job is not at.
LEMMA JobOnTimeElsewhere ==
  ASSUME CertInv, CertInv', NEW e \in Domain, OnTime(e), e # cron.d, e # cron'.d,
         UNCHANGED <<req, today, warned, ran>>,
         cron'.copy = cron.copy, cron'.live = cron.live, cron'.todo \subseteq cron.todo,
         e \in cron.todo => e \in cron'.todo, cron.at # "idle",
         server_hosts'[e] = server_hosts[e], tjMap'[e] = tjMap[e], issued'[e] = issued[e],
         warnings'[e] = warnings[e], unsent'[e] = unsent[e], fails'[e] = fails[e]
  PROVE  OnTime(e)'
<1>1. RequestsSame(e) /\ JobSame(e) /\ (Tried(e)' => Tried(e))
  BY JobElsewhere DEF Tried
<1>2. fails'[e] >= fails[e]
  BY RowFacts
<1> QED
  BY <1>1, <1>2, TimeFrame

LEMMA PickOnTime ==
  ASSUME CertInv, CertInv', EachOnTime, NEW d \in Domain, Pick(d),
         NEW c, c = cron.copy[d].pend
  PROVE  EachOnTime'
<1>1. /\ cron.at = "next" /\ cron.d = "none" /\ d \in cron.todo
      /\ UNCHANGED <<server_hosts, tjMap, req, today, warned, ran, issued, disturbed, warnings,
                     unsent>>
      /\ cron \in CronType
  BY InvFacts DEF Pick, PickWith, CronWhole, table, days, world, reports, Typed
<1>2. /\ cron'.todo = cron.todo \ {d} /\ cron'.copy = cron.copy /\ cron'.live = cron.live
      /\ \/ /\ cron'.at \in {"obtain", "upload"} /\ cron'.d = d /\ cron'.cert = c
            /\ UNCHANGED fails
         \/ cron'.at = "next" /\ cron'.d = "none" /\ Fault(d)
  BY <1>1 DEF CronType, Pick, PickWith
<1>3. ASSUME NEW e \in Domain, e \notin disturbed' PROVE OnTime(e)'
  <2>1. OnTime(e) /\ Consistent(e)
    BY <1>1, <1>3, InvFacts DEF EachOnTime
  <2>2. CASE e # d
    <3>1. fails'[e] = fails[e]
      BY <1>2, <2>2, MoreFaults
    <3> QED
      BY <1>1, <1>2, <2>1, <2>2, <3>1, JobOnTimeElsewhere, Names
  <2>3. CASE e = d
    <3>1. AFaultADay(d)'
      <4>1. fails'[d] >= fails[d] /\ (Tried(d)' => Tried(d) \/ fails'[d] > fails[d])
        <5>1. CASE UNCHANGED fails /\ cron'.d = d /\ cron'.at \in {"obtain", "upload"}
          BY <1>1, <5>1, RowFacts DEF Tried
        <5>2. CASE Fault(d)
          BY <5>2, MoreFaults, RowFacts
        <5> QED
          BY <1>2, <5>1, <5>2
      <4> QED
        BY <1>1, <2>1, <2>3, <4>1, SameRow, FaultsStay DEF OnTime
    <3>2. AWarningADay(d)'
      BY <1>1, <2>1, <2>3, SameRow, WarningsStay DEF OnTime
    <3>3. LaterIsAtHand(d)'
      BY <1>1, <2>1, <2>3, Names DEF OnTime, LaterIsAtHand
    <3>4. RenewalIsDue(d)'
      <4>1. Within(d, Renew) /\ server_hosts[d].pend = c
        BY <1>1, <2>1, <2>3 DEF OnTime, RenewalIsDue, Consistent, JobFollows
      <4> QED
        BY <1>1, <1>2, <2>1, <2>3, <4>1, Names
           DEF OnTime, RenewalIsDue, IssuedInWindow, Within
    <3>5. RequestIsRecent(d)'
      BY <1>1, <2>1, <2>3 DEF OnTime, RequestIsRecent
    <3> QED
      BY <2>3, <3>1, <3>2, <3>3, <3>4, <3>5 DEF OnTime
  <2> QED
    BY <2>2, <2>3
<1> QED
  BY <1>3 DEF EachOnTime

LEMMA CronObtainOnTime ==
  ASSUME CertInv, CertInv', EachOnTime, CronObtain, NEW d, d = cron.d
  PROVE  EachOnTime'
<1>1. /\ cron.at = "obtain" /\ cron.cert = NoCert /\ d \in Domain /\ d \notin cron.todo
      /\ UNCHANGED <<server_hosts, tjMap, req, today, warned, ran, disturbed, warnings, unsent>>
      /\ cron \in CronType
  BY JobFacts, InvFacts DEF CronObtain, CronWhole, table, days, reports
<1>2. PICK c \in Cert :
        \/ Issue(d, c, "issued") /\ cron' = [cron EXCEPT !.at = "upload", !.cert = c]
        \/ /\ Issue(d, c, "already issued") \/ Issue(d, c, "error")
           /\ cron' = Continue
  BY DEF CronObtain
<1>3. /\ cron'.todo = cron.todo /\ cron'.copy = cron.copy /\ cron'.live = cron.live
      /\ \/ /\ cron'.at = "upload" /\ cron'.d = d /\ cron'.cert = c
            /\ Issue(d, c, "issued")
         \/ /\ cron'.at = "next" /\ cron'.d = "none"
            /\ Issue(d, c, "already issued") \/ Issue(d, c, "error")
  BY <1>1, <1>2, ContinueFacts DEF CronType
<1>4. /\ \A e \in Domain : e # d => issued'[e] = issued[e]
      /\ Fault(d) \/ UNCHANGED fails
      /\ \/ /\ cron'.at = "upload" /\ cron'.d = d /\ cron'.cert = c
            /\ issued'[d] = issued[d] \cup {c} /\ c.until = today + Life /\ UNCHANGED fails
         \/ /\ cron'.at = "next" /\ cron'.d = "none" /\ issued'[d] = issued[d]
            /\ Issue(d, c, "already issued") \/ Fault(d)
  <2>1. CASE Issue(d, c, "issued") /\ cron'.at = "upload" /\ cron'.d = d /\ cron'.cert = c
    <3>1. UNCHANGED fails
      BY <2>1 DEF Issue
    <3> QED
      BY <1>1, <2>1, <3>1, IssuedFacts
  <2>2. CASE /\ Issue(d, c, "already issued") \/ Issue(d, c, "error")
             /\ cron'.at = "next" /\ cron'.d = "none"
    <3>1. UNCHANGED issued /\ (Fault(d) \/ UNCHANGED fails)
      BY <2>2 DEF Issue
    <3>2. Issue(d, c, "error") => Fault(d)
      BY DEF Issue
    <3> QED
      BY <2>2, <3>1, <3>2
  <2> QED
    BY <1>3, <2>1, <2>2
<1>5. ASSUME NEW e \in Domain, e \notin disturbed' PROVE OnTime(e)'
  <2>1. OnTime(e) /\ Consistent(e)
    BY <1>1, <1>5, InvFacts DEF EachOnTime
  <2>2. CASE e # d
    <3>1. fails'[e] = fails[e] /\ e # cron'.d
      BY <1>1, <1>3, <1>4, <2>2, MoreFaults, Names
    <3> QED
      BY <1>1, <1>3, <1>4, <2>1, <2>2, <3>1, JobOnTimeElsewhere
  <2>3. CASE e = d
    <3>1. ~Issue(d, c, "already issued")
      BY <1>1, <1>5, <2>1, <2>3, JobIsNotRefused
    <3>2. AFaultADay(d)'
      <4>1. fails'[d] >= fails[d] /\ (Tried(d)' => Tried(d) \/ fails'[d] > fails[d])
        <5>1. CASE UNCHANGED fails /\ cron'.d = d /\ cron'.at = "upload"
          BY <1>1, <5>1, RowFacts DEF Tried
        <5>2. CASE Fault(d)
          BY <1>1, <5>2, MoreFaults, RowFacts
        <5> QED
          BY <1>4, <3>1, <5>1, <5>2
      <4> QED
        BY <1>1, <2>1, <2>3, <4>1, SameRow, FaultsStay DEF OnTime
    <3>3. AWarningADay(d)'
      BY <1>1, <2>1, <2>3, SameRow, WarningsStay DEF OnTime
    <3>4. LaterIsAtHand(d)'
      <4> SUFFICES ASSUME NEW x \in issued'[d]
                   PROVE  \/ x.until <= server_hosts[d].ssl_at
                          \/ server_hosts[d].pend = x
                          \/ tjMap[d].cert = x
                          \/ \E r \in Req : req[r].d = d /\ req[r].cert = x
                          \/ cron'.d = d /\ cron'.cert = x
        BY <1>1 DEF LaterIsAtHand
      <4>1. CASE x \in issued[d]
        <5>1. x # NoCert
          BY <1>1, <4>1, InvFacts DEF IssuedOnly
        <5> QED
          BY <1>1, <2>1, <2>3, <4>1, <5>1 DEF OnTime, LaterIsAtHand
      <4>2. CASE x \notin issued[d]
        BY <1>4, <4>2
      <4> QED
        BY <4>1, <4>2
    <3>5. RenewalIsDue(d)'
      <4>1. Within(d, Renew) /\ IssuedInWindow(d, server_hosts[d].pend)
        BY <1>1, <2>1, <2>3 DEF OnTime, RenewalIsDue
      <4>2. cron'.d = d => server_hosts[d].ssl_at - Renew < cron'.cert.until - Life
        <5>1. server_hosts[d].ssl_at \in Int /\ today \in Nat
          BY <1>1, RowFacts
        <5>2. server_hosts[d].ssl_at < today + Renew
          BY <4>1 DEF Within
        <5>3. cron'.d = d => cron'.cert.until = today + Life
          BY <1>1, <1>4, Names
        <5> QED
          BY <5>1, <5>2, <5>3, WindowNumbers
      <4> QED
        BY <1>1, <1>3, <4>1, <4>2 DEF RenewalIsDue, IssuedInWindow, Within
    <3>6. RequestIsRecent(d)'
      BY <1>1, <2>1, <2>3 DEF OnTime, RequestIsRecent
    <3> QED
      BY <2>3, <3>2, <3>3, <3>4, <3>5, <3>6 DEF OnTime
  <2> QED
    BY <2>2, <2>3
<1> QED
  BY <1>5 DEF EachOnTime

LEMMA CronUploadOnTime ==
  ASSUME CertInv, CertInv', EachOnTime, CronUpload, NEW d, d = cron.d, NEW c, c = cron.cert
  PROVE  EachOnTime'
<1>1. /\ cron.at = "upload" /\ d \in Domain /\ d \notin cron.todo /\ c \in Cert
      /\ UNCHANGED <<server_hosts, tjMap, req, today, warned, ran, issued, warnings, unsent>>
      /\ cron \in CronType /\ cron.copy[d].sup \in Supplier \cup {"none"}
  BY JobFacts, InvFacts DEF CronUpload, table, days, reports
<1>2. PICK ok \in BOOLEAN :
        /\ Upload(d, cron.copy[d].sup, c, ok)
        /\ cron' = [cron EXCEPT !.at = IF ok THEN "renewed" ELSE "pending"]
  BY DEF CronUpload
<1>3. disturbed \subseteq disturbed'
  BY <1>1, <1>2, UploadFacts
<1>4. /\ cron'.at = (IF ok THEN "renewed" ELSE "pending") /\ cron'.d = d /\ cron'.cert = c
      /\ cron'.todo = cron.todo /\ cron'.copy = cron.copy /\ cron'.live = cron.live
  BY <1>1, <1>2 DEF CronType
<1>5. (ok /\ UNCHANGED fails) \/ Fault(d)
  BY <1>2 DEF Upload
<1>6. ASSUME NEW e \in Domain, e \notin disturbed' PROVE OnTime(e)'
  <2>1. OnTime(e)
    BY <1>3, <1>6 DEF EachOnTime
  <2>2. CASE e # d
    <3>1. fails'[e] = fails[e]
      BY <1>1, <1>5, <2>2, MoreFaults
    <3> QED
      BY <1>1, <1>4, <2>1, <2>2, <3>1, JobOnTimeElsewhere
  <2>3. CASE e = d
    <3>1. AFaultADay(d)'
      <4>1. fails'[d] >= fails[d] /\ (Tried(d)' => Tried(d) \/ fails'[d] > fails[d])
        <5>1. CASE ok /\ UNCHANGED fails
          BY <1>1, <1>4, <5>1, RowFacts DEF Tried
        <5>2. CASE Fault(d)
          BY <1>1, <5>2, MoreFaults, RowFacts
        <5> QED
          BY <1>5, <5>1, <5>2
      <4> QED
        BY <1>1, <2>1, <2>3, <4>1, SameRow, FaultsStay DEF OnTime
    <3>2. AWarningADay(d)'
      BY <1>1, <2>1, <2>3, SameRow, WarningsStay DEF OnTime
    <3>3. LaterIsAtHand(d)'
      BY <1>1, <1>4, <2>1, <2>3 DEF OnTime, LaterIsAtHand
    <3>4. RenewalIsDue(d)'
      BY <1>1, <1>4, <2>1, <2>3 DEF OnTime, RenewalIsDue, IssuedInWindow, Within
    <3>5. RequestIsRecent(d)'
      BY <1>1, <2>1, <2>3 DEF OnTime, RequestIsRecent
    <3> QED
      BY <2>3, <3>1, <3>2, <3>3, <3>4, <3>5 DEF OnTime
  <2> QED
    BY <2>2, <2>3
<1> QED
  BY <1>6 DEF EachOnTime

\* A certificate issued in the window, up to Grace days after it, still outlasts
\* the next window: what the row claims then is not due before it passed.
LEMMA PutOnTime ==
  ASSUME CertInv, CertInv', EachOnTime, PutServerHostById,
         NEW d, d = cron.d, NEW c, c = cron.cert
  PROVE  EachOnTime'
<1> DEFINE renewed == [server_hosts[d] EXCEPT !.ssl_at = c.until, !.pend = NoCert]
           pending == [server_hosts[d] EXCEPT !.pend = c]
<1>1. /\ cron.at \in {"renewed", "pending"} /\ d \in Domain /\ d \notin cron.todo
      /\ c # NoCert /\ c \in Held(d) /\ cron' = Continue
      /\ UNCHANGED <<tjMap, req, today, warned, ran, issued>>
      /\ cron \in CronType /\ Typed /\ server_hosts[d] \in Row
  BY JobFacts, InvFacts DEF PutServerHostById, WriteRow, CronWhole, days, world, reports
<1>2. \/ /\ server_hosts' = [server_hosts EXCEPT ![d] =
                               IF cron.at = "renewed" THEN renewed ELSE pending]
         /\ IF cron.at = "renewed"
            THEN /\ fails' = [fails EXCEPT ![d] = 0]
                 /\ warnings' = [warnings EXCEPT ![d] = 0]
                 /\ unsent' = [unsent EXCEPT ![d] = 0]
            ELSE UNCHANGED <<fails, warnings, unsent>>
         /\ UNCHANGED disturbed
      \/ /\ d \notin cron.live
         /\ UNCHANGED <<server_hosts, fails, warnings, unsent, disturbed>>
      \/ /\ Fault(d)
         /\ disturbed' = disturbed \cup {d}
         /\ UNCHANGED <<server_hosts, warnings, unsent>>
  BY DEF PutServerHostById, WriteRow, Renewed, Pending, Disturb, reports
<1>3. /\ renewed.ssl_at = c.until /\ renewed.pend = NoCert
      /\ pending.ssl_at = server_hosts[d].ssl_at /\ pending.pend = c
      /\ pending.sup = server_hosts[d].sup /\ pending.renewable = server_hosts[d].renewable
  BY <1>1 DEF Row
<1> HIDE DEF renewed, pending
<1>4. /\ cron'.at = "next" /\ cron'.d = "none" /\ cron'.todo = cron.todo
      /\ cron'.copy = cron.copy /\ cron'.live = cron.live
  BY <1>1, ContinueFacts
<1>5. /\ disturbed \subseteq disturbed'
      /\ \A e \in Domain : e # d => /\ server_hosts'[e] = server_hosts[e]
                                   /\ fails'[e] = fails[e] /\ warnings'[e] = warnings[e]
                                   /\ unsent'[e] = unsent[e]
  BY <1>1, <1>2, MoreFaults DEF Typed
<1>6. ASSUME NEW e \in Domain, e \notin disturbed' PROVE OnTime(e)'
  <2>1. OnTime(e) /\ Consistent(e)
    BY <1>5, <1>6, InvFacts DEF EachOnTime
  <2>2. CASE e # d
    BY <1>1, <1>4, <1>5, <2>1, <2>2, JobOnTimeElsewhere, Names
  <2>3. CASE e = d
    <3>1. /\ d \in cron.live /\ server_hosts[d] # NoRow
          /\ server_hosts[d].pend \in {NoCert, c}
          /\ Within(d, Renew) /\ server_hosts[d].ssl_at - Renew < c.until - Life
      BY <1>1, <2>1, <2>3
         DEF Consistent, JobFollows, OnTime, RenewalIsDue, IssuedInWindow
    <3>2. \/ /\ cron.at = "renewed" /\ server_hosts'[d] = renewed
             /\ fails'[d] = 0 /\ warnings'[d] = 0 /\ unsent'[d] = 0
          \/ /\ cron.at = "pending" /\ server_hosts'[d] = pending
             /\ UNCHANGED <<fails, warnings, unsent>>
      BY <1>1, <1>2, <1>6, <2>3, <3>1 DEF Typed
    <3>3. /\ c.until \in Int /\ today \in Nat /\ server_hosts[d].ssl_at \in Int
          /\ server_hosts[d].ssl_at > today - Grace
      BY <1>1, <3>1, RowFacts DEF Within
    <3>4. c.until >= today + Renew /\ server_hosts[d].ssl_at <= c.until
      BY <3>1, <3>3, WindowNumbers
    <3>5. AFaultADay(d)' /\ AWarningADay(d)'
      <4>1. CASE cron.at = "renewed"
        BY <1>1, <1>3, <3>2, <3>4, <4>1, NewRow
      <4>2. CASE cron.at = "pending"
        <5>1. SameClaim(d) /\ Tried(d)
          BY <1>1, <1>3, <3>1, <3>2, <4>2 DEF SameClaim, LookedAfter, Tried
        <5>2. fails'[d] >= fails[d] /\ warnings'[d] = warnings[d] /\ unsent'[d] = unsent[d]
          BY <1>1, <3>2, <4>2, RowFacts
        <5> QED
          BY <1>1, <2>1, <2>3, <5>1, <5>2, FaultsStay, WarningsStay DEF OnTime
      <4> QED
        BY <1>1, <4>1, <4>2
    <3>6. LaterIsAtHand(d)'
      <4> SUFFICES ASSUME NEW x \in issued[d]
                   PROVE  \/ x.until <= server_hosts'[d].ssl_at
                          \/ server_hosts'[d].pend = x
                          \/ tjMap[d].cert = x
                          \/ \E r \in Req : req[r].d = d /\ req[r].cert = x
        BY <1>1 DEF LaterIsAtHand
      <4>1. x # NoCert /\ x.until \in Int
        BY <1>1, InvFacts DEF IssuedOnly, Held
      <4>2. x.until <= server_hosts[d].ssl_at => x.until <= server_hosts'[d].ssl_at
        BY <1>3, <3>2, <3>3, <3>4, <4>1
      <4>3. x = c => x.until <= server_hosts'[d].ssl_at \/ server_hosts'[d].pend = x
        BY <1>3, <3>2, <3>3
      <4> QED
        BY <2>1, <2>3, <3>1, <4>1, <4>2, <4>3 DEF OnTime, LaterIsAtHand
    <3>7. RenewalIsDue(d)'
      <4>1. server_hosts'[d].pend # NoCert =>
              server_hosts'[d].ssl_at - Renew < server_hosts'[d].pend.until - Life
        BY <1>3, <3>1, <3>2
      <4> QED
        BY <1>1, <1>4, <4>1, Names DEF RenewalIsDue, IssuedInWindow
    <3>8. RequestIsRecent(d)'
      <4>1. server_hosts'[d] = NoRow => server_hosts[d] = NoRow
        <5>1. c.until > 0
          BY <1>1, InvFacts DEF IssuedOnly, Held
        <5> QED
          BY <1>1, <1>3, <3>2, <3>3, <5>1, Nothing
      <4> QED
        BY <1>1, <2>1, <2>3, <3>1, <4>1 DEF OnTime, RequestIsRecent
    <3> QED
      BY <2>3, <3>5, <3>6, <3>7, <3>8 DEF OnTime
  <2> QED
    BY <2>2, <2>3
<1> QED
  BY <1>6 DEF EachOnTime

LEMMA EndOnTime == CertInv /\ CertInv' /\ EachOnTime /\ EndOfRun => EachOnTime'
<1> SUFFICES ASSUME CertInv, CertInv', EachOnTime, EndOfRun PROVE EachOnTime'
  OBVIOUS
<1>1. /\ cron' = CronIdle /\ cron.at = "next" /\ cron.d = "none" /\ cron.todo = {}
      /\ UNCHANGED <<server_hosts, tjMap, req, today, warned, issued, disturbed, fails,
                     warnings, unsent>>
  BY InvFacts DEF EndOfRun, CronWhole, table, world, history, reports
<1>2. ASSUME NEW d \in Domain, d \notin disturbed' PROVE OnTime(d)'
  <2>1. OnTime(d) /\ fails'[d] >= fails[d]
    BY <1>1, <1>2, RowFacts DEF EachOnTime
  <2>2. RequestsSame(d) /\ JobSame(d) /\ Tried(d)
    BY <1>1, <1>2, Nothing, Names DEF RequestsSame, JobSame, Tried
  <2> QED
    BY <1>1, <2>1, <2>2, TimeFrame
<1> QED
  BY <1>2 DEF EachOnTime

LEMMA TaskDayOnTime == CertInv /\ CertInv' /\ EachOnTime /\ TaskDay => EachOnTime'
<1> SUFFICES ASSUME CertInv, CertInv', EachOnTime, TaskDay PROVE EachOnTime'
  OBVIOUS
<1>1. /\ UNCHANGED <<server_hosts, req, cron, today, ran, issued, fails>>
      /\ disturbed' = disturbed \cup {d \in Domain : tjMap[d].cert # NoCert}
      /\ ~warned /\ warned'
      /\ \/ warnings' = Reported(warnings) /\ UNCHANGED unsent
         \/ unsent' = Reported(unsent) /\ UNCHANGED warnings
  BY DEF TaskDay, Kept, Disturb, table, world, reports
<1>2. ASSUME NEW d \in Domain, d \notin disturbed' PROVE OnTime(d)'
  <2>1. OnTime(d) /\ tjMap[d].cert = NoCert /\ fails'[d] >= fails[d]
    BY <1>1, <1>2, RowFacts DEF EachOnTime
  <2>2. /\ server_hosts[d].ssl_at \in Int /\ today \in Nat
        /\ warnings[d] \in Nat /\ unsent[d] \in Nat
    BY RowFacts
  <2>3. JobSame(d) /\ (Tried(d)' <=> Tried(d))
    BY <1>1, JobRests
  <2>4. AFaultADay(d)' /\ RenewalIsDue(d)'
    BY <1>1, <2>1, <2>3, SameRow, FaultsStay, DueStays DEF OnTime
  <2>5. AWarningADay(d)'
    <3>1. CASE Within(d, Warn)
      <4>1. TimesReported(d)' = TimesReported(d) + 1
        BY <1>1, <2>2, <3>1 DEF TimesReported, Reported
      <4> QED
        BY <1>1, <2>1, <2>2, <4>1, WindowNumbers
           DEF OnTime, AWarningADay, DaysWarned, LookedAfter, TimesReported
    <3>2. CASE ~Within(d, Warn)
      <4>1. TimesReported(d)' = TimesReported(d)
        BY <1>1, <2>2, <3>2 DEF TimesReported, Reported
      <4> QED
        BY <1>1, <2>1, <2>2, <3>2, <4>1, WindowNumbers
           DEF OnTime, AWarningADay, DaysWarned, Within, LookedAfter, TimesReported
    <3> QED
      BY <3>1, <3>2
  <2>6. LaterIsAtHand(d)'
    <3>1. \A c \in issued[d] : c # NoCert
      BY InvFacts DEF IssuedOnly
    <3> QED
      BY <1>1, <2>1, <3>1 DEF OnTime, LaterIsAtHand
  <2>7. RequestIsRecent(d)'
    BY <1>1, <2>1 DEF OnTime, RequestIsRecent
  <2> QED
    BY <2>4, <2>5, <2>6, <2>7 DEF OnTime
<1> QED
  BY <1>2 DEF EachOnTime

LEMMA EditOnTime ==
  ASSUME CertInv, CertInv', EachOnTime, NEW d \in Domain,
         GetServersHost(d) \/ PostServerHost(d) \/ ServerHostDel(d)
  PROVE  EachOnTime'
<1>1. /\ UNCHANGED <<tjMap, req, today, warned, ran, issued, fails, warnings, unsent>>
      /\ disturbed \subseteq disturbed'
      /\ \A e \in Domain : e \notin disturbed' => server_hosts'[e] = server_hosts[e]
      /\ cron' = cron \/ (cron' = [cron EXCEPT !.live = @ \ {d}] /\ d \in disturbed')
      /\ cron \in CronType
  <2>1. Typed
    BY InvFacts
  <2>2. CASE GetServersHost(d)
    BY <2>1, <2>2 DEF GetServersHost, Typed, days, world, history, reports
  <2>3. CASE PostServerHost(d)
    BY <2>1, <2>3 DEF PostServerHost, Disturb, Typed, days, world, reports
  <2>4. CASE ServerHostDel(d)
    BY <2>1, <2>4 DEF ServerHostDel, Disturb, Typed, days, world, reports
  <2> QED
    BY <2>2, <2>3, <2>4
<1>2. /\ cron'.at = cron.at /\ cron'.d = cron.d /\ cron'.cert = cron.cert
      /\ cron'.todo = cron.todo /\ cron'.copy = cron.copy
      /\ \A e : e \notin disturbed' /\ e \in cron.live => e \in cron'.live
  BY <1>1 DEF CronType
<1>3. ASSUME NEW e \in Domain, e \notin disturbed' PROVE OnTime(e)'
  <2>1. OnTime(e) /\ fails'[e] >= fails[e]
    BY <1>1, <1>3, RowFacts DEF EachOnTime
  <2>2. RequestsSame(e) /\ JobSame(e) /\ (Tried(e)' => Tried(e))
    BY <1>1, <1>2, <1>3 DEF RequestsSame, JobSame, Tried
  <2> QED
    BY <1>1, <1>3, <2>1, <2>2, TimeFrame
<1> QED
  BY <1>3 DEF EachOnTime

LEMMA RestartOnTime == CertInv /\ CertInv' /\ EachOnTime /\ Restart => EachOnTime'
<1> SUFFICES ASSUME CertInv, CertInv', EachOnTime, Restart PROVE EachOnTime'
  OBVIOUS
<1>1. /\ UNCHANGED <<server_hosts, today, warned, ran, issued, fails, warnings, unsent>>
      /\ req' = [r \in Req |-> Idle] /\ cron' = CronIdle
      /\ disturbed' = disturbed \cup {d \in Domain : tjMap[d].cert # NoCert}
                       \cup {req[r].d : r \in {q \in Req : req[q].at # "idle"}}
                       \cup ({cron.d} \cap Domain)
  BY DEF Restart, Kept, Busy, Disturb, table, days, world, reports
<1>2. ASSUME NEW d \in Domain, d \notin disturbed' PROVE OnTime(d)'
  <2>1. OnTime(d) /\ fails'[d] >= fails[d]
    BY <1>1, <1>2, RowFacts DEF EachOnTime
  <2>2. tjMap[d].cert = NoCert /\ cron.d # d /\ cron'.d # d
    BY <1>1, <1>2, Nothing, Names
  <2>3. \A r \in Req : req[r].d # d /\ req'[r].d # d
    BY <1>1, <1>2, InvFacts, Nothing, Names
  <2>4. AFaultADay(d)' /\ AWarningADay(d)'
    <3>1. Tried(d)' => Tried(d)
      BY <1>1, Nothing DEF Tried
    <3> QED
      BY <1>1, <2>1, <3>1, FaultsStay, SameRow, WarningsStay DEF OnTime
  <2>5. LaterIsAtHand(d)'
    <3>1. \A c \in issued[d] : c # NoCert
      BY InvFacts DEF IssuedOnly
    <3> QED
      BY <1>1, <2>1, <2>2, <2>3, <3>1 DEF OnTime, LaterIsAtHand
  <2>6. RenewalIsDue(d)'
    BY <1>1, <2>1, <2>2, Nothing DEF OnTime, RenewalIsDue, IssuedInWindow
  <2>7. RequestIsRecent(d)'
    BY <2>3 DEF RequestIsRecent
  <2> QED
    BY <2>4, <2>5, <2>6, <2>7 DEF OnTime
<1> QED
  BY <1>2 DEF EachOnTime

\* A day that ends has been counted: the next has not.
LEMMA TickOnTime == CertInv /\ CertInv' /\ EachOnTime /\ Tick => EachOnTime'
<1> SUFFICES ASSUME CertInv, CertInv', EachOnTime, Tick PROVE EachOnTime'
  OBVIOUS
<1>1. /\ UNCHANGED <<server_hosts, tjMap, req, cron, issued, disturbed, fails, warnings, unsent>>
      /\ today' = today + 1 /\ warned /\ ran /\ warned' = FALSE /\ ran' = FALSE
      /\ cron.at = "idle" /\ \A r \in Req : req[r].at = "idle"
  BY DEF Tick, Busy, table, world, history, reports
<1>2. ASSUME NEW d \in Domain, d \notin disturbed' PROVE OnTime(d)'
  <2>1. OnTime(d)
    BY <1>1, <1>2 DEF EachOnTime
  <2>2. /\ server_hosts[d].ssl_at \in Int /\ today \in Nat /\ fails[d] \in Nat
    BY RowFacts
  <2>3. cron.todo = {} /\ cron.d # d
    BY <1>1, InvFacts, Nothing, Names DEF CronWhole
  <2>4. \A r \in Req : req[r].d # d
    BY <1>1, InvFacts, Nothing, Names
  <2>5. AFaultADay(d)'
    <3>1. Tried(d) /\ ~Tried(d)'
      BY <1>1 DEF Tried
    <3>2. DaysTried(d)' = DaysTried(d)
      BY <1>1, <2>2, <3>1, WindowNumbers DEF DaysTried
    <3> QED
      BY <1>1, <2>1, <3>2 DEF OnTime, AFaultADay, LookedAfter
  <2>6. AWarningADay(d)'
    <3>1. DaysWarned(d)' = DaysWarned(d)
      BY <1>1, <2>2, WindowNumbers DEF DaysWarned
    <3> QED
      BY <1>1, <2>1, <3>1 DEF OnTime, AWarningADay, LookedAfter, TimesReported
  <2>7. LaterIsAtHand(d)'
    BY <1>1, <2>1 DEF OnTime, LaterIsAtHand
  <2>8. RenewalIsDue(d)'
    BY <1>1, <2>1, <2>3 DEF OnTime, RenewalIsDue, IssuedInWindow
  <2>9. RequestIsRecent(d)'
    BY <1>1, <2>4 DEF RequestIsRecent
  <2> QED
    BY <2>5, <2>6, <2>7, <2>8, <2>9 DEF OnTime
<1> QED
  BY <1>2 DEF EachOnTime

LEMMA OnTimeStep == CertInv /\ CertInv' /\ EachOnTime /\ [Next]_vars => EachOnTime'
<1> SUFFICES ASSUME CertInv, CertInv', EachOnTime, [Next]_vars PROVE EachOnTime'
  OBVIOUS
<1>1. ASSUME NEW r \in Req,
             \/ \E d \in Domain, s \in Supplier : PostServerDomain(r, d, s)
             \/ Provision(r) \/ Obtain(r) \/ UploadCert(r) \/ SaveRow(r)
      PROVE  EachOnTime'
  BY <1>1, PostOnTime, ProvisionOnTime, ObtainOnTime, UploadOnTime, SaveOnTime
<1>2. ASSUME NEW d \in Domain, Pick(d) PROVE EachOnTime'
  BY <1>2, PickOnTime
<1>3. ASSUME NEW d \in Edited, GetServersHost(d) \/ PostServerHost(d) \/ ServerHostDel(d)
      PROVE  EachOnTime'
  <2>1. d \in Domain
    BY CertAssumption
  <2> QED
    BY <1>3, <2>1, EditOnTime
<1>4. ASSUME \/ UploadCDNDomainCert \/ CronObtain \/ CronUpload \/ PutServerHostById
             \/ EndOfRun
      PROVE  EachOnTime'
  BY <1>4, StartOnTime, CronObtainOnTime, CronUploadOnTime, PutOnTime, EndOnTime
<1>5. ASSUME TaskDay \/ Restart \/ Tick PROVE EachOnTime'
  BY <1>5, TaskDayOnTime, RestartOnTime, TickOnTime
<1>6. CASE UNCHANGED vars
  <2>1. UNCHANGED <<server_hosts, tjMap, req, cron, today, warned, ran, issued, disturbed,
                    fails, warnings, unsent>>
    BY <1>6 DEF vars, table, days, world, history, reports
  <2>2. ASSUME NEW d \in Domain, d \notin disturbed' PROVE OnTime(d)'
    <3>1. OnTime(d) /\ fails'[d] >= fails[d]
      BY <2>1, <2>2, RowFacts DEF EachOnTime
    <3>2. RequestsSame(d) /\ JobSame(d) /\ (Tried(d)' => Tried(d))
      BY <2>1, JobRests DEF RequestsSame
    <3> QED
      BY <2>1, <3>1, <3>2, TimeFrame
  <2> QED
    BY <2>2 DEF EachOnTime
<1> QED
  BY <1>1, <1>2, <1>3, <1>4, <1>5, <1>6 DEF Next

LEMMA OnTimeInit == Init => EachOnTime
<1> SUFFICES ASSUME Init, NEW d \in Domain PROVE OnTime(d)
  BY DEF EachOnTime
<1>1. /\ cron = CronIdle /\ ~ran /\ ~warned /\ today = Grace
      /\ issued[d] = {} /\ fails[d] = 0 /\ warnings[d] = 0 /\ unsent[d] = 0
      /\ \A r \in Req : req[r].d # d
  BY Nothing, Names DEF Init
<1>2. \/ server_hosts[d] = NoRow
      \/ /\ server_hosts[d].ssl_at \in {Grace + Renew, Grace + Life}
         /\ server_hosts[d].pend = NoCert
  BY DEF Init
<1>3. server_hosts[d].pend = NoCert
  BY <1>2, Nothing
<1>4. server_hosts[d] # NoRow => DaysTried(d) <= 0 /\ DaysWarned(d) <= 0
  <2>1. ~Tried(d)
    BY <1>1, Nothing DEF Tried
  <2> QED
    BY <1>1, <1>2, <2>1, WindowNumbers DEF DaysTried, DaysWarned
<1>5. server_hosts[d] # NoRow => 0 >= DaysTried(d) /\ 0 >= DaysWarned(d)
  <2>1. server_hosts[d] # NoRow => DaysTried(d) \in Int /\ DaysWarned(d) \in Int
    BY <1>1, <1>2, WindowNumbers DEF DaysTried, DaysWarned
  <2> QED
    BY <1>4, <2>1
<1> QED
  BY <1>1, <1>3, <1>5, Nothing, Names
     DEF OnTime, AFaultADay, AWarningADay, LaterIsAtHand, RenewalIsDue, IssuedInWindow,
         RequestIsRecent, LookedAfter, TimesReported

\* A domain the job looks after expires only after a fault on each day of its window,
\* and is given up only after a report a day (one that could not be sent included):
\* for any lengths of the window, of a certificate's life and of the issuer's week.
THEOREM NoneExpiresInSilence == Spec => []NoSilentExpiry
<1>1. CertInv /\ EachOnTime => NoSilentExpiry
  <2> SUFFICES ASSUME CertInv, EachOnTime PROVE NoSilentExpiry
    OBVIOUS
  <2>1. ASSUME NEW d \in Domain \ disturbed, LookedAfter(d)
        PROVE  /\ server_hosts[d].ssl_at <= today => fails[d] >= Renew - 1
               /\ server_hosts[d].ssl_at <= today - Grace
                  => TimesReported(d) >= Warn + Grace - 1
    <3>1. /\ server_hosts[d].ssl_at \in Int /\ today \in Nat /\ fails[d] \in Nat
          /\ TimesReported(d) \in Nat
      BY RowFacts DEF TimesReported
    <3>2. /\ fails[d] >= DaysTried(d) \/ fails[d] >= Renew - 1
          /\ TimesReported(d) >= DaysWarned(d) \/ TimesReported(d) >= Warn + Grace - 1
      BY <2>1 DEF EachOnTime, OnTime, AFaultADay, AWarningADay
    <3>3. Tried(d) \in BOOLEAN /\ warned \in BOOLEAN
      BY InvFacts DEF Tried, Typed
    <3> QED
      BY <3>1, <3>2, <3>3, WindowNumbers DEF DaysTried, DaysWarned
  <2> QED
    BY <2>1 DEF NoSilentExpiry, RenewedInTime, GivenUpAfterWarnings, EachOnTime
<1>2. Init => EachOnTime
  BY OnTimeInit
<1>3. CertInv /\ CertInv' /\ EachOnTime /\ [Next]_vars => EachOnTime'
  BY OnTimeStep
<1> QED
  BY <1>1, <1>2, <1>3, CertificatesAreKept, PTL DEF Spec

(***************************************************************************)
(* The CDN drivers (CdnDeploy).                                            *)
(***************************************************************************)
DeployAt == {"idle", "client", "project", "find", "info", "txt", "write", "wait", "verify",
             "again", "add", "modify", "change", "first", "check", "rules", "name", "look",
             "relook", "point", "cert", "bind", "search", "https", "lost"}

LEMMA DeployFacts ==
  ASSUME Cdns!TypeOK, NEW r \in Req
  PROVE  /\ deploy \in [Req -> Cdns!CallType] /\ deploy[r] \in Cdns!CallType
         /\ deploy[r].at \in DeployAt
         /\ deploy[r].at = "idle" => deploy[r] = Cdns!Idle
         /\ deploy[r].at # "idle" => /\ deploy[r].d \in Domain /\ deploy[r].tries # <<>>
                                     /\ deploy[r].o # None <=> deploy[r].c = None
         /\ deploy[r].at = "write" => deploy[r].found \in 0..Len(txt)
  BY DEF Cdns!TypeOK, Cdns!CallType, DeployAt

LEMMA IdleDeploy == Cdns!Idle \in Cdns!CallType /\ Cdns!Idle.at = "idle"
  BY DEF Cdns!Idle, Cdns!CallType

\* What a step of a call may come to: it ends, or it goes on where it may.
Ends(r) == Cdns!Return(r, "ok") \/ Cdns!Return(r, "error") \/ Cdns!Fault(r)

Goes(r, to) ==
  /\ Cdns!Becomes(r, to)
  /\ to \in DeployAt \ {"idle", "write"}
  /\ to \in {"name", "point"} => cacheRules'[deploy[r].d] # None \/ tc = "ucloud"
  /\ to \in {"change", "point"} => deploy[r].d \in named

\* What a step leaves of the zone and the CDN: origins, rules and names stay.
CdnGrows(r) ==
  /\ tc' = tc /\ known' = known /\ area' = area /\ named' = named
  /\ begun' = begun /\ deployOverlapped' = deployOverlapped
  /\ txt' \in Seq(Domain) /\ Len(txt') >= Len(txt) /\ resolved' \subseteq Domain
  /\ verified' \subseteq Domain
  /\ origin' \in [Domain -> Origin \cup {None}]
  /\ cacheRules' \in [Domain -> Origin \cup {None, Cached}]
  /\ https' \in [Domain -> [Cdns!Area -> Pem \cup {None}]]
  /\ \A d \in Domain : /\ origin[d] # None => origin'[d] # None
                       /\ cacheRules[d] # None => cacheRules'[d] # None
  /\ cname' = cname \/ (deploy[r].at = "point" /\ cname' = cname \cup {deploy[r].d})

LEMMA GrowsKeeps ==
  ASSUME Cdns!Inv, NEW r \in Req, deploy[r].at # "idle", CdnGrows(r)
  PROVE  /\ Cdns!PointedIsConfigured'
         /\ \A d \in named' : Cdns!Exists(d)'
         /\ \A d \in Domain : Cdns!HasRules(d) => Cdns!HasRules(d)'
<1>1. Cdns!TypeOK /\ Cdns!PointedIsConfigured /\ Cdns!NamedAreThere
  BY DEF Cdns!Inv
<1>2. \A d \in Domain : Cdns!HasRules(d) => Cdns!HasRules(d)'
  BY DEF CdnGrows, Cdns!HasRules
<1>3. \A d \in Domain : Cdns!Exists(d) => Cdns!Exists(d)'
  BY DEF CdnGrows, Cdns!Exists
<1>4. named \subseteq Domain /\ cname \subseteq Domain /\ named' = named
  BY <1>1 DEF CdnGrows, Cdns!TypeOK
<1>5. \A d \in named' : Cdns!Exists(d)'
  BY <1>1, <1>3, <1>4 DEF Cdns!NamedAreThere
<1>6. deploy[r].at = "point" => deploy[r].d \in named /\ Cdns!HasRules(deploy[r].d)
  BY <1>1 DEF Cdns!NamedAreThere, Cdns!Active
<1>7. Cdns!PointedIsConfigured'
  <2> SUFFICES ASSUME NEW d \in cname'
               PROVE  Cdns!Exists(d)' /\ Cdns!HasRules(d)' /\ d \in named'
    BY DEF Cdns!PointedIsConfigured
  <2>1. CASE d \in cname
    BY <1>1, <1>2, <1>3, <1>4, <2>1 DEF Cdns!PointedIsConfigured
  <2>2. CASE d \notin cname
    <3>1. d = deploy[r].d /\ d \in named /\ Cdns!HasRules(d)
      BY <1>6, <2>2 DEF CdnGrows
    <3> QED
      BY <1>2, <1>4, <1>5, <3>1
  <2> QED
    BY <2>1, <2>2
<1> QED
  BY <1>2, <1>5, <1>7

LEMMA EndsCall ==
  ASSUME Cdns!TypeOK, NEW r \in Req, Ends(r)
  PROVE  /\ deploy' = [deploy EXCEPT ![r] = Cdns!Idle]
         /\ deployAnswer' \in [Req -> {"none", "ok", "error"}]
         /\ faulted' \subseteq Req
  BY DEF Ends, Cdns!Return, Cdns!Fault, Cdns!TypeOK

LEMMA GoesCall ==
  ASSUME Cdns!TypeOK, NEW r \in Req, deploy[r].at # "idle", NEW to, Goes(r, to)
  PROVE  /\ deploy' = [deploy EXCEPT ![r] = [deploy[r] EXCEPT !.at = to]]
         /\ deployAnswer' \in [Req -> {"none", "ok", "error"}]
         /\ faulted' \subseteq Req
         /\ [deploy[r] EXCEPT !.at = to] \in Cdns!CallType
  BY DeployFacts DEF Goes, Cdns!Becomes, Cdns!TypeOK, Cdns!CallType, DeployAt

LEMMA LenGrows ==
  ASSUME txt \in Seq(Domain), txt' \in Seq(Domain), Len(txt') >= Len(txt)
  PROVE  \A i : i \in 0..Len(txt) => i \in 0..Len(txt')
  OBVIOUS

\* A step of one call keeps the invariant.
LEMMA KeepsInv ==
  ASSUME Cdns!Inv, NEW r \in Req, deploy[r].at # "idle", CdnGrows(r),
         NEW c \in Cdns!CallType, deploy' = [deploy EXCEPT ![r] = c],
         deployAnswer' \in [Req -> {"none", "ok", "error"}], faulted' \subseteq Req,
         IF c.at = "idle" THEN c = Cdns!Idle
         ELSE /\ c.d = deploy[r].d /\ c.o = deploy[r].o /\ c.c = deploy[r].c
              /\ c.tries # <<>>
              /\ c.at \in {"name", "point"} => cacheRules'[c.d] # None \/ tc = "ucloud"
              /\ c.at \in {"change", "point"} => c.d \in named
              /\ c.at = "write" => c.found \in 0..Len(txt)
  PROVE  Cdns!Inv'
<1>1. Cdns!TypeOK /\ Cdns!PointedIsConfigured /\ Cdns!NamedAreThere
  BY DEF Cdns!Inv
<1>2. deploy' \in [Req -> Cdns!CallType] /\ \A q \in Req : deploy'[q] = IF q = r THEN c ELSE deploy[q]
  BY <1>1, DeployFacts
<1>3. Cdns!TypeOK'
  <2>1. \A q \in Req : IF deploy'[q].at = "idle" THEN deploy'[q] = Cdns!Idle
                       ELSE /\ deploy'[q].d \in Domain /\ deploy'[q].tries # <<>>
                            /\ deploy'[q].o # None <=> deploy'[q].c = None
    BY <1>1, <1>2, DeployFacts
  <2>2. \A i : i \in 0..Len(txt) => i \in 0..Len(txt')
    BY <1>1, LenGrows DEF Cdns!TypeOK, CdnGrows
  <2>3. \A q \in Req : deploy'[q].at = "write" => deploy'[q].found \in 0..Len(txt')
    BY <1>1, <1>2, <2>2, DeployFacts
  <2> QED
    BY <1>1, <1>2, <2>1, <2>3 DEF Cdns!TypeOK, CdnGrows
<1>4. Cdns!NamedAreThere'
  <2> SUFFICES ASSUME NEW q \in Req, deploy'[q].at # "idle"
               PROVE  /\ deploy'[q].at \in {"name", "point"} => Cdns!HasRules(deploy[q].d)'
                      /\ deploy'[q].at \in {"change", "point"} => deploy'[q].d \in named'
    BY GrowsKeeps DEF Cdns!NamedAreThere, Cdns!Active
  <2>1. named' = named
    BY DEF CdnGrows
  <2>2. CASE q = r
    BY <1>2, <2>1, <2>2 DEF Cdns!HasRules, CdnGrows
  <2>3. CASE q # r
    <3>1. deploy'[q] = deploy[q]
      BY <1>2, <2>3
    <3>2. deploy[q].d \in Domain
      BY <1>1, <3>1, DeployFacts
    <3> QED
      BY <1>1, <2>1, <3>1, <3>2, GrowsKeeps DEF Cdns!NamedAreThere, Cdns!Active
  <2> QED
    BY <2>2, <2>3
<1> QED
  BY <1>3, <1>4, GrowsKeeps DEF Cdns!Inv

LEMMA EndsInv ==
  ASSUME Cdns!Inv, NEW r \in Req, deploy[r].at # "idle", CdnGrows(r), Ends(r)
  PROVE  Cdns!Inv'
<1>1. Cdns!TypeOK
  BY DEF Cdns!Inv
<1> QED
  BY <1>1, EndsCall, IdleDeploy, KeepsInv

LEMMA GoesInv ==
  ASSUME Cdns!Inv, NEW r \in Req, deploy[r].at # "idle", CdnGrows(r), NEW to, Goes(r, to)
  PROVE  Cdns!Inv'
<1>1. Cdns!TypeOK
  BY DEF Cdns!Inv
<1> SUFFICES ASSUME NEW c, c = [deploy[r] EXCEPT !.at = to]
             PROVE  Cdns!Inv'
  OBVIOUS
<1>2. /\ c.at = to /\ c.d = deploy[r].d /\ c.o = deploy[r].o /\ c.c = deploy[r].c
      /\ c.tries = deploy[r].tries
  BY <1>1, DeployFacts DEF Cdns!CallType
<1>3. /\ to # "idle" /\ to # "write"
      /\ to \in {"name", "point"} => cacheRules'[deploy[r].d] # None \/ tc = "ucloud"
      /\ to \in {"change", "point"} => deploy[r].d \in named
  BY DEF Goes
<1>4. deploy[r].tries # <<>>
  BY <1>1, DeployFacts
<1>5. /\ c \in Cdns!CallType /\ deploy' = [deploy EXCEPT ![r] = c]
      /\ deployAnswer' \in [Req -> {"none", "ok", "error"}] /\ faulted' \subseteq Req
  BY <1>1, GoesCall
<1> QED
  BY <1>2, <1>3, <1>4, <1>5, KeepsInv

Still == UNCHANGED <<Cdns!where, begun, deployOverlapped>>
Mid == DeployAt \ {"idle"}
Free == Mid \ {"name", "change", "point", "write"}

LEMMA StillFacts ==
  ASSUME Still
  PROVE  /\ tc' = tc /\ known' = known /\ area' = area
         /\ begun' = begun /\ deployOverlapped' = deployOverlapped
  BY Zenon DEF Still, Cdns!where

LEMMA DnsFacts ==
  ASSUME Cdns!TypeOK
  PROVE  /\ txt \in Seq(Domain) /\ resolved \subseteq Domain
         /\ txt' = txt => Len(txt') >= Len(txt)
         /\ UNCHANGED Cdns!dns => txt' = txt /\ resolved' = resolved /\ cname' = cname
<1>1. txt \in Seq(Domain) /\ resolved \subseteq Domain
  BY Zenon DEF Cdns!TypeOK
<1>2. txt' = txt => Len(txt') >= Len(txt)
  BY <1>1
<1>3. UNCHANGED Cdns!dns => txt' = txt /\ resolved' = resolved /\ cname' = cname
  BY Zenon DEF Cdns!dns
<1> QED
  BY <1>1, <1>2, <1>3

LEMMA CdnFacts ==
  ASSUME Cdns!TypeOK
  PROVE  /\ verified \subseteq Domain
         /\ origin \in [Domain -> Origin \cup {None}]
         /\ cacheRules \in [Domain -> Origin \cup {None, Cached}]
         /\ https \in [Domain -> [Cdns!Area -> Pem \cup {None}]]
         /\ UNCHANGED Cdns!cdn => /\ verified' = verified /\ origin' = origin /\ named' = named
                                  /\ cacheRules' = cacheRules /\ https' = https
  BY Zenon DEF Cdns!TypeOK, Cdns!cdn

LEMMA StillGrows ==
  ASSUME Cdns!TypeOK, NEW r \in Req, Still, UNCHANGED <<Cdns!dns, Cdns!cdn>>
  PROVE  CdnGrows(r)
  BY StillFacts, DnsFacts, CdnFacts DEF CdnGrows

LEMMA FreeGoes ==
  ASSUME NEW r \in Req, NEW to \in Free, Cdns!Becomes(r, to)
  PROVE  Goes(r, to)
  BY DEF Goes, Free, Mid

LEMMA AsksInv ==
  ASSUME Cdns!Inv, NEW r \in Req, NEW from \in Mid, NEW to \in Free, Cdns!Asks(r, from, to), Still
  PROVE  Cdns!Inv'
<1>1. Cdns!TypeOK /\ deploy[r].at # "idle"
  BY DEF Cdns!Inv, Cdns!Asks, Mid
<1>2. CdnGrows(r)
  BY <1>1, StillGrows DEF Cdns!Asks
<1>3. Goes(r, to) \/ Ends(r)
  BY FreeGoes DEF Cdns!Asks, Ends
<1> QED
  BY <1>1, <1>2, <1>3, GoesInv, EndsInv

LEMMA LooksInv ==
  ASSUME Cdns!Inv, NEW r \in Req, NEW from \in Mid, NEW present \in Free, NEW absent \in Free,
         Cdns!Looks(r, from, present, absent), Still
  PROVE  Cdns!Inv'
<1>1. CASE Cdns!Exists(deploy[r].d)
  BY <1>1, AsksInv DEF Cdns!Looks
<1>2. CASE ~Cdns!Exists(deploy[r].d)
  BY <1>2, AsksInv DEF Cdns!Looks
<1> QED
  BY <1>1, <1>2

\* A call that has found a record, or none, goes on to write.
LEMMA FoundInv ==
  ASSUME Cdns!Inv, NEW r \in Req, deploy[r].at # "idle", CdnGrows(r), NEW i \in 0..Len(txt),
         Cdns!Found(r, i)
  PROVE  Cdns!Inv'
<1>1. Cdns!TypeOK
  BY DEF Cdns!Inv
<1> SUFFICES ASSUME NEW c, c = [deploy[r] EXCEPT !.at = "write", !.found = i]
             PROVE  Cdns!Inv'
  OBVIOUS
<1>2. i \in Nat
  BY <1>1 DEF Cdns!TypeOK
<1>3. /\ c \in Cdns!CallType /\ c.at = "write" /\ c.found = i
      /\ c.d = deploy[r].d /\ c.o = deploy[r].o /\ c.c = deploy[r].c /\ c.tries # <<>>
  BY <1>1, <1>2, DeployFacts DEF Cdns!CallType
<1>4. /\ deploy' = [deploy EXCEPT ![r] = c]
      /\ deployAnswer' \in [Req -> {"none", "ok", "error"}] /\ faulted' \subseteq Req
  BY <1>1 DEF Cdns!Found, Cdns!TypeOK
<1> QED
  BY <1>3, <1>4, KeepsInv

\* What the write makes of the records.
LEMMA TxtWritten ==
  ASSUME txt \in Seq(Domain), NEW d \in Domain, NEW i \in 0..Len(txt),
         \/ txt' = IF i = 0 THEN Append(txt, d) ELSE [txt EXCEPT ![i] = d]
         \/ txt' = txt
  PROVE  txt' \in Seq(Domain) /\ Len(txt') >= Len(txt)
<1>1. CASE i = 0 /\ txt' = Append(txt, d)
  BY <1>1
<1>2. CASE i # 0 /\ txt' = [txt EXCEPT ![i] = d]
  BY <1>2
<1>3. CASE txt' = txt
  BY <1>3
<1> QED
  BY <1>1, <1>2, <1>3

LEMMA UpsertTXTInv ==
  ASSUME Cdns!Inv, NEW r \in Req, Cdns!UpsertTXT(r), Still
  PROVE  Cdns!Inv'
<1>1. Cdns!TypeOK /\ deploy[r].at # "idle" /\ deploy[r].d \in Domain
  BY DeployFacts DEF Cdns!Inv, Cdns!UpsertTXT, Cdns!FindTXT, Cdns!WriteTXT
<1>2. {"verify", "wait"} \subseteq Free
  BY DEF Free, Mid, DeployAt
<1>3. CASE Cdns!FindTXT(r)
  <2>1. CdnGrows(r)
    BY <1>1, <1>3, StillGrows DEF Cdns!FindTXT
  <2>2. \/ \E to \in {"verify", "wait"} : Cdns!Becomes(r, to)
        \/ Ends(r)
        \/ \E i \in {0} \cup DOMAIN txt : Cdns!Found(r, i)
    BY <1>3 DEF Cdns!FindTXT, Ends
  <2>3. {0} \cup DOMAIN txt \subseteq 0..Len(txt)
    BY <1>1 DEF Cdns!TypeOK
  <2> QED
    BY <1>1, <1>2, <2>1, <2>2, <2>3, FreeGoes, GoesInv, EndsInv, FoundInv
<1>4. CASE Cdns!WriteTXT(r)
  <2>1. deploy[r].found \in 0..Len(txt) /\ txt \in Seq(Domain)
    BY <1>1, <1>4, DeployFacts DEF Cdns!WriteTXT, Cdns!TypeOK
  <2>2. txt' \in Seq(Domain) /\ Len(txt') >= Len(txt)
    BY <1>1, <1>4, <2>1, TxtWritten DEF Cdns!WriteTXT
  <2>3. CdnGrows(r)
    BY <1>1, <1>4, <2>2, StillFacts, DnsFacts, CdnFacts DEF Cdns!WriteTXT, CdnGrows
  <2>4. Cdns!Becomes(r, "wait") \/ Ends(r)
    BY <1>4 DEF Cdns!WriteTXT, Ends
  <2> QED
    BY <1>1, <1>2, <2>3, <2>4, FreeGoes, GoesInv, EndsInv
<1> QED
  BY <1>3, <1>4 DEF Cdns!UpsertTXT

LEMMA WaitTXTInv ==
  ASSUME Cdns!Inv, NEW r \in Req, Cdns!WaitTXT(r), Still
  PROVE  Cdns!Inv'
<1>1. Cdns!TypeOK /\ deploy[r].at # "idle"
  BY DEF Cdns!Inv, Cdns!WaitTXT
<1>2. CdnGrows(r)
  BY <1>1, StillGrows DEF Cdns!WaitTXT
<1>3. Goes(r, "verify") \/ Ends(r)
  BY DEF Cdns!WaitTXT, Goes, DeployAt, Ends
<1> QED
  BY <1>1, <1>2, <1>3, GoesInv, EndsInv

LEMMA VerifyOwnerInv ==
  ASSUME Cdns!Inv, NEW r \in Req, NEW to \in Free, Cdns!VerifyOwner(r, to), Still
  PROVE  Cdns!Inv'
<1>1. Cdns!TypeOK /\ deploy[r].at # "idle" /\ deploy[r].d \in Domain
  BY DeployFacts DEF Cdns!Inv, Cdns!VerifyOwner
<1>2. CdnGrows(r)
  BY <1>1, StillFacts, DnsFacts, CdnFacts DEF Cdns!VerifyOwner, CdnGrows
<1>3. Goes(r, to) \/ Ends(r)
  BY FreeGoes DEF Cdns!VerifyOwner, Cdns!Ordered, Cdns!NotOrdered, Ends
<1> QED
  BY <1>1, <1>2, <1>3, GoesInv, EndsInv

LEMMA AddDomainInv ==
  ASSUME Cdns!Inv, NEW r \in Req, NEW to \in Free, Cdns!AddDomain(r, to), Still
  PROVE  Cdns!Inv'
<1>1. Cdns!TypeOK /\ deploy[r].at # "idle" /\ deploy[r].d \in Domain
      /\ deploy[r].o \in Origin \cup {None}
  BY DeployFacts DEF Cdns!Inv, Cdns!AddDomain, Cdns!CallType
<1>2. CdnGrows(r)
  <2>1. /\ origin' \in [Domain -> Origin \cup {None}]
        /\ \A d \in Domain : origin[d] # None => origin'[d] # None
    BY <1>1 DEF Cdns!AddDomain, Cdns!TypeOK, Cdns!Ordered, Cdns!Exists
  <2> QED
    BY <1>1, <2>1, StillFacts, DnsFacts, CdnFacts DEF Cdns!AddDomain, CdnGrows
<1>3. Goes(r, to) \/ Ends(r)
  BY FreeGoes DEF Cdns!AddDomain, Cdns!Ordered, Cdns!NotOrdered, Ends
<1> QED
  BY <1>1, <1>2, <1>3, GoesInv, EndsInv

\* A call goes on to ask for the CNAME, or to point there, when rules are set.
LEMMA ConfigureInv ==
  ASSUME Cdns!Inv, NEW r \in Req, NEW from \in Mid, NEW o \in Origin \cup {None},
         NEW s \in Origin \cup {None, Cached}, NEW to \in Mid \ {"change", "write"},
         to \in {"name", "point"} => s # None \/ tc = "ucloud",
         to = "point" => deploy[r].d \in named,
         Cdns!Configure(r, from, o, s, to), Still
  PROVE  Cdns!Inv'
<1>1. Cdns!TypeOK /\ deploy[r].at # "idle" /\ deploy[r].d \in Domain
  BY DeployFacts DEF Cdns!Inv, Cdns!Configure, Mid
<1>2. PICK d \in Domain : d = deploy[r].d
  BY <1>1
<1>3. \/ /\ origin' = [origin EXCEPT ![d] = IF o = None THEN @ ELSE o]
         /\ cacheRules' = [cacheRules EXCEPT ![d] = IF s = None THEN @ ELSE s]
         /\ origin[d] # None
         /\ Cdns!Becomes(r, to) \/ Cdns!Fault(r)
      \/ /\ UNCHANGED <<origin, cacheRules>>
         /\ Ends(r)
  BY <1>2 DEF Cdns!Configure, Cdns!Ordered, Cdns!NotOrdered, Cdns!Exists, Ends
<1>4. CdnGrows(r)
  <2>1. /\ origin' \in [Domain -> Origin \cup {None}]
        /\ \A e \in Domain : origin[e] # None => origin'[e] # None
    BY <1>1, <1>3 DEF Cdns!TypeOK
  <2>2. /\ cacheRules' \in [Domain -> Origin \cup {None, Cached}]
        /\ \A e \in Domain : cacheRules[e] # None => cacheRules'[e] # None
    BY <1>1, <1>3 DEF Cdns!TypeOK
  <2> QED
    BY <1>1, <2>1, <2>2, StillFacts, DnsFacts, CdnFacts DEF Cdns!Configure, CdnGrows
<1>5. Cdns!Becomes(r, to) /\ cacheRules' = [cacheRules EXCEPT ![d] = IF s = None THEN @ ELSE s]
      => Goes(r, to)
  BY <1>1, <1>2 DEF Goes, Mid, Cdns!TypeOK
<1>6. Goes(r, to) \/ Ends(r)
  BY <1>3, <1>5 DEF Ends
<1> QED
  BY <1>1, <1>4, <1>6, GoesInv, EndsInv

LEMMA AskCnameInv ==
  ASSUME Cdns!Inv, NEW r \in Req, NEW from \in Mid, from = "name" \/ tc = "ucloud",
         Cdns!AskCname(r, from, "point"), Still
  PROVE  Cdns!Inv'
<1>1. Cdns!TypeOK /\ deploy[r].at # "idle"
  BY DEF Cdns!Inv, Cdns!AskCname, Mid
<1>2. CdnGrows(r)
  BY <1>1, StillGrows DEF Cdns!AskCname
<1>3. cacheRules[deploy[r].d] # None \/ tc = "ucloud"
  BY <1>1 DEF Cdns!AskCname, Cdns!Inv, Cdns!NamedAreThere, Cdns!Active, Cdns!HasRules
<1>4. Goes(r, "point") \/ Ends(r)
  BY <1>3 DEF Cdns!AskCname, Goes, Ends, DeployAt, Cdns!cdn
<1> QED
  BY <1>1, <1>2, <1>4, GoesInv, EndsInv

LEMMA UpsertCNAMEInv ==
  ASSUME Cdns!Inv, NEW r \in Req, Cdns!UpsertCNAME(r), Still
  PROVE  Cdns!Inv'
<1>1. Cdns!TypeOK /\ deploy[r].at = "point"
  BY DEF Cdns!Inv, Cdns!UpsertCNAME
<1>2. CdnGrows(r)
  BY <1>1, StillFacts, DnsFacts, CdnFacts DEF Cdns!UpsertCNAME, CdnGrows
<1>3. Ends(r)
  BY DEF Cdns!UpsertCNAME, Ends
<1> QED
  BY <1>1, <1>2, <1>3, EndsInv

LEMMA SetHttpsType ==
  ASSUME Cdns!TypeOK, NEW r \in Req, deploy[r].at # "idle", NEW as \in SUBSET Cdns!Area,
         Cdns!SetHttps(r, as)
  PROVE  https' \in [Domain -> [Cdns!Area -> Pem \cup {None}]]
<1>1. PICK d \in Domain, c \in Pem \cup {None} : d = deploy[r].d /\ c = deploy[r].c
  BY DeployFacts DEF Cdns!CallType
<1>2. https' = [https EXCEPT ![d] = [a \in Cdns!Area |-> IF a \in as THEN c ELSE https[d][a]]]
  BY <1>1 DEF Cdns!SetHttps
<1>3. https \in [Domain -> [Cdns!Area -> Pem \cup {None}]]
  BY DEF Cdns!TypeOK
<1> QED
  BY <1>2, <1>3

LEMMA HttpsGrows ==
  ASSUME Cdns!TypeOK, NEW r \in Req, Still,
         UNCHANGED <<Cdns!dns, verified, origin, cacheRules, named>>,
         https' \in [Domain -> [Cdns!Area -> Pem \cup {None}]]
  PROVE  CdnGrows(r)
  BY StillFacts, DnsFacts, CdnFacts DEF CdnGrows

LEMMA PutCertInv ==
  ASSUME Cdns!Inv, NEW r \in Req, NEW from \in Mid, Cdns!PutCert(r, from), Still
  PROVE  Cdns!Inv'
<1>1. Cdns!TypeOK /\ deploy[r].at # "idle"
  BY DEF Cdns!Inv, Cdns!PutCert, Mid
<1>2. https' \in [Domain -> [Cdns!Area -> Pem \cup {None}]]
  <2>1. Cdns!SetHttps(r, Cdns!Area) \/ UNCHANGED https
    BY DEF Cdns!PutCert
  <2> QED
    BY <1>1, <2>1, SetHttpsType DEF Cdns!TypeOK
<1>3. CdnGrows(r)
  BY <1>1, <1>2, HttpsGrows DEF Cdns!PutCert
<1>4. Ends(r)
  BY DEF Cdns!PutCert, Cdns!NotOrdered, Ends
<1> QED
  BY <1>1, <1>3, <1>4, EndsInv

\* The domain is found with its CNAME, or without.
LEMMA FindDomainInv ==
  ASSUME Cdns!Inv, NEW r \in Req, NEW from \in Mid, NEW present \in Free \cup {"change"},
         NEW absent \in Free, present = "change" => deploy[r].d \in named,
         Cdns!getUCloudCDNDomain(r, from, present, absent), Still
  PROVE  Cdns!Inv'
<1>1. CASE Cdns!Looks(r, from, present, absent)
  <2>1. CASE present \in Free
    BY <1>1, <2>1, LooksInv
  <2>2. CASE present = "change" /\ ~Cdns!Exists(deploy[r].d)
    BY <1>1, <2>2, AsksInv DEF Cdns!Looks
  <2>3. CASE present = "change" /\ Cdns!Exists(deploy[r].d)
    <3>1. Cdns!TypeOK /\ deploy[r].at # "idle" /\ Cdns!Asks(r, from, "change")
      BY <1>1, <2>3 DEF Cdns!Inv, Cdns!Looks, Cdns!Asks, Mid
    <3>2. CdnGrows(r)
      BY <3>1, StillGrows DEF Cdns!Asks
    <3>3. Goes(r, "change") \/ Ends(r)
      BY <2>3, <3>1 DEF Cdns!Asks, Goes, Ends, DeployAt
    <3> QED
      BY <3>1, <3>2, <3>3, GoesInv, EndsInv
  <2> QED
    BY <2>1, <2>2, <2>3
<1>2. CASE /\ deploy[r].at = from
           /\ deploy' = [deploy EXCEPT ![r].at = absent]
           /\ faulted' = faulted \cup {r}
           /\ UNCHANGED <<deployAnswer, Cdns!dns, Cdns!cdn>>
  <2>1. Cdns!TypeOK /\ deploy[r].at # "idle"
    BY <1>2 DEF Cdns!Inv, Mid
  <2>2. CdnGrows(r)
    BY <1>2, <2>1, StillGrows
  <2> SUFFICES ASSUME NEW c, c = [deploy[r] EXCEPT !.at = absent]
               PROVE  Cdns!Inv'
    OBVIOUS
  <2>3. /\ c \in Cdns!CallType /\ c.at = absent
        /\ c.d = deploy[r].d /\ c.o = deploy[r].o /\ c.c = deploy[r].c /\ c.tries # <<>>
    BY <2>1, DeployFacts DEF Cdns!CallType, Free, Mid, DeployAt
  <2>4. /\ deploy' = [deploy EXCEPT ![r] = c]
        /\ deployAnswer' \in [Req -> {"none", "ok", "error"}] /\ faulted' \subseteq Req
    BY <1>2, <2>1 DEF Cdns!TypeOK
  <2> QED
    BY <2>1, <2>2, <2>3, <2>4, KeepsInv DEF Free, Mid
<1> QED
  BY <1>1, <1>2 DEF Cdns!getUCloudCDNDomain

LEMMA TriesInv ==
  ASSUME Cdns!Inv, NEW r \in Req, Cdns!updateUCloudCDNHTTPS(r), Still
  PROVE  Cdns!Inv'
<1>1. /\ Cdns!TypeOK /\ deploy[r].at = "https"
      /\ deploy[r] \in Cdns!CallType /\ deploy[r].tries # <<>>
  BY DeployFacts DEF Cdns!Inv, Cdns!updateUCloudCDNHTTPS
<1>2. CdnGrows(r)
  <2>1. Head(deploy[r].tries) \in SUBSET Cdns!Area
    BY <1>1 DEF Cdns!CallType
  <2>2. Cdns!SetHttps(r, Head(deploy[r].tries)) \/ UNCHANGED https
    BY DEF Cdns!updateUCloudCDNHTTPS
  <2>3. https' \in [Domain -> [Cdns!Area -> Pem \cup {None}]]
    BY <1>1, <2>1, <2>2, SetHttpsType, CdnFacts
  <2> QED
    BY <1>1, <2>3, HttpsGrows DEF Cdns!updateUCloudCDNHTTPS
<1>3. CASE Ends(r)
  BY <1>1, <1>2, <1>3, EndsInv
<1>4. CASE /\ Len(deploy[r].tries) # 1
           /\ deploy' = [deploy EXCEPT ![r].tries = Tail(@)]
           /\ faulted' = faulted \cup {r}
           /\ UNCHANGED deployAnswer
  <2> SUFFICES ASSUME NEW c, c = [deploy[r] EXCEPT !.tries = Tail(@)]
               PROVE  Cdns!Inv'
    OBVIOUS
  <2>1. PICK s \in Seq(SUBSET Cdns!Area) : s = deploy[r].tries
    BY <1>1 DEF Cdns!CallType
  <2>2. Tail(s) \in Seq(SUBSET Cdns!Area) /\ Tail(s) # <<>>
    <3>1. s # <<>> /\ Len(s) # 1
      BY <1>1, <1>4, <2>1
    <3>2. Len(s) \in Nat /\ (Len(s) = 0 => s = <<>>)
      OBVIOUS
    <3>3. Tail(s) \in Seq(SUBSET Cdns!Area) /\ Len(Tail(s)) = Len(s) - 1
      BY <3>1
    <3>4. Len(Tail(s)) # 0
      BY <3>1, <3>2, <3>3
    <3>5. Len(<<>>) = 0
      OBVIOUS
    <3> QED
      BY <3>3, <3>4, <3>5
  <2>3. /\ c \in Cdns!CallType /\ c.at = "https"
        /\ c.d = deploy[r].d /\ c.o = deploy[r].o /\ c.c = deploy[r].c /\ c.tries # <<>>
    BY <1>1, <2>1, <2>2 DEF Cdns!CallType
  <2>4. /\ deploy' = [deploy EXCEPT ![r] = c]
        /\ deployAnswer' \in [Req -> {"none", "ok", "error"}] /\ faulted' \subseteq Req
    BY <1>1, <1>4 DEF Cdns!TypeOK
  <2> QED
    BY <1>1, <1>2, <2>3, <2>4, KeepsInv
<1> QED
  BY <1>3, <1>4 DEF Cdns!updateUCloudCDNHTTPS, Ends

LEMMA OriginIsGiven ==
  ASSUME Cdns!TypeOK, NEW r \in Req, deploy[r].o # None
  PROVE  deploy[r].o \in Origin
  BY DeployFacts DEF Cdns!CallType

LEMMA AliInv ==
  ASSUME Cdns!Inv, NEW r \in Req, Cdns!PostAliCdnDomain(r) \/ Cdns!UploadAliCDNCert(r), Still
  PROVE  Cdns!Inv'
<1> USE DEF Mid, Free, DeployAt
<1>1. CASE Cdns!UploadAliCDNCert(r)
  BY <1>1, PutCertInv DEF Cdns!UploadAliCDNCert
<1>2. CASE Cdns!PostAliCdnDomain(r)
  <2>1. deploy[r].o # None /\ deploy[r].o \in Origin
    BY <1>2, OriginIsGiven DEF Cdns!PostAliCdnDomain, Cdns!Inv
  <2>2. CASE Cdns!findAliCDNDomain(r)
    BY <2>2, LooksInv DEF Cdns!findAliCDNDomain
  <2>3. CASE Cdns!describeDomainVerifyData(r)
    BY <2>3, AsksInv DEF Cdns!describeDomainVerifyData
  <2>4. CASE Cdns!UpsertTXT(r) \/ Cdns!WaitTXT(r) \/ Cdns!UpsertCNAME(r)
    BY <2>4, UpsertTXTInv, WaitTXTInv, UpsertCNAMEInv
  <2>5. CASE Cdns!verifyDomainOwner(r)
    BY <2>5, VerifyOwnerInv DEF Cdns!verifyDomainOwner
  <2>6. CASE Cdns!Looks(r, "again", "modify", "add")
    BY <2>6, LooksInv
  <2>7. CASE Cdns!Configure(r, "modify", deploy[r].o, None, "rules")
    BY <2>1, <2>7, ConfigureInv
  <2>8. CASE Cdns!AddDomain(r, "rules")
    BY <2>8, AddDomainInv
  <2>9. CASE Cdns!Configure(r, "rules", None, deploy[r].o, "name")
    BY <2>1, <2>9, ConfigureInv
  <2>10. CASE Cdns!AskCname(r, "name", "point")
    BY <2>10, AskCnameInv
  <2> QED
    BY <1>2, <2>2, <2>3, <2>4, <2>5, <2>6, <2>7, <2>8, <2>9, <2>10
       DEF Cdns!PostAliCdnDomain, Cdns!updateCDNOrigin, Cdns!updateAliCDNRules,
           Cdns!retryGetAliCDNCname
<1> QED
  BY <1>1, <1>2

LEMMA TencentInv ==
  ASSUME Cdns!Inv, NEW r \in Req,
         Cdns!PostTencentCDNAndDNS(r) \/ Cdns!UploadTencentCDNCert(r), Still
  PROVE  Cdns!Inv'
<1> USE DEF Mid, Free, DeployAt
<1>1. CASE Cdns!UploadTencentCDNCert(r)
  BY <1>1, PutCertInv, AsksInv DEF Cdns!UploadTencentCDNCert
<1>2. CASE Cdns!PostTencentCDNAndDNS(r)
  <2>1. deploy[r].o # None /\ deploy[r].o \in Origin
    BY <1>2, OriginIsGiven DEF Cdns!PostTencentCDNAndDNS, Cdns!Inv
  <2>2. CASE Cdns!getTencentCDNVerifyTXT(r)
    BY <2>2, AsksInv DEF Cdns!getTencentCDNVerifyTXT
  <2>3. CASE Cdns!UpsertTXT(r) \/ Cdns!WaitTXT(r) \/ Cdns!UpsertCNAME(r)
    BY <2>3, UpsertTXTInv, WaitTXTInv, UpsertCNAMEInv
  <2>4. CASE Cdns!verifyTencentCDNDomain(r)
    BY <2>4, VerifyOwnerInv DEF Cdns!verifyTencentCDNDomain
  <2>5. CASE Cdns!tencentCDNExists(r)
    BY <2>5, LooksInv DEF Cdns!tencentCDNExists
  <2>6. CASE Cdns!Configure(r, "modify", deploy[r].o, None, "rules")
    BY <2>1, <2>6, ConfigureInv
  <2>7. CASE Cdns!AddDomain(r, "rules")
    BY <2>7, AddDomainInv
  <2>8. CASE Cdns!updateTencentCDNCacheRules(r)
    <3>1. None # Cached
      BY SupplyAssumption DEF Cdns!DeployAssumption
    <3> QED
      BY <2>8, <3>1, ConfigureInv DEF Cdns!updateTencentCDNCacheRules
  <2>9. CASE Cdns!getTencentCDNCNAME(r)
    BY <2>9, AskCnameInv DEF Cdns!getTencentCDNCNAME
  <2> QED
    BY <1>2, <2>2, <2>3, <2>4, <2>5, <2>6, <2>7, <2>8, <2>9
       DEF Cdns!PostTencentCDNAndDNS, Cdns!upsertTencentCDNDomain
<1> QED
  BY <1>1, <1>2

LEMMA ClientInv ==
  ASSUME Cdns!Inv, NEW r \in Req, Cdns!newHuaweiCDNClient(r), Still
  PROVE  Cdns!Inv'
  BY AsksInv DEF Cdns!newHuaweiCDNClient, Mid, Free, DeployAt

LEMMA HuaweiInv ==
  ASSUME Cdns!Inv, NEW r \in Req,
         Cdns!PostHuaweiCdnDomain(r) \/ Cdns!UploadHuaweiCDNCert(r), Still
  PROVE  Cdns!Inv'
<1> USE DEF Mid, Free, DeployAt
<1>1. CASE Cdns!UploadHuaweiCDNCert(r)
  BY <1>1, PutCertInv, ClientInv DEF Cdns!UploadHuaweiCDNCert
<1>2. CASE Cdns!PostHuaweiCdnDomain(r)
  <2>1. deploy[r].o # None /\ deploy[r].o \in Origin
    BY <1>2, OriginIsGiven DEF Cdns!PostHuaweiCdnDomain, Cdns!Inv
  <2>2. CASE Cdns!newHuaweiCDNClient(r)
    BY <2>2, ClientInv
  <2>3. CASE Cdns!getHuaweiCDNDomainID(r)
    BY <2>3, LooksInv DEF Cdns!getHuaweiCDNDomainID
  <2>4. CASE Cdns!Asks(r, "info", "txt")
    BY <2>4, AsksInv
  <2>5. CASE Cdns!UpsertTXT(r) \/ Cdns!WaitTXT(r) \/ Cdns!UpsertCNAME(r)
    BY <2>5, UpsertTXTInv, WaitTXTInv, UpsertCNAMEInv
  <2>6. CASE Cdns!VerifyOwner(r, "add")
    BY <2>6, VerifyOwnerInv
  <2>7. CASE Cdns!AddDomain(r, "first")
    BY <2>7, AddDomainInv
  <2>8. CASE Cdns!updateHuaweiCDNConfig(r, "first", "check")
    BY <2>1, <2>8, ConfigureInv DEF Cdns!updateHuaweiCDNConfig
  <2>9. CASE Cdns!Asks(r, "check", "rules")
    BY <2>9, AsksInv
  <2>10. CASE Cdns!updateHuaweiCDNConfig(r, "rules", "name")
    BY <2>1, <2>10, ConfigureInv DEF Cdns!updateHuaweiCDNConfig
  <2>11. CASE Cdns!getHuaweiCDNCname(r)
    BY <2>11, AskCnameInv DEF Cdns!getHuaweiCDNCname
  <2> QED
    BY <1>2, <2>2, <2>3, <2>4, <2>5, <2>6, <2>7, <2>8, <2>9, <2>10, <2>11
       DEF Cdns!PostHuaweiCdnDomain, Cdns!updateHuaweiCDNOrigin,
           Cdns!beforeCreateHuaweiCDNDomain, Cdns!createHuaweiCDNDomain
<1> QED
  BY <1>1, <1>2

LEMMA UCloudInv ==
  ASSUME Cdns!Inv, NEW r \in Req,
         \/ Cdns!PostUCloudCDNAndDNS(r) \/ Cdns!UploadUCloudCDNCert(r)
         \/ Cdns!updateUCloudCDNHTTPS(r),
         Still
  PROVE  Cdns!Inv'
<1> USE DEF Mid, Free, DeployAt
<1>1. CASE Cdns!updateUCloudCDNHTTPS(r)
  BY <1>1, TriesInv
<1>2. CASE Cdns!UploadUCloudCDNCert(r)
  <2>1. CASE Cdns!Asks(r, "cert", "find") \/ Cdns!Asks(r, "cert", "search")
    BY <2>1, AsksInv
  <2>2. CASE Cdns!findUCloudCertID(r)
    BY <2>2, AsksInv DEF Cdns!findUCloudCertID
  <2>3. CASE Cdns!getUCloudCDNDomain(r, "find", "https", "lost")
    BY <2>3, FindDomainInv
  <2>4. CASE /\ deploy[r].at = "lost" /\ Cdns!Return(r, "error")
             /\ UNCHANGED <<Cdns!dns, Cdns!cdn>>
    BY <2>4, StillGrows, EndsInv DEF Ends, Cdns!Inv
  <2> QED
    BY <1>2, <2>1, <2>2, <2>3, <2>4 DEF Cdns!UploadUCloudCDNCert
<1>3. CASE Cdns!PostUCloudCDNAndDNS(r)
  <2>1. tc = "ucloud" /\ deploy[r].o # None /\ deploy[r].o \in Origin
    BY <1>3, OriginIsGiven DEF Cdns!PostUCloudCDNAndDNS, Cdns!Inv
  <2>2. CASE Cdns!getUCloudProjectID(r)
    <3>1. Goes(r, "find")
      BY <2>2 DEF Cdns!getUCloudProjectID, Goes
    <3> QED
      BY <2>2, <3>1, StillGrows, GoesInv DEF Cdns!getUCloudProjectID, Cdns!Inv
  <2>3. CASE Cdns!getUCloudCDNDomain(r, "find",
               IF deploy[r].d \in named THEN "change" ELSE "modify", "add")
    <3>1. CASE deploy[r].d \in named
      BY <2>3, <3>1, FindDomainInv
    <3>2. CASE deploy[r].d \notin named
      BY <2>3, <3>2, FindDomainInv
    <3> QED
      BY <3>1, <3>2
  <2>4. CASE Cdns!UpdatedUCloudCDNDomain(r)
    <3>1. deploy[r].at = "change" => deploy[r].d \in named
      BY DEF Cdns!Inv, Cdns!NamedAreThere, Cdns!Active
    <3>2. CASE Cdns!Configure(r, "change", deploy[r].o, Cached, "point")
      <4>1. deploy[r].at = "change"
        BY <3>2 DEF Cdns!Configure
      <4> QED
        BY <2>1, <3>1, <3>2, <4>1, ConfigureInv
    <3>3. CASE Cdns!Configure(r, "modify", deploy[r].o, Cached, "relook")
      BY <2>1, <3>3, ConfigureInv
    <3> QED
      BY <2>4, <3>2, <3>3 DEF Cdns!UpdatedUCloudCDNDomain
  <2>5. CASE Cdns!createUCloudCDNDomain(r)
    BY <2>5, AddDomainInv DEF Cdns!createUCloudCDNDomain
  <2>6. CASE Cdns!AskCname(r, "look", "point")
    BY <2>1, <2>6, AskCnameInv
  <2>7. CASE Cdns!UpsertCNAME(r)
    BY <2>7, UpsertCNAMEInv
  <2>8. CASE Cdns!LookedAgain(r)
    <3>1. Cdns!TypeOK /\ deploy[r].at # "idle" /\ CdnGrows(r)
      BY <2>8, StillGrows DEF Cdns!LookedAgain, Cdns!Inv
    <3>2. Goes(r, "point") \/ Ends(r)
      BY <2>1, <2>8 DEF Cdns!LookedAgain, Goes, Ends
    <3> QED
      BY <3>1, <3>2, GoesInv, EndsInv
  <2> QED
    BY <1>3, <2>2, <2>3, <2>4, <2>5, <2>6, <2>7, <2>8
       DEF Cdns!PostUCloudCDNAndDNS, Cdns!upsertUCloudCDNDomain
<1> QED
  BY <1>1, <1>2, <1>3

LEMMA StepInv ==
  ASSUME Cdns!Inv, NEW r \in Req, Cdns!Step(r)
  PROVE  Cdns!Inv'
<1>1. Still
  BY DEF Cdns!Step, Still
<1> QED
  BY <1>1, AliInv, TencentInv, HuaweiInv, UCloudInv DEF Cdns!Step

LEMMA BeginDeployInv ==
  ASSUME Cdns!Inv, NEW r \in Req, NEW d \in Domain, NEW o \in Origin \cup {None},
         NEW c \in Pem \cup {None}, o # None <=> c = None, Cdns!Begin(r, d, o, c)
  PROVE  Cdns!Inv'
<1>1. Cdns!TypeOK /\ Cdns!PointedIsConfigured /\ Cdns!NamedAreThere
  BY DEF Cdns!Inv
<1>2. ASSUME NEW kind PROVE Cdns!First(kind) \in {"client", "project", "find", "cert"}
  BY DEF Cdns!First
<1> SUFFICES ASSUME NEW n, n = [at |-> Cdns!First(IF c = None THEN "post" ELSE "upload"),
                                d |-> d, o |-> o, c |-> c, tries |-> Cdns!Attempts,
                                found |-> 0]
             PROVE  Cdns!Inv'
  OBVIOUS
<1>3. Cdns!Attempts \in Seq(SUBSET Cdns!Area) /\ Cdns!Attempts # <<>>
  <2>1. area \in SUBSET Cdns!Area /\ Cdns!Area \in SUBSET Cdns!Area
        /\ {"cn"} \in SUBSET Cdns!Area
    BY <1>1 DEF Cdns!Area, Cdns!TypeOK
  <2>2. ASSUME NEW S, NEW x \in S, NEW y \in S, NEW z \in S
        PROVE  /\ <<x, y, z>> \in Seq(S) /\ <<x, y, z>> # <<>>
               /\ <<x, y>> \in Seq(S) /\ <<x, y>> # <<>>
    OBVIOUS
  <2> QED
    BY <2>1, <2>2 DEF Cdns!Attempts
<1>4. /\ n \in Cdns!CallType /\ n.at \in {"client", "project", "find", "cert"}
      /\ n.d = d /\ n.o = o /\ n.c = c /\ n.tries # <<>>
  BY <1>2, <1>3 DEF Cdns!CallType
<1>5. deploy' \in [Req -> Cdns!CallType] /\ \A q \in Req : deploy'[q] = IF q = r THEN n ELSE deploy[q]
  BY <1>1, <1>4, DeployFacts DEF Cdns!Begin
<1>6. UNCHANGED <<Cdns!where, Cdns!dns, Cdns!cdn>>
  BY DEF Cdns!Begin
<1>7. Cdns!TypeOK'
  <2>1. \A q \in Req : IF deploy'[q].at = "idle" THEN deploy'[q] = Cdns!Idle
                       ELSE /\ deploy'[q].d \in Domain /\ deploy'[q].tries # <<>>
                            /\ deploy'[q].o # None <=> deploy'[q].c = None
                            /\ deploy'[q].at = "write" => deploy'[q].found \in 0..Len(txt)
    BY <1>1, <1>4, <1>5, DeployFacts
  <2>2. begun' \in 0..MaxRequests
    BY <1>1, SupplyAssumption DEF Cdns!Begin, Cdns!TypeOK, Cdns!DeployAssumption
  <2>3. /\ deployAnswer' \in [Req -> {"none", "ok", "error"}]
        /\ faulted' \subseteq Req /\ deployOverlapped' \subseteq Req
    BY <1>1 DEF Cdns!Begin, Cdns!TypeOK, Cdns!Active
  <2> QED
    BY <1>1, <1>5, <1>6, <2>1, <2>2, <2>3 DEF Cdns!TypeOK, Cdns!where, Cdns!dns, Cdns!cdn
<1>8. Cdns!PointedIsConfigured'
  BY <1>1, <1>6 DEF Cdns!PointedIsConfigured, Cdns!Exists, Cdns!HasRules, Cdns!where, Cdns!dns, Cdns!cdn
<1>9. Cdns!NamedAreThere'
  BY <1>1, <1>4, <1>5, <1>6 DEF Cdns!NamedAreThere, Cdns!Active, Cdns!Exists, Cdns!HasRules, Cdns!where, Cdns!cdn
<1> QED
  BY <1>7, <1>8, <1>9 DEF Cdns!Inv

LEMMA PropagateInv == Cdns!Inv /\ Cdns!Propagate => Cdns!Inv'
<1> SUFFICES ASSUME Cdns!Inv, Cdns!Propagate PROVE Cdns!Inv'
  OBVIOUS
<1>1. Cdns!TypeOK'
  <2>1. txt \in Seq(Domain) => {txt[i] : i \in DOMAIN txt} \subseteq Domain
    OBVIOUS
  <2> QED
    BY <2>1 DEF Cdns!Inv, Cdns!TypeOK, Cdns!Propagate, Cdns!where, Cdns!cdn
<1>2. Cdns!PointedIsConfigured' /\ Cdns!NamedAreThere'
  BY DEF Cdns!Inv, Cdns!PointedIsConfigured, Cdns!NamedAreThere, Cdns!Active, Cdns!Exists,
         Cdns!HasRules, Cdns!Propagate, Cdns!where, Cdns!cdn
<1> QED
  BY <1>1, <1>2 DEF Cdns!Inv

LEMMA NameInv ==
  ASSUME Cdns!Inv, NEW d \in Domain, Cdns!Name(d)
  PROVE  Cdns!Inv'
<1>1. Cdns!TypeOK'
  BY DEF Cdns!Inv, Cdns!TypeOK, Cdns!Name, Cdns!where, Cdns!dns
<1>2. Cdns!PointedIsConfigured' /\ Cdns!NamedAreThere'
  BY DEF Cdns!Inv, Cdns!PointedIsConfigured, Cdns!NamedAreThere, Cdns!Active, Cdns!Exists,
         Cdns!HasRules, Cdns!Name, Cdns!where, Cdns!dns
<1> QED
  BY <1>1, <1>2 DEF Cdns!Inv

LEMMA DeployInit == Cdns!Init => Cdns!Inv
<1> SUFFICES ASSUME Cdns!Init PROVE Cdns!Inv
  OBVIOUS
<1>1. Cdns!DeployAssumption
  BY SupplyAssumption
<1>2. origin \in [Domain -> Origin \cup {None}]
  BY DEF Cdns!Init
<1>3. Cdns!TypeOK
  <2>1. tc \in Service /\ known \in BOOLEAN /\ area \subseteq Cdns!Area
    BY <1>1 DEF Cdns!Init, Cdns!DeployAssumption, Cdns!Area
  <2>2. /\ txt \in Seq(Domain) /\ resolved \subseteq Domain
        /\ verified \subseteq Domain /\ named \subseteq Domain /\ cname \subseteq Domain
        /\ cacheRules \in [Domain -> Origin \cup {None, Cached}]
        /\ https \in [Domain -> [Cdns!Area -> Pem \cup {None}]]
    BY DEF Cdns!Init
  <2>3. /\ deploy \in [Req -> Cdns!CallType]
        /\ \A r \in Req : deploy[r] = Cdns!Idle /\ deploy[r].at = "idle"
    BY IdleDeploy DEF Cdns!Init
  <2>4. /\ deployAnswer \in [Req -> {"none", "ok", "error"}]
        /\ begun \in 0..MaxRequests
        /\ faulted \subseteq Req /\ deployOverlapped \subseteq Req
    BY <1>1 DEF Cdns!Init, Cdns!DeployAssumption
  <2> QED
    BY <1>2, <2>1, <2>2, <2>3, <2>4 DEF Cdns!TypeOK
<1>4. Cdns!PointedIsConfigured /\ Cdns!NamedAreThere
  BY IdleDeploy DEF Cdns!Init, Cdns!PointedIsConfigured, Cdns!NamedAreThere, Cdns!Active
<1> QED
  BY <1>3, <1>4 DEF Cdns!Inv

\* Visitors are sent to a CDN last, by any of its drivers: a domain whose record
\* points there is set up, whichever calls failed half way, were repeated or met.
THEOREM PointedAreSetUp == Cdns!Spec => []Cdns!Inv
<1>1. Cdns!Inv /\ [Cdns!Next]_(Cdns!vars) => Cdns!Inv'
  <2>1. CASE Cdns!Next
    BY <2>1, StepInv, BeginDeployInv, PropagateInv, NameInv, SupplyAssumption
       DEF Cdns!Next, Cdns!DeployAssumption
  <2>2. CASE UNCHANGED Cdns!vars
    BY <2>2 DEF Cdns!Inv, Cdns!TypeOK, Cdns!PointedIsConfigured, Cdns!NamedAreThere, Cdns!Active,
                Cdns!Exists, Cdns!HasRules, Cdns!vars, Cdns!where, Cdns!dns, Cdns!cdn
  <2> QED
    BY <2>1, <2>2
<1> QED
  BY <1>1, DeployInit, PTL DEF Cdns!Spec

(***************************************************************************)
(* What a call of a CDN driver has established when it ends.               *)
(***************************************************************************)
\* A call may go on to a place if what it must have come by is there.
Fit(r, to) ==
  LET d == deploy[r].d
      o == deploy[r].o IN
  /\ to # "write"
  /\ to \in {"modify", "change", "first", "check", "rules"} => origin'[d] # None
  /\ to = "again" \/ (to = "add" /\ tc # "ucloud") => d \in verified'
  /\ to \in {"cert", "bind", "search", "https", "lost"} => deploy[r].c # None
  /\ to = "https" => tc = "ucloud"
  /\ Cdns!Alone(r) =>
       /\ to \in {"add", "lost"} /\ r \notin faulted' => origin'[d] = None
       /\ to \in {"info", "txt", "wait", "verify", "add"} /\ tc = "huawei" => origin'[d] = None
       /\ to \in {"name", "look", "relook", "point"} \/ (to = "rules" /\ tc \in {"ali", "tencent"})
          => origin'[d] = o
       /\ to \in {"name", "point"} /\ tc \in {"ali", "huawei"} => cacheRules'[d] = o

\* Proofs stay, and no domain is there without one.
StillProven ==
  /\ Still
  /\ verified \subseteq verified'
  /\ \A d \in Domain : origin[d] # None => origin'[d] # None
  /\ tc # "ucloud" => \A d \in Domain : origin'[d] # None => d \in verified'

\* What the run's action properties say of the end of a call.
Deployed(r) ==
  LET d == deploy[r].d IN
  Cdns!Alone(r) /\ deploy[r].o # None =>
    /\ origin[d] = deploy[r].o
    /\ tc \in {"ali", "huawei"} => cacheRules[d] = deploy[r].o
    /\ tc # "ucloud" => d \in verified
    /\ known => d \in cname'
Served(r) ==
  Cdns!Alone(r) /\ deploy[r].c # None =>
    \A a \in Cdns!Promised : https'[deploy[r].d][a] = deploy[r].c

\* What any step of a call comes to.
Passes(r) ==
  /\ StillProven
  /\ \E c \in Cdns!CallType : c.at # "idle" /\ deploy' = [deploy EXCEPT ![r] = c]
  /\ Cdns!KeepsOn(r)' /\ (Cdns!Alone(r) => Cdns!IsRight(r)')
Finishes(r) ==
  /\ StillProven
  /\ deploy' = [deploy EXCEPT ![r] = Cdns!Idle]
  /\ deployAnswer'[r] = "ok" => Deployed(r) /\ Served(r)
  /\ deployAnswer'[r] = "error" /\ Cdns!Alone(r) /\ r \notin faulted' => Cdns!Late(r) \/ Cdns!Doubled(r)
Outcome(r) == deploy[r].at # "idle" /\ (Passes(r) \/ Finishes(r))

CallsInv == Cdns!Inv /\ Cdns!CallInv

LEMMA StaysProven ==
  ASSUME Cdns!CallInv, Still, UNCHANGED <<verified, origin>>
  PROVE  StillProven
  BY DEF Cdns!CallInv, Cdns!OwnersAreProven, Cdns!Exists, StillProven

LEMMA MovePasses ==
  ASSUME CallsInv, NEW r \in Req, deploy[r].at # "idle", StillProven, NEW to \in Mid, Fit(r, to),
         deploy' = [deploy EXCEPT ![r].at = to]
  PROVE  Passes(r)
<1>1. Cdns!TypeOK /\ Cdns!KeepsOn(r)
  BY DEF CallsInv, Cdns!Inv, Cdns!CallInv, Cdns!CallsKeepOn, Cdns!Active
<1> SUFFICES ASSUME NEW c, c = [deploy[r] EXCEPT !.at = to]
             PROVE  Passes(r)
  OBVIOUS
<1>2. /\ c \in Cdns!CallType /\ c.at = to /\ c.d = deploy[r].d /\ c.o = deploy[r].o
      /\ c.c = deploy[r].c /\ c.tries = deploy[r].tries
  BY <1>1, DeployFacts DEF Cdns!CallType, Mid, DeployAt
<1>3. deploy' = [deploy EXCEPT ![r] = c] /\ deploy'[r] = c
  BY <1>1, DeployFacts
<1>4. tc' = tc /\ area' = area /\ deployOverlapped' = deployOverlapped
  BY StillFacts DEF StillProven
<1>5. Cdns!KeepsOn(r)'
  BY <1>1, <1>2, <1>3, <1>4 DEF Cdns!KeepsOn, Fit, Cdns!Exists, Cdns!Promised
<1>6. Cdns!Alone(r) => Cdns!IsRight(r)'
  BY <1>2, <1>3, <1>4 DEF Cdns!IsRight, Fit, Cdns!Exists
<1> QED
  BY <1>2, <1>3, <1>5, <1>6 DEF Passes, Mid

LEMMA GoesOn ==
  ASSUME CallsInv, NEW r \in Req, deploy[r].at # "idle", StillProven, NEW to \in Mid, Fit(r, to),
         Cdns!Becomes(r, to)
  PROVE  Outcome(r)
  BY MovePasses DEF Cdns!Becomes, Outcome

LEMMA Fails ==
  ASSUME CallsInv, NEW r \in Req, deploy[r].at # "idle", StillProven, Cdns!Fault(r)
  PROVE  Outcome(r)
<1>1. deployAnswer \in [Req -> {"none", "ok", "error"}]
  BY DEF CallsInv, Cdns!Inv, Cdns!TypeOK
<1> QED
  BY <1>1 DEF Cdns!Fault, Outcome, Finishes

LEMMA EndsLate ==
  ASSUME CallsInv, NEW r \in Req, deploy[r].at # "idle", StillProven, Cdns!Return(r, "error"),
         Cdns!Alone(r) /\ r \notin faulted => Cdns!Late(r) \/ Cdns!Doubled(r)
  PROVE  Outcome(r)
<1>1. deployAnswer \in [Req -> {"none", "ok", "error"}]
  BY DEF CallsInv, Cdns!Inv, Cdns!TypeOK
<1> QED
  BY <1>1 DEF Cdns!Return, Outcome, Finishes

LEMMA EndsDone ==
  ASSUME CallsInv, NEW r \in Req, deploy[r].at # "idle", StillProven, Cdns!Return(r, "ok"), Deployed(r), Served(r)
  PROVE  Outcome(r)
<1>1. deployAnswer \in [Req -> {"none", "ok", "error"}]
  BY DEF CallsInv, Cdns!Inv, Cdns!TypeOK
<1> QED
  BY <1>1 DEF Cdns!Return, Outcome, Finishes

\* A call under way, and what it may rely on.
LEMMA UnderWay ==
  ASSUME CallsInv, NEW r \in Req, deploy[r].at # "idle"
  PROVE  /\ Cdns!TypeOK /\ deploy[r] \in Cdns!CallType /\ deploy[r].d \in Domain
         /\ deploy[r].o # None <=> deploy[r].c = None
         /\ Cdns!KeepsOn(r) /\ (Cdns!Alone(r) => Cdns!IsRight(r))
         /\ tc # "ucloud" => \A d \in Domain : origin[d] # None => d \in verified
<1>1. Cdns!TypeOK
  BY DEF CallsInv, Cdns!Inv
<1>2. Cdns!OwnersAreProven /\ Cdns!CallsKeepOn /\ Cdns!AloneIsRight
  BY DEF CallsInv, Cdns!CallInv
<1>3. r \in Cdns!Active
  BY DEF Cdns!Active
<1> QED
  BY <1>1, <1>2, <1>3, DeployFacts
     DEF Cdns!OwnersAreProven, Cdns!CallsKeepOn, Cdns!AloneIsRight, Cdns!Exists

LEMMA AsksOutcome ==
  ASSUME CallsInv, NEW r \in Req, NEW from \in Mid, NEW to \in Mid, Cdns!Asks(r, from, to), Still,
         UNCHANGED <<origin, verified, cacheRules, faulted>> => Fit(r, to)
  PROVE  Outcome(r)
<1>1. deploy[r].at # "idle" /\ Cdns!CallInv /\ UNCHANGED <<verified, origin, cacheRules>>
  BY DEF Cdns!Asks, Mid, CallsInv, Cdns!cdn
<1>2. StillProven
  BY <1>1, StaysProven
<1>3. CASE Cdns!Becomes(r, to)
  BY <1>1, <1>2, <1>3, GoesOn DEF Cdns!Becomes
<1>4. CASE Cdns!Fault(r)
  BY <1>1, <1>2, <1>4, Fails
<1> QED
  BY <1>3, <1>4 DEF Cdns!Asks

LEMMA LooksOutcome ==
  ASSUME CallsInv, NEW r \in Req, NEW from \in Mid, NEW present \in Mid, NEW absent \in Mid,
         Cdns!Looks(r, from, present, absent), Still,
         UNCHANGED <<origin, verified, cacheRules, faulted>> =>
           IF origin[deploy[r].d] # None THEN Fit(r, present) ELSE Fit(r, absent)
  PROVE  Outcome(r)
<1>1. CASE Cdns!Exists(deploy[r].d)
  BY <1>1, AsksOutcome DEF Cdns!Looks, Cdns!Exists
<1>2. CASE ~Cdns!Exists(deploy[r].d)
  BY <1>2, AsksOutcome DEF Cdns!Looks, Cdns!Exists
<1> QED
  BY <1>1, <1>2

\* Alone, what a call has found of the TXT records is there when it writes.
LEMMA FoundOutcome ==
  ASSUME CallsInv, NEW r \in Req, deploy[r].at = "txt", StillProven,
         UNCHANGED <<origin, txt>>, NEW i \in Nat, Cdns!Found(r, i),
         IF i = 0 THEN txt = <<>> ELSE txt[i] # deploy[r].d
  PROVE  Outcome(r)
<1>1. deploy[r].at # "idle"
  OBVIOUS
<1> SUFFICES ASSUME NEW c, c = [deploy[r] EXCEPT !.at = "write", !.found = i]
             PROVE  Outcome(r)
  OBVIOUS
<1>2. /\ c \in Cdns!CallType /\ c.at = "write" /\ c.found = i
      /\ c.d = deploy[r].d /\ c.o = deploy[r].o /\ c.c = deploy[r].c /\ c.tries = deploy[r].tries
  BY <1>1, UnderWay DEF Cdns!CallType
<1>3. deploy' = [deploy EXCEPT ![r] = c] /\ deploy'[r] = c
  BY <1>1, UnderWay, DeployFacts DEF Cdns!Found
<1>4. tc' = tc /\ area' = area
  BY StillFacts DEF StillProven
<1>5. Cdns!KeepsOn(r)'
  BY <1>1, <1>2, <1>3, <1>4, UnderWay DEF Cdns!KeepsOn, Cdns!Promised
<1>6. Cdns!Alone(r) => Cdns!IsRight(r)'
  BY <1>1, <1>2, <1>3, <1>4, UnderWay DEF Cdns!IsRight, Cdns!Exists
<1>7. \E e \in Cdns!CallType : e.at # "idle" /\ deploy' = [deploy EXCEPT ![r] = e]
  BY <1>2, <1>3
<1> QED
  BY <1>1, <1>5, <1>6, <1>7 DEF Outcome, Passes

LEMMA UpsertTXTOutcome ==
  ASSUME CallsInv, NEW r \in Req, Cdns!UpsertTXT(r), Still
  PROVE  Outcome(r)
<1>1. /\ deploy[r].at \in {"txt", "write"} /\ deploy[r].at # "idle"
      /\ UNCHANGED <<verified, origin, cacheRules>>
  BY DEF Cdns!UpsertTXT, Cdns!FindTXT, Cdns!WriteTXT, Cdns!cdn
<1>2. StillProven
  BY <1>1, StaysProven DEF CallsInv
<1>3. \A to \in {"verify", "wait"} : to \in Mid /\ Fit(r, to)
  BY <1>1, UnderWay DEF Fit, Cdns!IsRight, Cdns!Exists, Mid, DeployAt
<1>4. txt \in Seq(Domain)
  BY <1>1, UnderWay DEF Cdns!TypeOK
<1>5. CASE Cdns!FindTXT(r)
  <2>1. deploy[r].at = "txt" /\ txt' = txt
    BY <1>5 DEF Cdns!FindTXT, Cdns!dns
  <2>2. \/ \E to \in {"verify", "wait"} : Cdns!Becomes(r, to)
        \/ Cdns!Fault(r)
        \/ txt = <<>> /\ Cdns!Found(r, 0)
        \/ \E i \in DOMAIN txt : txt[i] # deploy[r].d /\ Cdns!Found(r, i)
    BY <1>5 DEF Cdns!FindTXT
  <2>3. \A i \in DOMAIN txt : i \in Nat /\ i # 0
    BY <1>4
  <2>4. CASE txt = <<>> /\ Cdns!Found(r, 0)
    BY <1>1, <1>2, <2>1, <2>4, FoundOutcome
  <2>5. CASE \E i \in DOMAIN txt : txt[i] # deploy[r].d /\ Cdns!Found(r, i)
    BY <1>1, <1>2, <2>1, <2>3, <2>5, FoundOutcome
  <2> QED
    BY <1>1, <1>2, <1>3, <2>2, <2>4, <2>5, GoesOn, Fails
<1>6. CASE Cdns!WriteTXT(r)
  <2>1. /\ deploy[r].at = "write"
        /\ \/ Cdns!Becomes(r, "wait") \/ Cdns!Fault(r)
           \/ /\ IF deploy[r].found = 0 THEN txt # <<>> ELSE Cdns!Speaks(deploy[r].d)
              /\ Cdns!Return(r, "error")
    BY <1>6 DEF Cdns!WriteTXT
  <2>2. CASE Cdns!Return(r, "error") /\ IF deploy[r].found = 0 THEN txt # <<>>
                                        ELSE Cdns!Speaks(deploy[r].d)
    <3> SUFFICES ASSUME Cdns!Alone(r) PROVE Cdns!Doubled(r)
      BY <1>1, <1>2, <2>2, EndsLate
    <3>1. deploy[r].found # 0 /\ txt[deploy[r].found] # deploy[r].d
      BY <1>1, <2>1, <2>2, UnderWay DEF Cdns!IsRight
    <3>2. deploy[r].found \in 1..Len(txt)
      BY <1>1, <1>4, <2>1, <3>1, UnderWay, DeployFacts
    <3>3. PICK j \in 1..Len(txt) : txt[j] = deploy[r].d
      BY <1>4, <2>2, <3>1 DEF Cdns!Speaks
    <3>4. Len(txt) > 1
      BY <1>4, <3>1, <3>2, <3>3
    <3> QED
      BY <2>1, <2>2, <3>1, <3>4 DEF Cdns!Doubled
  <2> QED
    BY <1>1, <1>2, <1>3, <2>1, <2>2, GoesOn, Fails
<1> QED
  BY <1>5, <1>6 DEF Cdns!UpsertTXT

LEMMA WaitTXTOutcome ==
  ASSUME CallsInv, NEW r \in Req, Cdns!WaitTXT(r), Still
  PROVE  Outcome(r)
<1>1. /\ deploy[r].at = "wait" /\ Cdns!CallInv
      /\ UNCHANGED <<verified, origin, cacheRules>>
  BY DEF Cdns!WaitTXT, CallsInv, Cdns!cdn
<1>2. StillProven
  BY <1>1, StaysProven
<1>3. CASE deploy[r].d \in resolved
  <2>1. "verify" \in Mid /\ Fit(r, "verify")
    BY <1>1, UnderWay DEF Fit, Cdns!IsRight, Cdns!Exists, Mid, DeployAt
  <2> QED
    BY <1>1, <1>2, <1>3, <2>1, GoesOn DEF Cdns!WaitTXT
<1>4. CASE deploy[r].d \notin resolved
  BY <1>1, <1>2, <1>4, EndsLate DEF Cdns!WaitTXT, Cdns!Late
<1> QED
  BY <1>3, <1>4

\* After the proof a driver looks the domain up, or adds it.
LEMMA VerifyOwnerOutcome ==
  ASSUME CallsInv, NEW r \in Req, NEW to \in {"again", "add"}, Cdns!VerifyOwner(r, to), Still,
         to = "add" => tc = "huawei"
  PROVE  Outcome(r)
<1>1. /\ deploy[r].at = "verify" /\ UNCHANGED <<origin, cacheRules>>
      /\ verified \subseteq verified'
  BY DEF Cdns!VerifyOwner
<1>2. deploy[r].at # "idle"
  BY <1>1
<1>3. StillProven
  BY <1>1, <1>2, UnderWay DEF StillProven
<1>4. CASE verified' = verified \cup {deploy[r].d} /\ Cdns!Becomes(r, to)
  <2>1. to \in Mid /\ Fit(r, to)
    BY <1>1, <1>2, <1>4, UnderWay DEF Fit, Cdns!IsRight, Cdns!Exists, Mid, DeployAt
  <2> QED
    BY <1>2, <1>3, <1>4, <2>1, GoesOn
<1>5. CASE deploy[r].d \notin resolved /\ Cdns!Return(r, "error")
  BY <1>1, <1>3, <1>5, EndsLate DEF Cdns!Late
<1>6. CASE Cdns!Fault(r)
  BY <1>2, <1>3, <1>6, Fails
<1> QED
  BY <1>4, <1>5, <1>6 DEF Cdns!VerifyOwner, Cdns!Ordered, Cdns!NotOrdered

\* Alone, a call that adds its domain is not refused.
LEMMA AddDomainOutcome ==
  ASSUME CallsInv, NEW r \in Req, NEW to \in {"rules", "first", "look"},
         Cdns!AddDomain(r, to), Still, deploy[r].o # None
  PROVE  Outcome(r)
<1>1. deploy[r].at = "add" /\ UNCHANGED <<verified, cacheRules>>
  BY DEF Cdns!AddDomain
<1>2. deploy[r].at # "idle"
  BY <1>1
<1>3. PICK d \in Domain : d = deploy[r].d
  BY <1>2, UnderWay
<1>4. CASE /\ origin' = [origin EXCEPT ![d] = deploy[r].o]
           /\ d \in verified \/ tc = "ucloud"
           /\ Cdns!Becomes(r, to) \/ Cdns!Fault(r)
  <2>1. origin \in [Domain -> Origin \cup {None}]
    BY <1>2, UnderWay DEF Cdns!TypeOK
  <2>2. origin'[d] = deploy[r].o /\ \A e \in Domain : e # d => origin'[e] = origin[e]
    BY <1>4, <2>1
  <2>3. StillProven
    BY <1>1, <1>2, <1>4, <2>2, UnderWay DEF StillProven
  <2>4. to \in Mid /\ Fit(r, to)
    BY <1>3, <2>2 DEF Fit, Mid, DeployAt
  <2> QED
    BY <1>2, <1>4, <2>3, <2>4, GoesOn, Fails
<1>5. CASE /\ UNCHANGED origin
           /\ Cdns!Fault(r)
  BY <1>1, <1>5, StaysProven, Fails DEF CallsInv
<1>6. CASE /\ UNCHANGED origin /\ Cdns!Return(r, "error")
           /\ ~(~Cdns!Exists(d) /\ (d \in verified \/ tc = "ucloud"))
  <2>1. ~(Cdns!Alone(r) /\ r \notin faulted)
    BY <1>1, <1>2, <1>3, <1>6, UnderWay DEF Cdns!IsRight, Cdns!KeepsOn
  <2> QED
    BY <1>1, <1>6, <2>1, StaysProven, EndsLate DEF CallsInv
<1> QED
  BY <1>3, <1>4, <1>5, <1>6 DEF Cdns!AddDomain, Cdns!Ordered, Cdns!NotOrdered

\* What is configured is there, so that the order is not refused.
LEMMA ConfigureOutcome ==
  ASSUME CallsInv, NEW r \in Req, NEW from \in {"modify", "change", "first", "rules"},
         NEW o \in Origin \cup {None}, NEW s \in Origin \cup {None, Cached}, NEW to \in Mid,
         Cdns!Configure(r, from, o, s, to), Still,
         /\ origin'[deploy[r].d] = (IF o = None THEN origin[deploy[r].d] ELSE o)
         /\ cacheRules'[deploy[r].d] = (IF s = None THEN cacheRules[deploy[r].d] ELSE s)
         /\ origin'[deploy[r].d] # None
         /\ UNCHANGED <<verified, faulted>>
         => Fit(r, to)
  PROVE  Outcome(r)
<1>1. deploy[r].at = from /\ deploy[r].at # "idle" /\ UNCHANGED verified
  BY DEF Cdns!Configure
<1>2. PICK d \in Domain : d = deploy[r].d
  BY <1>1, UnderWay
<1>3. origin[d] # None
  BY <1>1, <1>2, UnderWay DEF Cdns!KeepsOn, Cdns!Exists
<1>4. CASE /\ origin' = [origin EXCEPT ![d] = IF o = None THEN @ ELSE o]
           /\ cacheRules' = [cacheRules EXCEPT ![d] = IF s = None THEN @ ELSE s]
           /\ Cdns!Becomes(r, to) \/ Cdns!Fault(r)
  <2>1. origin \in [Domain -> Origin \cup {None}] /\ cacheRules \in [Domain -> Origin \cup {None, Cached}]
    BY <1>1, UnderWay DEF Cdns!TypeOK
  <2>2. /\ origin'[d] = (IF o = None THEN origin[d] ELSE o)
        /\ cacheRules'[d] = (IF s = None THEN cacheRules[d] ELSE s)
        /\ \A e \in Domain : e # d => origin'[e] = origin[e]
    BY <1>4, <2>1
  <2>3. origin'[d] # None
    BY <1>3, <2>2
  <2>4. StillProven
    BY <1>1, <1>3, <2>2, <2>3, UnderWay DEF StillProven
  <2>5. CASE Cdns!Becomes(r, to)
    <3>1. Fit(r, to)
      BY <1>1, <1>2, <2>2, <2>3, <2>5 DEF Cdns!Becomes
    <3> QED
      BY <1>1, <2>4, <2>5, <3>1, GoesOn
  <2>6. CASE Cdns!Fault(r)
    BY <1>1, <2>4, <2>6, Fails
  <2> QED
    BY <1>4, <2>5, <2>6
<1>5. CASE UNCHANGED <<origin, cacheRules>> /\ Cdns!Fault(r)
  BY <1>1, <1>5, StaysProven, Fails DEF CallsInv
<1> QED
  BY <1>2, <1>3, <1>4, <1>5 DEF Cdns!Configure, Cdns!Ordered, Cdns!NotOrdered, Cdns!Exists

LEMMA AskCnameOutcome ==
  ASSUME CallsInv, NEW r \in Req, NEW from \in {"name", "look"}, Cdns!AskCname(r, from, "point"),
         Still, from = "look" => tc = "ucloud"
  PROVE  Outcome(r)
<1>1. /\ deploy[r].at = from /\ deploy[r].at # "idle"
      /\ UNCHANGED <<verified, origin, cacheRules>>
  BY DEF Cdns!AskCname, Cdns!cdn
<1>2. StillProven
  BY <1>1, StaysProven DEF CallsInv
<1>3. "point" \in Mid /\ Fit(r, "point")
  BY <1>1, UnderWay DEF Fit, Cdns!IsRight, Mid, DeployAt
<1>4. CASE deploy[r].d \notin named /\ Cdns!Return(r, "error")
  BY <1>1, <1>2, <1>4, EndsLate DEF Cdns!Late
<1> QED
  BY <1>1, <1>2, <1>3, <1>4, GoesOn, Fails DEF Cdns!AskCname

\* A CNAME that is not found is an error, or not asked for.
LEMMA LookedAgainOutcome ==
  ASSUME CallsInv, NEW r \in Req, Cdns!LookedAgain(r), Still, tc = "ucloud", deploy[r].o # None
  PROVE  Outcome(r)
<1>1. /\ deploy[r].at = "relook" /\ deploy[r].at # "idle"
      /\ UNCHANGED <<verified, origin, cacheRules>>
  BY DEF Cdns!LookedAgain, Cdns!cdn
<1>2. StillProven
  BY <1>1, StaysProven DEF CallsInv
<1>3. "point" \in Mid /\ Fit(r, "point")
  BY <1>1, UnderWay DEF Fit, Cdns!IsRight, Mid, DeployAt
<1>4. CASE known /\ deploy[r].d \notin named /\ Cdns!Return(r, "error")
  BY <1>1, <1>2, <1>4, EndsLate DEF Cdns!Late
<1>5. CASE ~known /\ Cdns!Return(r, "ok")
  <2>1. Deployed(r)
    BY <1>1, <1>5, UnderWay DEF Deployed, Cdns!IsRight
  <2>2. Served(r)
    BY <1>1, UnderWay DEF Served
  <2> QED
    BY <1>1, <1>2, <1>5, <2>1, <2>2, EndsDone
<1> QED
  BY <1>1, <1>2, <1>3, <1>4, <1>5, GoesOn, Fails DEF Cdns!LookedAgain

\* The end of every Post* function.
LEMMA UpsertCNAMEOutcome ==
  ASSUME CallsInv, NEW r \in Req, Cdns!UpsertCNAME(r), Still, deploy[r].o # None
  PROVE  Outcome(r)
<1>1. /\ deploy[r].at = "point" /\ deploy[r].at # "idle"
      /\ UNCHANGED <<verified, origin, cacheRules>>
  BY DEF Cdns!UpsertCNAME, Cdns!cdn
<1>2. StillProven
  BY <1>1, StaysProven DEF CallsInv
<1>3. CASE /\ known => deploy[r].d \in cname'
           /\ Cdns!Return(r, "ok")
  <2>1. Deployed(r)
    BY <1>1, <1>3, UnderWay DEF Deployed, Cdns!IsRight
  <2>2. Served(r)
    BY <1>1, UnderWay DEF Served
  <2> QED
    BY <1>1, <1>2, <1>3, <2>1, <2>2, EndsDone
<1>4. CASE Cdns!Fault(r)
  BY <1>1, <1>2, <1>4, Fails
<1> QED
  BY <1>3, <1>4 DEF Cdns!UpsertCNAME

LEMMA HttpsIs ==
  ASSUME Cdns!TypeOK, NEW r \in Req, deploy[r].at # "idle", NEW as \in SUBSET Cdns!Area,
         Cdns!SetHttps(r, as)
  PROVE  \A a \in as : https'[deploy[r].d][a] = deploy[r].c
<1>1. PICK d \in Domain, c \in Pem \cup {None} : d = deploy[r].d /\ c = deploy[r].c
  BY DeployFacts DEF Cdns!CallType
<1>2. https' = [https EXCEPT ![d] = [a \in Cdns!Area |-> IF a \in as THEN c ELSE https[d][a]]]
  BY <1>1 DEF Cdns!SetHttps
<1>3. https \in [Domain -> [Cdns!Area -> Pem \cup {None}]]
  BY DEF Cdns!TypeOK
<1> QED
  BY <1>1, <1>2, <1>3

LEMMA PutCertOutcome ==
  ASSUME CallsInv, NEW r \in Req, NEW from \in {"cert", "bind"}, Cdns!PutCert(r, from), Still
  PROVE  Outcome(r)
<1>1. /\ deploy[r].at = from /\ deploy[r].at # "idle"
      /\ UNCHANGED <<verified, origin, cacheRules>>
  BY DEF Cdns!PutCert
<1>2. StillProven
  BY <1>1, StaysProven DEF CallsInv
<1>3. deploy[r].c # None /\ deploy[r].o = None
  BY <1>1, UnderWay DEF Cdns!KeepsOn
<1>4. CASE Cdns!SetHttps(r, Cdns!Area) /\ Cdns!Return(r, "ok")
  <2>1. Cdns!Promised \subseteq Cdns!Area
    BY <1>1, UnderWay DEF Cdns!Promised, Cdns!Area, Cdns!TypeOK
  <2>2. Served(r)
    BY <1>1, <1>4, <2>1, UnderWay, HttpsIs DEF Served
  <2>3. Deployed(r)
    BY <1>3 DEF Deployed
  <2> QED
    BY <1>1, <1>2, <1>4, <2>2, <2>3, EndsDone
<1>5. CASE Cdns!Fault(r)
  BY <1>1, <1>2, <1>5, Fails
<1>6. CASE ~Cdns!Exists(deploy[r].d) /\ Cdns!Return(r, "error")
  BY <1>1, <1>2, <1>3, <1>6, EndsLate DEF Cdns!Late
<1> QED
  BY <1>4, <1>5, <1>6 DEF Cdns!PutCert, Cdns!NotOrdered

\* Where the domain seems absent although it is there, a question has failed.
LEMMA FindDomainOutcome ==
  ASSUME CallsInv, NEW r \in Req, NEW present \in Mid, NEW absent \in Mid,
         Cdns!getUCloudCDNDomain(r, "find", present, absent), Still,
         UNCHANGED <<origin, verified, cacheRules, faulted>> =>
           IF origin[deploy[r].d] # None THEN Fit(r, present) ELSE Fit(r, absent),
         UNCHANGED <<origin, verified, cacheRules>> /\ r \in faulted' => Fit(r, absent)
  PROVE  Outcome(r)
<1>1. CASE Cdns!Looks(r, "find", present, absent)
  BY <1>1, LooksOutcome DEF Mid, DeployAt
<1>2. CASE /\ deploy[r].at = "find"
           /\ deploy' = [deploy EXCEPT ![r].at = absent]
           /\ faulted' = faulted \cup {r}
           /\ UNCHANGED Cdns!cdn
  <2>1. UNCHANGED <<verified, origin, cacheRules>> /\ r \in faulted' /\ deploy[r].at # "idle"
    BY <1>2 DEF Cdns!cdn
  <2>2. StillProven
    BY <2>1, StaysProven DEF CallsInv
  <2> QED
    BY <1>2, <2>1, <2>2, MovePasses DEF Outcome
<1> QED
  BY <1>1, <1>2 DEF Cdns!getUCloudCDNDomain

LEMMA HttpsOutcome ==
  ASSUME CallsInv, NEW r \in Req, Cdns!updateUCloudCDNHTTPS(r), Still
  PROVE  Outcome(r)
<1>1. /\ deploy[r].at = "https" /\ deploy[r].at # "idle"
      /\ UNCHANGED <<verified, origin, cacheRules>>
  BY DEF Cdns!updateUCloudCDNHTTPS
<1>2. StillProven
  BY <1>1, StaysProven DEF CallsInv
<1>3. /\ deploy[r].tries \in Seq(SUBSET Cdns!Area) /\ deploy[r].tries # <<>>
      /\ tc = "ucloud" /\ \A i \in DOMAIN deploy[r].tries : Cdns!Promised \subseteq deploy[r].tries[i]
  BY <1>1, UnderWay, DeployFacts DEF Cdns!KeepsOn, Cdns!CallType
<1>4. PICK s \in Seq(SUBSET Cdns!Area) : s = deploy[r].tries
  BY <1>3
<1>5. Len(s) \in Nat \ {0} /\ DOMAIN s = 1..Len(s)
  BY <1>3, <1>4
<1>6. CASE Cdns!SetHttps(r, Head(s)) /\ Cdns!Return(r, "ok")
  <2>1. Head(s) \in SUBSET Cdns!Area /\ Cdns!Promised \subseteq Head(s)
    BY <1>3, <1>4, <1>5
  <2>2. Served(r)
    BY <1>1, <1>6, <2>1, UnderWay, HttpsIs DEF Served
  <2>3. Deployed(r)
    BY <1>1, UnderWay DEF Deployed, Cdns!KeepsOn
  <2> QED
    BY <1>1, <1>2, <1>6, <2>2, <2>3, EndsDone
<1>7. CASE Cdns!Fault(r)
  BY <1>1, <1>2, <1>7, Fails
<1>8. CASE Len(s) # 1 /\ deploy' = [deploy EXCEPT ![r].tries = Tail(@)]
  <2> SUFFICES ASSUME NEW c, c = [deploy[r] EXCEPT !.tries = Tail(@)]
               PROVE  Passes(r)
    BY <1>1 DEF Outcome
  <2>1. /\ Tail(s) \in Seq(SUBSET Cdns!Area)
        /\ \A i \in DOMAIN Tail(s) : i + 1 \in DOMAIN s /\ Tail(s)[i] = s[i + 1]
    BY <1>5
  <2>2. /\ c \in Cdns!CallType /\ c.at = "https" /\ c.tries = Tail(s)
        /\ c.d = deploy[r].d /\ c.o = deploy[r].o /\ c.c = deploy[r].c
    BY <1>1, <1>4, <2>1, UnderWay DEF Cdns!CallType
  <2>3. deploy' = [deploy EXCEPT ![r] = c] /\ deploy'[r] = c
    BY <1>1, <1>8, UnderWay, DeployFacts
  <2>4. tc' = tc /\ area' = area
    BY StillFacts
  <2>5. Cdns!KeepsOn(r)'
    BY <1>1, <1>3, <1>4, <2>1, <2>2, <2>3, <2>4, UnderWay DEF Cdns!KeepsOn, Cdns!Promised
  <2>6. Cdns!IsRight(r)'
    BY <2>2, <2>3 DEF Cdns!IsRight
  <2> QED
    BY <1>2, <2>2, <2>3, <2>5, <2>6 DEF Passes
<1> QED
  BY <1>4, <1>6, <1>7, <1>8 DEF Cdns!updateUCloudCDNHTTPS

LEMMA AliOutcome ==
  ASSUME CallsInv, NEW r \in Req, Cdns!PostAliCdnDomain(r) \/ Cdns!UploadAliCDNCert(r), Still
  PROVE  Outcome(r)
<1> USE DEF Mid, DeployAt
<1>1. CASE Cdns!UploadAliCDNCert(r)
  BY <1>1, PutCertOutcome DEF Cdns!UploadAliCDNCert
<1>2. CASE Cdns!PostAliCdnDomain(r)
  <2>1. tc = "ali" /\ deploy[r].o # None /\ deploy[r].o \in Origin
    BY <1>2, OriginIsGiven DEF Cdns!PostAliCdnDomain, CallsInv, Cdns!Inv
  <2>2. CASE Cdns!findAliCDNDomain(r)
    <3>1. deploy[r].at # "idle"
      BY <2>2 DEF Cdns!findAliCDNDomain, Cdns!Looks, Cdns!Asks
    <3> QED
      BY <2>1, <2>2, <3>1, LooksOutcome, UnderWay DEF Cdns!findAliCDNDomain, Fit
  <2>3. CASE Cdns!describeDomainVerifyData(r)
    BY <2>1, <2>3, AsksOutcome DEF Cdns!describeDomainVerifyData, Fit
  <2>4. CASE Cdns!UpsertTXT(r) \/ Cdns!WaitTXT(r) \/ Cdns!UpsertCNAME(r)
    BY <2>1, <2>4, UpsertTXTOutcome, WaitTXTOutcome, UpsertCNAMEOutcome
  <2>5. CASE Cdns!verifyDomainOwner(r)
    BY <2>5, VerifyOwnerOutcome DEF Cdns!verifyDomainOwner
  <2>6. CASE Cdns!Looks(r, "again", "modify", "add")
    <3>1. deploy[r].at = "again" /\ deploy[r].at # "idle"
      BY <2>6 DEF Cdns!Looks, Cdns!Asks
    <3> QED
      BY <2>1, <2>6, <3>1, LooksOutcome, UnderWay DEF Fit, Cdns!KeepsOn
  <2>7. CASE Cdns!Configure(r, "modify", deploy[r].o, None, "rules")
    BY <2>1, <2>7, ConfigureOutcome DEF Fit
  <2>8. CASE Cdns!AddDomain(r, "rules")
    BY <2>1, <2>8, AddDomainOutcome
  <2>9. CASE Cdns!Configure(r, "rules", None, deploy[r].o, "name")
    <3>1. deploy[r].at = "rules" /\ deploy[r].at # "idle"
      BY <2>9 DEF Cdns!Configure
    <3> QED
      BY <2>1, <2>9, <3>1, ConfigureOutcome, UnderWay DEF Fit, Cdns!IsRight
  <2>10. CASE Cdns!AskCname(r, "name", "point")
    BY <2>10, AskCnameOutcome
  <2> QED
    BY <1>2, <2>2, <2>3, <2>4, <2>5, <2>6, <2>7, <2>8, <2>9, <2>10
       DEF Cdns!PostAliCdnDomain, Cdns!updateCDNOrigin, Cdns!updateAliCDNRules,
           Cdns!retryGetAliCDNCname
<1> QED
  BY <1>1, <1>2

LEMMA TencentOutcome ==
  ASSUME CallsInv, NEW r \in Req,
         Cdns!PostTencentCDNAndDNS(r) \/ Cdns!UploadTencentCDNCert(r), Still
  PROVE  Outcome(r)
<1> USE DEF Mid, DeployAt
<1>1. CASE Cdns!UploadTencentCDNCert(r)
  <2>1. CASE Cdns!Asks(r, "cert", "bind")
    <3>1. deploy[r].at = "cert" /\ deploy[r].at # "idle"
      BY <2>1 DEF Cdns!Asks
    <3> QED
      BY <2>1, <3>1, AsksOutcome, UnderWay DEF Fit, Cdns!KeepsOn
  <2> QED
    BY <1>1, <2>1, PutCertOutcome DEF Cdns!UploadTencentCDNCert
<1>2. CASE Cdns!PostTencentCDNAndDNS(r)
  <2>1. tc = "tencent" /\ deploy[r].o # None /\ deploy[r].o \in Origin
    BY <1>2, OriginIsGiven DEF Cdns!PostTencentCDNAndDNS, CallsInv, Cdns!Inv
  <2>2. CASE Cdns!getTencentCDNVerifyTXT(r)
    BY <2>1, <2>2, AsksOutcome DEF Cdns!getTencentCDNVerifyTXT, Fit
  <2>3. CASE Cdns!UpsertTXT(r) \/ Cdns!WaitTXT(r) \/ Cdns!UpsertCNAME(r)
    BY <2>1, <2>3, UpsertTXTOutcome, WaitTXTOutcome, UpsertCNAMEOutcome
  <2>4. CASE Cdns!verifyTencentCDNDomain(r)
    BY <2>4, VerifyOwnerOutcome DEF Cdns!verifyTencentCDNDomain
  <2>5. CASE Cdns!tencentCDNExists(r)
    <3>1. deploy[r].at = "again" /\ deploy[r].at # "idle"
      BY <2>5 DEF Cdns!tencentCDNExists, Cdns!Looks, Cdns!Asks
    <3> QED
      BY <2>1, <2>5, <3>1, LooksOutcome, UnderWay DEF Cdns!tencentCDNExists, Fit, Cdns!KeepsOn
  <2>6. CASE Cdns!Configure(r, "modify", deploy[r].o, None, "rules")
    BY <2>1, <2>6, ConfigureOutcome DEF Fit
  <2>7. CASE Cdns!AddDomain(r, "rules")
    BY <2>1, <2>7, AddDomainOutcome
  <2>8. CASE Cdns!updateTencentCDNCacheRules(r)
    <3>1. deploy[r].at = "rules" /\ deploy[r].at # "idle"
      BY <2>8 DEF Cdns!updateTencentCDNCacheRules, Cdns!Configure
    <3> QED
      BY <2>1, <2>8, <3>1, ConfigureOutcome, UnderWay
         DEF Cdns!updateTencentCDNCacheRules, Fit, Cdns!IsRight
  <2>9. CASE Cdns!getTencentCDNCNAME(r)
    BY <2>9, AskCnameOutcome DEF Cdns!getTencentCDNCNAME
  <2> QED
    BY <1>2, <2>2, <2>3, <2>4, <2>5, <2>6, <2>7, <2>8, <2>9
       DEF Cdns!PostTencentCDNAndDNS, Cdns!upsertTencentCDNDomain
<1> QED
  BY <1>1, <1>2

LEMMA HuaweiOutcome ==
  ASSUME CallsInv, NEW r \in Req,
         Cdns!PostHuaweiCdnDomain(r) \/ Cdns!UploadHuaweiCDNCert(r), Still
  PROVE  Outcome(r)
<1> USE DEF Mid, DeployAt
<1>1. tc = "huawei"
  BY DEF Cdns!PostHuaweiCdnDomain, Cdns!UploadHuaweiCDNCert
<1>2. CASE Cdns!newHuaweiCDNClient(r)
  BY <1>1, <1>2, AsksOutcome DEF Cdns!newHuaweiCDNClient, Fit
<1>3. CASE Cdns!UploadHuaweiCDNCert(r)
  BY <1>2, <1>3, PutCertOutcome DEF Cdns!UploadHuaweiCDNCert
<1>4. CASE Cdns!PostHuaweiCdnDomain(r)
  <2>1. deploy[r].o # None /\ deploy[r].o \in Origin
    BY <1>4, OriginIsGiven DEF Cdns!PostHuaweiCdnDomain, CallsInv, Cdns!Inv
  <2>3. CASE Cdns!getHuaweiCDNDomainID(r)
    BY <1>1, <2>3, LooksOutcome DEF Cdns!getHuaweiCDNDomainID, Fit
  <2>4. CASE Cdns!Asks(r, "info", "txt")
    <3>1. deploy[r].at = "info" /\ deploy[r].at # "idle"
      BY <2>4 DEF Cdns!Asks
    <3> QED
      BY <1>1, <2>4, <3>1, AsksOutcome, UnderWay DEF Fit, Cdns!IsRight, Cdns!Exists
  <2>5. CASE Cdns!UpsertTXT(r) \/ Cdns!WaitTXT(r) \/ Cdns!UpsertCNAME(r)
    BY <2>1, <2>5, UpsertTXTOutcome, WaitTXTOutcome, UpsertCNAMEOutcome
  <2>6. CASE Cdns!VerifyOwner(r, "add")
    BY <1>1, <2>6, VerifyOwnerOutcome
  <2>7. CASE Cdns!AddDomain(r, "first")
    BY <2>1, <2>7, AddDomainOutcome
  <2>8. CASE Cdns!updateHuaweiCDNConfig(r, "first", "check")
    BY <1>1, <2>1, <2>8, ConfigureOutcome DEF Cdns!updateHuaweiCDNConfig, Fit
  <2>9. CASE Cdns!Exists(deploy[r].d) /\ Cdns!Asks(r, "check", "rules")
    BY <1>1, <2>9, AsksOutcome DEF Fit, Cdns!Exists
  <2>10. CASE Cdns!updateHuaweiCDNConfig(r, "rules", "name")
    BY <1>1, <2>1, <2>10, ConfigureOutcome DEF Cdns!updateHuaweiCDNConfig, Fit
  <2>11. CASE Cdns!getHuaweiCDNCname(r)
    BY <2>11, AskCnameOutcome DEF Cdns!getHuaweiCDNCname
  <2> QED
    BY <1>2, <1>4, <2>3, <2>4, <2>5, <2>6, <2>7, <2>8, <2>9, <2>10, <2>11
       DEF Cdns!PostHuaweiCdnDomain, Cdns!updateHuaweiCDNOrigin,
           Cdns!beforeCreateHuaweiCDNDomain, Cdns!createHuaweiCDNDomain
<1> QED
  BY <1>3, <1>4

LEMMA UCloudOutcome ==
  ASSUME CallsInv, NEW r \in Req,
         \/ Cdns!PostUCloudCDNAndDNS(r) \/ Cdns!UploadUCloudCDNCert(r)
         \/ Cdns!updateUCloudCDNHTTPS(r),
         Still
  PROVE  Outcome(r)
<1> USE DEF Mid, DeployAt
<1>1. CASE Cdns!updateUCloudCDNHTTPS(r)
  BY <1>1, HttpsOutcome
<1>2. CASE Cdns!UploadUCloudCDNCert(r)
  <2>1. tc = "ucloud" /\ deploy[r].c # None
    BY <1>2 DEF Cdns!UploadUCloudCDNCert
  <2>2. CASE Cdns!Asks(r, "cert", "find") \/ Cdns!findUCloudCertID(r)
    BY <2>1, <2>2, AsksOutcome DEF Cdns!findUCloudCertID, Fit
  <2>3. CASE Cdns!Asks(r, "cert", "search")
    BY <2>1, <2>3, AsksOutcome DEF Fit
  <2>4. CASE Cdns!getUCloudCDNDomain(r, "find", "https", "lost")
    BY <2>1, <2>4, FindDomainOutcome DEF Fit
  <2>5. CASE /\ deploy[r].at = "lost" /\ Cdns!Return(r, "error")
             /\ UNCHANGED <<Cdns!dns, Cdns!cdn>>
    <3>1. /\ deploy[r].at # "idle" /\ UNCHANGED <<verified, origin>>
      BY <2>5 DEF Cdns!cdn
    <3>2. Cdns!Alone(r) /\ r \notin faulted => Cdns!Late(r)
      BY <2>1, <2>5, <3>1, UnderWay DEF Cdns!IsRight, Cdns!Late
    <3> QED
      BY <2>5, <3>1, <3>2, StaysProven, EndsLate DEF CallsInv
  <2> QED
    BY <1>2, <2>2, <2>3, <2>4, <2>5 DEF Cdns!UploadUCloudCDNCert
<1>3. CASE Cdns!PostUCloudCDNAndDNS(r)
  <2>1. tc = "ucloud" /\ deploy[r].o # None /\ deploy[r].o \in Origin
    BY <1>3, OriginIsGiven DEF Cdns!PostUCloudCDNAndDNS, CallsInv, Cdns!Inv
  <2>2. CASE Cdns!getUCloudProjectID(r)
    <3>1. deploy[r].at # "idle" /\ UNCHANGED <<verified, origin>> /\ Cdns!Becomes(r, "find")
      BY <2>2 DEF Cdns!getUCloudProjectID, Cdns!cdn
    <3> QED
      BY <3>1, StaysProven, GoesOn DEF CallsInv, Fit
  <2>3. CASE Cdns!getUCloudCDNDomain(r, "find",
               IF deploy[r].d \in named THEN "change" ELSE "modify", "add")
    <3>1. deploy[r].at # "idle" /\ tc # "huawei"
      BY <2>1, <2>3 DEF Cdns!getUCloudCDNDomain, Cdns!Looks, Cdns!Asks
    <3> DEFINE present == IF deploy[r].d \in named THEN "change" ELSE "modify"
    <3>2. present \in {"change", "modify"}
      OBVIOUS
    <3> HIDE DEF present
    <3>3. Cdns!getUCloudCDNDomain(r, "find", present, "add")
      BY <2>3 DEF present
    <3> QED
      BY <2>1, <3>1, <3>2, <3>3, FindDomainOutcome, UnderWay DEF Fit
  <2>4. CASE Cdns!UpdatedUCloudCDNDomain(r)
    <3>1. CASE Cdns!Configure(r, "change", deploy[r].o, Cached, "point")
      BY <2>1, <3>1, ConfigureOutcome DEF Fit
    <3>2. CASE Cdns!Configure(r, "modify", deploy[r].o, Cached, "relook")
      BY <2>1, <3>2, ConfigureOutcome DEF Fit
    <3> QED
      BY <2>4, <3>1, <3>2 DEF Cdns!UpdatedUCloudCDNDomain
  <2>5. CASE Cdns!createUCloudCDNDomain(r)
    BY <2>1, <2>5, AddDomainOutcome DEF Cdns!createUCloudCDNDomain
  <2>6. CASE Cdns!AskCname(r, "look", "point")
    BY <2>1, <2>6, AskCnameOutcome
  <2>7. CASE Cdns!UpsertCNAME(r)
    BY <2>1, <2>7, UpsertCNAMEOutcome
  <2>8. CASE Cdns!LookedAgain(r)
    BY <2>1, <2>8, LookedAgainOutcome
  <2> QED
    BY <1>3, <2>2, <2>3, <2>4, <2>5, <2>6, <2>7, <2>8
       DEF Cdns!PostUCloudCDNAndDNS, Cdns!upsertUCloudCDNDomain
<1> QED
  BY <1>1, <1>2, <1>3

LEMMA StepOutcome ==
  ASSUME CallsInv, NEW r \in Req, Cdns!Step(r)
  PROVE  Outcome(r)
<1>1. Still
  BY DEF Cdns!Step, Still
<1> QED
  BY <1>1, AliOutcome, TencentOutcome, HuaweiOutcome, UCloudOutcome DEF Cdns!Step

LEMMA OutcomeInv ==
  ASSUME CallsInv, NEW r \in Req, Outcome(r)
  PROVE  Cdns!CallInv'
<1>1. deploy[r].at # "idle" /\ StillProven
  BY DEF Outcome, Passes, Finishes
<1>2. Cdns!TypeOK /\ r \in Cdns!Active
  BY <1>1 DEF CallsInv, Cdns!Inv, Cdns!Active
<1>3. /\ \A q \in Req : q # r => deploy'[q] = deploy[q]
      /\ deploy'[r].at # "idle" => Passes(r)
  BY <1>2, DeployFacts, IdleDeploy DEF Outcome, Passes, Finishes
<1>4. /\ tc' = tc /\ area' = area /\ deployOverlapped' = deployOverlapped
      /\ verified \subseteq verified'
      /\ \A d \in Domain : Cdns!Exists(d) => Cdns!Exists(d)'
  BY <1>1, StillFacts DEF StillProven, Cdns!Exists
<1>5. Cdns!OwnersAreProven'
  BY <1>1, <1>4 DEF StillProven, Cdns!OwnersAreProven, Cdns!Exists
<1>6. Cdns!CallsKeepOn'
  <2> SUFFICES ASSUME NEW q \in Req, deploy'[q].at # "idle"
               PROVE  Cdns!KeepsOn(q)'
    BY DEF Cdns!CallsKeepOn, Cdns!Active
  <2>1. CASE q = r
    BY <1>3, <2>1 DEF Passes
  <2>2. CASE q # r
    <3>1. deploy'[q] = deploy[q] /\ deploy[q].at # "idle"
      BY <1>3, <2>2
    <3>2. Cdns!KeepsOn(q) /\ deploy[q].d \in Domain
      BY <3>1, UnderWay
    <3> QED
      BY <1>4, <3>1, <3>2 DEF Cdns!KeepsOn, Cdns!Promised
  <2> QED
    BY <2>1, <2>2
<1>7. Cdns!AloneIsRight'
  <2> SUFFICES ASSUME NEW q \in Req, deploy'[q].at # "idle", Cdns!Alone(q)'
               PROVE  Cdns!Active' = {q} /\ Cdns!IsRight(q)'
    BY DEF Cdns!AloneIsRight, Cdns!Active
  <2>1. deploy[q].at # "idle" /\ Cdns!Alone(q)
    BY <1>1, <1>3, <1>4 DEF Cdns!Alone
  <2>2. Cdns!Active = {q}
    BY <2>1 DEF CallsInv, Cdns!CallInv, Cdns!AloneIsRight, Cdns!Active
  <2>3. q = r
    BY <1>2, <2>2
  <2>4. \A p \in Req : deploy'[p].at # "idle" => p = q
    BY <1>3, <2>2, <2>3 DEF Cdns!Active
  <2> QED
    BY <1>3, <2>1, <2>3, <2>4 DEF Passes, Cdns!Active
<1> QED
  BY <1>5, <1>6, <1>7 DEF Cdns!CallInv

LEMMA BeginCall ==
  ASSUME CallsInv, NEW r \in Req, NEW d \in Domain, NEW o \in Origin \cup {None},
         NEW c \in Pem \cup {None}, o # None <=> c = None, Cdns!Begin(r, d, o, c)
  PROVE  Cdns!CallInv'
<1>1. Cdns!TypeOK /\ Cdns!OwnersAreProven /\ Cdns!CallsKeepOn /\ Cdns!AloneIsRight
  BY DEF CallsInv, Cdns!Inv, Cdns!CallInv
<1>2. tc \in {"ali", "tencent", "huawei", "ucloud"}
  BY <1>1, SupplyAssumption DEF Cdns!TypeOK, Cdns!DeployAssumption
<1> SUFFICES ASSUME NEW n, n = [at |-> Cdns!First(IF c = None THEN "post" ELSE "upload"),
                                d |-> d, o |-> o, c |-> c, tries |-> Cdns!Attempts,
                                found |-> 0]
             PROVE  Cdns!CallInv'
  OBVIOUS
<1>3. /\ n.at \in {"client", "project", "find", "cert"} /\ (n.at = "cert" => n.c # None)
      /\ n.tries = Cdns!Attempts
  BY <1>2 DEF Cdns!First
<1>4. tc = "ucloud" => \A i \in DOMAIN Cdns!Attempts : Cdns!Promised \subseteq Cdns!Attempts[i]
  BY DEF Cdns!Attempts, Cdns!Promised, Cdns!Area
<1>5. \A q \in Req : deploy'[q] = IF q = r THEN n ELSE deploy[q]
  BY <1>1, DeployFacts DEF Cdns!Begin
<1>6. UNCHANGED <<tc, area, verified, origin, cacheRules>>
  BY DEF Cdns!Begin, Cdns!where, Cdns!cdn
<1>7. Cdns!OwnersAreProven'
  BY <1>1, <1>6 DEF Cdns!OwnersAreProven, Cdns!Exists
<1>8. Cdns!CallsKeepOn'
  <2> SUFFICES ASSUME NEW q \in Req, deploy'[q].at # "idle"
               PROVE  Cdns!KeepsOn(q)'
    BY DEF Cdns!CallsKeepOn, Cdns!Active
  <2>1. CASE q = r
    BY <1>3, <1>4, <1>5, <1>6, <2>1 DEF Cdns!KeepsOn, Cdns!Promised
  <2>2. CASE q # r
    BY <1>1, <1>5, <1>6, <2>2
       DEF Cdns!CallsKeepOn, Cdns!Active, Cdns!KeepsOn, Cdns!Exists, Cdns!Promised
  <2> QED
    BY <2>1, <2>2
<1>9. Cdns!AloneIsRight'
  <2> SUFFICES ASSUME NEW q \in Req, deploy'[q].at # "idle", q \notin deployOverlapped'
               PROVE  Cdns!Active' = {q} /\ Cdns!IsRight(q)'
    BY DEF Cdns!AloneIsRight, Cdns!Active, Cdns!Alone
  <2>1. q = r /\ Cdns!Active = {}
    BY <1>5 DEF Cdns!Begin, Cdns!Active
  <2>2. Cdns!Active' = {q}
    BY <1>3, <1>5, <2>1 DEF Cdns!Active
  <2> QED
    BY <1>3, <1>5, <2>1, <2>2 DEF Cdns!IsRight
<1> QED
  BY <1>7, <1>8, <1>9 DEF Cdns!CallInv

LEMMA SameCalls ==
  ASSUME Cdns!CallInv,
         UNCHANGED <<tc, area, txt, verified, origin, cacheRules, deploy, faulted,
                     deployOverlapped>>
  PROVE  Cdns!CallInv'
  BY DEF Cdns!CallInv, Cdns!OwnersAreProven, Cdns!CallsKeepOn, Cdns!AloneIsRight, Cdns!KeepsOn,
         Cdns!IsRight, Cdns!Active, Cdns!Alone, Cdns!Exists, Cdns!Promised

LEMMA OtherSteps ==
  ASSUME Cdns!Propagate \/ \E d \in Domain : Cdns!Name(d)
  PROVE  UNCHANGED <<tc, area, txt, verified, origin, cacheRules, deploy, faulted,
                     deployOverlapped>>
  BY DEF Cdns!Propagate, Cdns!Name, Cdns!where, Cdns!dns, Cdns!cdn

LEMMA CallInit == Cdns!Init => Cdns!CallInv
<1> SUFFICES ASSUME Cdns!Init PROVE Cdns!CallInv
  OBVIOUS
<1>1. Cdns!Active = {}
  BY IdleDeploy DEF Cdns!Init, Cdns!Active
<1>2. Cdns!OwnersAreProven
  BY DEF Cdns!Init, Cdns!OwnersAreProven, Cdns!Exists
<1> QED
  BY <1>1, <1>2 DEF Cdns!CallInv, Cdns!CallsKeepOn, Cdns!AloneIsRight

\* What a call relies on is there: what it has found, made or proven is still so.
THEOREM CallsAreRight == Cdns!Spec => []CallsInv
<1>1. CallsInv /\ [Cdns!Next]_(Cdns!vars) => Cdns!CallInv'
  <2> SUFFICES ASSUME CallsInv, [Cdns!Next]_(Cdns!vars) PROVE Cdns!CallInv'
    OBVIOUS
  <2>1. CASE \E r \in Req : Cdns!Step(r)
    BY <2>1, StepOutcome, OutcomeInv
  <2>2. CASE \E r \in Req, d \in Domain : \/ \E o \in Origin : Cdns!Begin(r, d, o, None)
                                         \/ \E c \in Pem : Cdns!Begin(r, d, None, c)
    BY <2>2, BeginCall, SupplyAssumption DEF Cdns!DeployAssumption
  <2>3. CASE Cdns!Propagate \/ \E d \in Domain : Cdns!Name(d)
    BY <2>3, OtherSteps, SameCalls DEF CallsInv
  <2>4. CASE UNCHANGED Cdns!vars
    BY <2>4, SameCalls DEF CallsInv, Cdns!vars, Cdns!where, Cdns!dns, Cdns!cdn
  <2> QED
    BY <2>1, <2>2, <2>3, <2>4 DEF Cdns!Next
<1>2. Cdns!Inv /\ Cdns!CallInv <=> CallsInv
  BY DEF CallsInv
<1> QED
  BY <1>1, <1>2, PointedAreSetUp, CallInit, PTL DEF Cdns!Spec

\* Only the step that ends a call makes it idle.
LEMMA EndIsOutcome ==
  ASSUME CallsInv, [Cdns!Next]_(Cdns!vars), NEW r \in Req,
         deploy[r].at # "idle", deploy'[r].at = "idle"
  PROVE  Finishes(r)
<1>1. Cdns!TypeOK
  BY DEF CallsInv, Cdns!Inv
<1>2. CASE \E q \in Req : Cdns!Step(q)
  <2>1. PICK q \in Req : Cdns!Step(q)
    BY <1>2
  <2>2. Outcome(q)
    BY <2>1, StepOutcome
  <2>3. q = r
    BY <1>1, <2>2, DeployFacts DEF Outcome, Passes, Finishes
  <2> QED
    BY <1>1, <2>2, <2>3, DeployFacts DEF Outcome, Passes
<1>3. CASE \E q \in Req, d \in Domain : \/ \E o \in Origin : Cdns!Begin(q, d, o, None)
                                       \/ \E c \in Pem : Cdns!Begin(q, d, None, c)
  BY <1>1, <1>3, DeployFacts, IdleDeploy DEF Cdns!Begin
<1>4. CASE Cdns!Propagate \/ \E d \in Domain : Cdns!Name(d)
  BY <1>4, OtherSteps
<1>5. CASE UNCHANGED Cdns!vars
  BY <1>5 DEF Cdns!vars
<1> QED
  BY <1>2, <1>3, <1>4, <1>5 DEF Cdns!Next

\* What a call that was alone reports done is done, by each of the drivers: the
\* origin, its rules, the owner's proof and the record, or the certificate.
THEOREM WhatSucceedsIsDone == Cdns!Spec => SuccessIsDone
<1>1. CallsInv /\ [Cdns!Next]_(Cdns!vars)
      => \A r \in Req : Cdns!Ends(r, "ok") => Deployed(r) /\ Served(r)
  BY EndIsOutcome DEF Cdns!Ends, Finishes
<1>2. (\A r \in Req : Cdns!Ends(r, "ok") => Deployed(r) /\ Served(r))
      => /\ \A r \in Req : Cdns!Ends(r, "ok") /\ Cdns!Alone(r) /\ deploy[r].o # None =>
                LET d == deploy[r].d IN
                /\ origin[d] = deploy[r].o
                /\ tc \in {"ali", "huawei"} => cacheRules[d] = deploy[r].o
                /\ tc # "ucloud" => d \in verified
                /\ known => d \in cname'
         /\ \A r \in Req : Cdns!Ends(r, "ok") /\ Cdns!Alone(r) /\ deploy[r].c # None =>
                \A a \in Cdns!Promised : https'[deploy[r].d][a] = deploy[r].c
  BY DEF Deployed, Served
<1> QED
  BY <1>1, <1>2, CallsAreRight, PTL
     DEF Cdns!Spec, SuccessIsDone, Cdns!SuccessIsDone, Cdns!SuccessIsDeployed, Cdns!SuccessIsServed

\* However earlier calls stopped half way, nothing they left makes a later one
\* fail that is alone and meets no failure or delay of its own, but two TXT records.
THEOREM RetriesSucceed == Cdns!Spec => RetrySucceeds
<1>1. CallsInv /\ [Cdns!Next]_(Cdns!vars)
      => \A r \in Req : Cdns!Ends(r, "error") /\ Cdns!Alone(r) /\ r \notin faulted' => Cdns!Late(r) \/ Cdns!Doubled(r)
  BY EndIsOutcome DEF Cdns!Ends, Finishes
<1> QED
  BY <1>1, CallsAreRight, PTL DEF Cdns!Spec, RetrySucceeds, Cdns!RetrySucceeds

(***************************************************************************)
(* A zone's rules at cloudflare (CfRules).                                 *)
(***************************************************************************)
SetupAt == {"idle", "record", "cache", "rate", "ssl", "port", "header"}
SetupStep == {"find", "write", "ruleset", "rule"}

LEMMA SetupFacts ==
  ASSUME Cf!TypeOK, NEW r \in Req
  PROVE  /\ setup \in [Req -> Cf!ReqType] /\ setup[r] \in Cf!ReqType
         /\ setup[r].at \in SetupAt /\ setup[r].step \in SetupStep
         /\ setup[r].at = "idle" => setup[r] = Cf!Idle
         /\ setup[r].at # "idle" => /\ setup[r].host \in Domain /\ setup[r].origin \in Origin
                                    /\ setup[r].port \in Port \cup {Plain}
         /\ setup[r].at = "port" => setup[r].port \in Port
         /\ setup[r].seen \in Seq(Cf!RuleType)
  BY DEF Cf!TypeOK, Cf!ReqType, SetupAt, SetupStep

LEMMA ZoneFacts ==
  ASSUME Cf!TypeOK
  PROVE  /\ record \in [Domain -> Origin \cup {None}]
         /\ rulesets \subseteq {"cache", "rate", "origin"}
         /\ rules \in Seq(Cf!RuleType)
         /\ rules # <<>> => "origin" \in rulesets
         /\ UNCHANGED Cf!zone => /\ record' = record /\ rulesets' = rulesets
                                 /\ rules' = rules /\ ssl' = ssl
  BY Zenon DEF Cf!TypeOK, Cf!zone

LEMMA Positions ==
  ASSUME NEW S, NEW s \in Seq(S)
  PROVE  Len(s) \in Nat /\ DOMAIN s = 1..Len(s)
  OBVIOUS

\* What a request has read: some of the rules, with their refs.
Fits(s, u) == Len(s) <= Len(u) /\ \A i \in DOMAIN s : s[i].ref = u[i].ref

LEMMA FitsDomain ==
  ASSUME NEW S, NEW s \in Seq(S), NEW u \in Seq(S), Fits(s, u)
  PROVE  DOMAIN s \subseteq DOMAIN u
  BY DEF Fits

LEMMA FitsOn ==
  ASSUME NEW S, NEW s \in Seq(S), NEW u \in Seq(S), NEW v \in Seq(S), Fits(s, u), Fits(u, v)
  PROVE  Fits(s, v)
<1>1. DOMAIN s \subseteq DOMAIN u
  BY FitsDomain
<1> QED
  BY <1>1 DEF Fits

LEMMA NothingRead ==
  ASSUME NEW S, NEW v \in Seq(S)
  PROVE  Fits(<<>>, v) /\ Cf!OwnHosts(<<>>)
  BY DEF Fits, Cf!OwnHosts

LEMMA IdleSetup ==
  /\ Cf!Idle \in Cf!ReqType
  /\ Cf!Idle.at = "idle" /\ Cf!Idle.step = "find" /\ Cf!Idle.seen = <<>>
  BY DEF Cf!Idle, Cf!ReqType

\* What a step leaves of the zone: rules keep their place and their refs.
ZoneGrows ==
  /\ record' \in [Domain -> Origin \cup {None}]
  /\ rulesets \subseteq rulesets' /\ rulesets' \subseteq {"cache", "rate", "origin"}
  /\ ssl' \in BOOLEAN
  /\ rules' \in Seq(Cf!RuleType)
  /\ rules' # <<>> => "origin" \in rulesets'
  /\ Cf!OwnHosts(rules')
  /\ Fits(rules, rules')
  /\ started' = started /\ asked' = asked /\ setupOverlapped' = setupOverlapped

\* Where a request may go: it knows what it did, the rules that are there, or nothing.
LEMMA SetupKeeps ==
  ASSUME Cf!Inv, NEW r \in Req, setup[r].at # "idle", ZoneGrows,
         NEW c \in Cf!ReqType, setup' = [setup EXCEPT ![r] = c],
         setupAnswer' \in [Req -> {"none", "ok", "ok, but for the header", "error"}],
         IF c.at = "idle" THEN c = Cf!Idle
         ELSE /\ c.host = setup[r].host /\ c.origin = setup[r].origin /\ c.port = setup[r].port
              /\ c.at = "port" => c.port \in Port
              /\ c.seen \in {<<>>, rules, setup[r].seen}
              /\ c.step = "rule" => c.seen = rules' /\ "origin" \in rulesets'
  PROVE  Cf!Inv'
<1>1. Cf!TypeOK /\ Cf!OwnHosts(rules) /\ Cf!SeenIsThere
  BY DEF Cf!Inv
<1>2. setup' \in [Req -> Cf!ReqType] /\ \A q \in Req : setup'[q] = IF q = r THEN c ELSE setup[q]
  BY <1>1, SetupFacts
<1>3. Cf!TypeOK'
  <2>1. \A q \in Req : IF setup'[q].at = "idle" THEN setup'[q] = Cf!Idle
                       ELSE /\ setup'[q].host \in Domain /\ setup'[q].origin \in Origin
                            /\ setup'[q].port \in Port \cup {Plain}
                            /\ setup'[q].at = "port" => setup'[q].port \in Port
    BY <1>1, <1>2, SetupFacts
  <2>2. started' \in 0..MaxRequests /\ asked' \in [Domain -> SUBSET (Port \cup {Plain})]
        /\ setupOverlapped' \subseteq Req
    BY <1>1 DEF Cf!TypeOK, ZoneGrows
  <2> QED
    BY <1>2, <2>1, <2>2 DEF Cf!TypeOK, ZoneGrows
<1>4. Cf!Active' \subseteq Cf!Active /\ r \in Cf!Active
  BY <1>2 DEF Cf!Active
<1>5. rules \in Seq(Cf!RuleType) /\ rules' \in Seq(Cf!RuleType) /\ Fits(rules, rules')
  BY <1>1, <1>3, ZoneFacts DEF ZoneGrows
<1>6. ASSUME NEW q \in Req, setup[q].at # "idle"
      PROVE  /\ Cf!OwnHosts(setup[q].seen) /\ Fits(setup[q].seen, rules')
             /\ setup[q].step = "rule" => "origin" \in rulesets'
  <2>1. setup[q].seen \in Seq(Cf!RuleType)
    BY <1>1, SetupFacts
  <2>2. Cf!OwnHosts(setup[q].seen) /\ Fits(setup[q].seen, rules)
    BY <1>1, <1>6 DEF Cf!SeenIsThere, Cf!Active, Fits
  <2>3. setup[q].step = "rule" => "origin" \in rulesets'
    BY <1>1, <1>6 DEF Cf!SeenIsThere, Cf!Active, ZoneGrows
  <2> QED
    BY <1>5, <2>1, <2>2, <2>3, FitsOn
<1>7. c.at # "idle" => Cf!OwnHosts(c.seen) /\ Fits(c.seen, rules')
  <2>1. CASE c.seen = <<>>
    BY <1>5, <2>1, NothingRead
  <2>2. CASE c.seen = rules
    BY <1>1, <1>5, <2>2
  <2>3. CASE c.seen = setup[r].seen
    BY <1>6, <2>3
  <2> QED
    BY <2>1, <2>2, <2>3
<1>8. Cf!SeenIsThere'
  <2>1. ASSUME NEW q \in Req, setup'[q].at # "idle", q \notin setupOverlapped
        PROVE  q = r /\ Cf!Active' = {q}
    <3>1. q \in Cf!Active /\ Cf!Active = {q}
      BY <1>1, <1>4, <2>1 DEF Cf!SeenIsThere, Cf!Active
    <3> QED
      BY <1>4, <2>1, <3>1 DEF Cf!Active
  <2>2. ASSUME NEW q \in Req, setup'[q].at # "idle"
        PROVE  /\ Cf!OwnHosts(setup'[q].seen) /\ Fits(setup'[q].seen, rules')
               /\ setup'[q].step = "rule" => "origin" \in rulesets'
               /\ q \notin setupOverlapped =>
                    Cf!Active' = {q} /\ (setup'[q].step = "rule" => setup'[q].seen = rules')
    <3>1. CASE q = r
      BY <1>2, <1>7, <2>1, <2>2, <3>1
    <3>2. CASE q # r
      BY <1>2, <1>6, <2>1, <2>2, <3>2
    <3> QED
      BY <3>1, <3>2
  <2> QED
    BY <2>2 DEF Cf!SeenIsThere, Cf!Active, Cf!OwnHosts, Fits, ZoneGrows
<1> QED
  BY <1>3, <1>8 DEF Cf!Inv, ZoneGrows

Answers == {"none", "ok", "ok, but for the header", "error"}

LEMMA ReturnKeeps ==
  ASSUME Cf!Inv, NEW r \in Req, setup[r].at # "idle", ZoneGrows,
         NEW a \in Answers, Cf!Return(r, a)
  PROVE  Cf!Inv'
<1>1. /\ setup' = [setup EXCEPT ![r] = Cf!Idle]
      /\ setupAnswer' \in [Req -> Answers]
  BY DEF Cf!Return, Cf!Inv, Cf!TypeOK, Answers
<1> QED
  BY <1>1, IdleSetup, SetupKeeps DEF Answers

LEMMA ErrorKeeps ==
  ASSUME Cf!Inv, NEW r \in Req, setup[r].at # "idle", ZoneGrows, Cf!Error(r)
  PROVE  Cf!Inv'
<1>1. \E a \in Answers : Cf!Return(r, a)
  BY DEF Cf!Error, Answers
<1> QED
  BY <1>1, ReturnKeeps

LEMMA GotoKeeps ==
  ASSUME Cf!Inv, NEW r \in Req, setup[r].at # "idle", ZoneGrows,
         NEW at \in SetupAt \ {"idle"}, NEW step \in SetupStep, Cf!Goto(r, at, step),
         at = "port" => setup[r].port \in Port,
         step = "rule" => rules' = <<>> /\ "origin" \in rulesets'
  PROVE  Cf!Inv'
<1> SUFFICES ASSUME NEW c, c = [setup[r] EXCEPT !.at = at, !.step = step, !.found = FALSE,
                                                !.seen = <<>>]
             PROVE  Cf!Inv'
  OBVIOUS
<1>1. Cf!TypeOK /\ setup \in [Req -> Cf!ReqType] /\ setup[r] \in Cf!ReqType
  BY SetupFacts DEF Cf!Inv
<1>2. /\ c \in Cf!ReqType /\ c.at = at /\ c.step = step /\ c.seen = <<>>
      /\ c.host = setup[r].host /\ c.origin = setup[r].origin /\ c.port = setup[r].port
  <2>1. <<>> \in Seq(Cf!RuleType) /\ FALSE \in BOOLEAN
    OBVIOUS
  <2> QED
    BY <1>1, <2>1 DEF Cf!ReqType, SetupAt, SetupStep
<1>3. setup' = [setup EXCEPT ![r] = c] /\ setupAnswer' \in [Req -> Answers]
  BY <1>1 DEF Cf!Goto, Cf!TypeOK, Answers
<1> QED
  BY <1>2, <1>3, SetupKeeps DEF Answers

LEMMA AppliedKeeps ==
  ASSUME Cf!Inv, NEW r \in Req, setup[r].at # "idle", ZoneGrows,
         NEW at \in (SetupAt \ {"idle"}) \cup {"done"}, NEW step \in SetupStep,
         Cf!Applied(r, at, step),
         at = "port" => setup[r].port \in Port,
         step = "rule" => rules' = <<>> /\ "origin" \in rulesets'
  PROVE  Cf!Inv'
<1>1. CASE Cf!Error(r)
  BY <1>1, ErrorKeeps
<1>2. CASE at = "done" /\ Cf!Return(r, "ok")
  BY <1>2, ReturnKeeps DEF Answers
<1>3. CASE at # "done" /\ Cf!Goto(r, at, step)
  BY <1>3, GotoKeeps
<1> QED
  BY <1>1, <1>2, <1>3 DEF Cf!Applied

LEMMA RestGrows ==
  ASSUME Cf!Inv, Cf!Rest, UNCHANGED rules,
         record' \in [Domain -> Origin \cup {None}],
         rulesets \subseteq rulesets', rulesets' \subseteq {"cache", "rate", "origin"},
         ssl' \in BOOLEAN
  PROVE  ZoneGrows
<1>1. Cf!TypeOK /\ Cf!OwnHosts(rules)
  BY DEF Cf!Inv
<1>2. Cf!OwnHosts(rules') /\ Fits(rules, rules')
  BY <1>1, ZoneFacts, Positions DEF Fits
<1> QED
  BY <1>1, <1>2, ZoneFacts DEF ZoneGrows, Cf!Rest

LEMMA ZoneStays == ASSUME Cf!Inv, Cf!Rest, UNCHANGED Cf!zone PROVE ZoneGrows
<1>1. Cf!TypeOK /\ ssl \in BOOLEAN
  BY DEF Cf!Inv, Cf!TypeOK
<1> QED
  BY <1>1, ZoneFacts, RestGrows

LEMMA RecordKeeps ==
  ASSUME Cf!Inv, NEW r \in Req, Cf!DnsUpsertRecord(r)
  PROVE  Cf!Inv'
<1>1. /\ Cf!TypeOK /\ ssl \in BOOLEAN /\ setup[r].at # "idle"
      /\ setup[r].host \in Domain /\ setup[r].origin \in Origin
  BY SetupFacts DEF Cf!Inv, Cf!TypeOK, Cf!DnsUpsertRecord
<1>2. ZoneGrows
  BY <1>1, ZoneFacts, RestGrows DEF Cf!DnsUpsertRecord
<1> QED
  BY <1>1, <1>2, AppliedKeeps, ErrorKeeps DEF Cf!DnsUpsertRecord, SetupAt, SetupStep

LEMMA FindRulesetKeeps ==
  ASSUME Cf!Inv, NEW r \in Req, NEW phase \in {"cache", "rate"}, Cf!findCFRulesetByPhase(r, phase)
  PROVE  Cf!Inv'
<1>1. /\ Cf!TypeOK /\ setup[r].at = phase /\ setup \in [Req -> Cf!ReqType]
      /\ setup[r] \in Cf!ReqType
  BY SetupFacts DEF Cf!Inv, Cf!findCFRulesetByPhase
<1>2. ZoneGrows
  BY ZoneStays DEF Cf!findCFRulesetByPhase
<1>3. CASE Cf!Error(r)
  BY <1>1, <1>2, <1>3, ErrorKeeps
<1>4. CASE /\ setup' = [setup EXCEPT ![r].step = "write", ![r].found = phase \in rulesets]
           /\ UNCHANGED setupAnswer
  <2>0. PICK b \in BOOLEAN : setup' = [setup EXCEPT ![r].step = "write", ![r].found = b]
    <3>1. (phase \in rulesets) \in BOOLEAN
      OBVIOUS
    <3> QED
      BY <1>4, <3>1, Zenon
  <2> SUFFICES ASSUME NEW c, c = [setup[r] EXCEPT !.step = "write", !.found = b]
               PROVE  Cf!Inv'
    OBVIOUS
  <2>1. /\ c \in Cf!ReqType /\ c.at = phase /\ c.step = "write" /\ c.seen = setup[r].seen
        /\ c.host = setup[r].host /\ c.origin = setup[r].origin /\ c.port = setup[r].port
    BY <1>1 DEF Cf!ReqType
  <2>2. setup' = [setup EXCEPT ![r] = c] /\ setupAnswer' \in [Req -> Answers]
    BY <1>1, <1>4, <2>0 DEF Cf!TypeOK, Answers
  <2> QED
    BY <1>1, <1>2, <2>1, <2>2, SetupKeeps DEF Answers
<1> QED
  BY <1>3, <1>4 DEF Cf!findCFRulesetByPhase

LEMMA CreateRulesetKeeps ==
  ASSUME Cf!Inv, NEW r \in Req, setup[r].at # "idle",
         NEW phase \in {"cache", "rate", "origin"},
         NEW to \in SetupAt \ {"idle"}, NEW step \in SetupStep,
         to = "port" => setup[r].port \in Port, step = "rule" => phase = "origin",
         Cf!createCFRuleset(r, phase, to, step)
  PROVE  Cf!Inv'
<1>1. Cf!TypeOK /\ ssl \in BOOLEAN
  BY DEF Cf!Inv, Cf!TypeOK
<1>2. ZoneGrows
  BY <1>1, ZoneFacts, RestGrows DEF Cf!createCFRuleset
<1>3. CASE Cf!Error(r)
  BY <1>2, <1>3, ErrorKeeps
<1>4. CASE /\ phase \notin rulesets /\ rulesets' = rulesets \cup {phase}
           /\ Cf!Applied(r, to, step)
  <2>1. step = "rule" => rules' = <<>> /\ "origin" \in rulesets'
    BY <1>1, <1>4, ZoneFacts DEF Cf!createCFRuleset
  <2> QED
    BY <1>2, <1>4, <2>1, AppliedKeeps
<1> QED
  BY <1>3, <1>4 DEF Cf!createCFRuleset

LEMMA RulesetKeeps ==
  ASSUME Cf!Inv, NEW r \in Req, NEW phase \in {"cache", "rate"}, NEW to \in {"rate", "ssl"},
         Cf!upsertCFRulesetByPhase(r, phase, to)
  PROVE  Cf!Inv'
<1>1. CASE Cf!findCFRulesetByPhase(r, phase)
  BY <1>1, FindRulesetKeeps
<1>2. CASE setup[r].at = phase /\ Cf!createCFRuleset(r, phase, to, "find")
  BY <1>2, CreateRulesetKeeps DEF SetupAt, SetupStep
<1>3. CASE setup[r].at = phase /\ Cf!updateCFRuleset(r, to, "find")
  BY <1>3, ZoneStays, AppliedKeeps DEF Cf!updateCFRuleset, SetupAt, SetupStep
<1> QED
  BY <1>1, <1>2, <1>3 DEF Cf!upsertCFRulesetByPhase

LEMMA SSLKeeps ==
  ASSUME Cf!Inv, NEW r \in Req, Cf!SetCFSSLMode(r)
  PROVE  Cf!Inv'
<1>1. Cf!TypeOK /\ ssl \in BOOLEAN /\ setup[r].at # "idle" /\ setup[r].port \in Port \cup {Plain}
  BY SetupFacts DEF Cf!Inv, Cf!TypeOK, Cf!SetCFSSLMode
<1>2. ssl' \in BOOLEAN
  BY <1>1 DEF Cf!SetCFSSLMode
<1>3. ZoneGrows
  BY <1>1, <1>2, ZoneFacts, RestGrows DEF Cf!SetCFSSLMode
<1>4. CASE Cf!Error(r)
  BY <1>1, <1>3, <1>4, ErrorKeeps
<1>5. CASE setup[r].port = Plain /\ Cf!Applied(r, "header", "find")
  BY <1>1, <1>3, <1>5, AppliedKeeps DEF SetupAt, SetupStep
<1>6. CASE setup[r].port # Plain /\ Cf!Applied(r, "port", "find")
  BY <1>1, <1>3, <1>6, AppliedKeeps DEF SetupAt, SetupStep
<1> QED
  BY <1>4, <1>5, <1>6 DEF Cf!SetCFSSLMode

LEMMA EntrypointKeeps ==
  ASSUME Cf!Inv, NEW r \in Req, NEW kind \in {"port", "header"},
         Cf!getCFEntrypointRuleset(r, kind)
  PROVE  Cf!Inv'
<1>1. /\ Cf!TypeOK /\ setup[r].at = kind /\ setup \in [Req -> Cf!ReqType]
      /\ setup[r] \in Cf!ReqType
      /\ kind = "port" => setup[r].port \in Port
  BY SetupFacts DEF Cf!Inv, Cf!getCFEntrypointRuleset
<1>2. ZoneGrows /\ rules' = rules
  BY ZoneStays, <1>1, ZoneFacts DEF Cf!getCFEntrypointRuleset
<1>3. CASE Cf!Error(r)
  BY <1>1, <1>2, <1>3, ErrorKeeps
<1>4. CASE Cf!Goto(r, kind, "ruleset")
  BY <1>1, <1>2, <1>4, GotoKeeps DEF SetupAt, SetupStep
<1>5. CASE /\ "origin" \in rulesets
           /\ setup' = [setup EXCEPT ![r].step = "rule", ![r].seen = rules]
           /\ UNCHANGED setupAnswer
  <2> SUFFICES ASSUME NEW c, c = [setup[r] EXCEPT !.step = "rule", !.seen = rules]
               PROVE  Cf!Inv'
    OBVIOUS
  <2>1. /\ c \in Cf!ReqType /\ c.at = kind /\ c.step = "rule" /\ c.seen = rules
        /\ c.host = setup[r].host /\ c.origin = setup[r].origin /\ c.port = setup[r].port
    BY <1>1, ZoneFacts DEF Cf!ReqType
  <2>2. setup' = [setup EXCEPT ![r] = c] /\ setupAnswer' \in [Req -> Answers]
    BY <1>1, <1>5 DEF Cf!TypeOK, Answers
  <2>3. "origin" \in rulesets'
    BY <1>2, <1>5 DEF ZoneGrows
  <2> QED
    BY <1>1, <1>2, <2>1, <2>2, <2>3, SetupKeeps DEF Answers
<1> QED
  BY <1>3, <1>4, <1>5 DEF Cf!getCFEntrypointRuleset

\* The rule a request is about.
LEMMA RuleFacts ==
  ASSUME Cf!TypeOK, NEW r \in Req, NEW kind \in {"port", "header"}, setup[r].at = kind
  PROVE  /\ setup[r].host \in Domain
         /\ Cf!Ref(r, kind) \in Cf!PortRefs \cup Cf!HeaderRefs
         /\ Cf!Param(r, kind) \in Port \cup Origin
         /\ Cf!Ref(r, kind) \in Cf!HeaderRefs =>
              kind = "header" /\ Cf!Ref(r, kind) = Cf!HeaderRef(setup[r].host)
<1>1. setup[r].host \in Domain /\ setup[r].origin \in Origin
      /\ (kind = "port" => setup[r].port \in Port)
  BY SetupFacts
<1> QED
  BY <1>1 DEF Cf!Ref, Cf!Param, Cf!PortRefs, Cf!HeaderRefs, Cf!PortRef, Cf!HeaderRef

\* Where a rule that updateCFRule may write lies.
LEMMA FoundFacts ==
  ASSUME Cf!Inv, NEW r \in Req, setup[r].at # "idle", NEW ref,
         NEW i \in Cf!Indices(setup[r].seen, ref)
  PROVE  /\ i \in DOMAIN setup[r].seen /\ i \in DOMAIN rules
         /\ setup[r].seen[i].ref = ref /\ rules[i].ref = ref
<1>1. setup[r].seen \in Seq(Cf!RuleType) /\ rules \in Seq(Cf!RuleType)
  BY SetupFacts, ZoneFacts DEF Cf!Inv
<1>2. Fits(setup[r].seen, rules)
  BY DEF Cf!Inv, Cf!SeenIsThere, Cf!Active, Fits
<1>3. DOMAIN setup[r].seen \subseteq DOMAIN rules
  BY <1>1, <1>2, FitsDomain
<1> QED
  BY <1>2, <1>3 DEF Cf!Indices, Fits

\* A rule that is added, or written back with one more host, is its own host's.
LEMMA CreateRuleKeeps ==
  ASSUME Cf!Inv, NEW r \in Req, NEW kind \in {"port", "header"}, NEW to \in {"header", "done"},
         Cf!createCFRule(r, kind, to)
  PROVE  ZoneGrows /\ Cf!Inv'
<1>1. /\ Cf!TypeOK /\ ssl \in BOOLEAN /\ Cf!OwnHosts(rules)
      /\ setup[r].at = kind /\ setup[r].step = "rule"
      /\ "origin" \in rulesets
  BY DEF Cf!Inv, Cf!TypeOK, Cf!SeenIsThere, Cf!Active, Cf!createCFRule
<1>2. CASE UNCHANGED rules
  <2>1. ZoneGrows
    BY <1>1, <1>2, ZoneFacts, RestGrows DEF Cf!createCFRule
  <2> QED
    BY <1>1, <2>1, AppliedKeeps, ErrorKeeps DEF Cf!createCFRule, SetupAt, SetupStep
<1>3. ASSUME NEW n, n = [ref |-> Cf!Ref(r, kind), param |-> Cf!Param(r, kind),
                         hosts |-> {setup[r].host}],
             rules' = Append(rules, n), Cf!Applied(r, to, "find")
      PROVE  ZoneGrows /\ Cf!Inv'
  <2>1. /\ n \in Cf!RuleType
        /\ n.ref \in Cf!HeaderRefs => \A h \in n.hosts : n.ref = Cf!HeaderRef(h)
    <3>1. n.ref = Cf!Ref(r, kind) /\ n.hosts = {setup[r].host} /\ {setup[r].host} # {}
      BY <1>3
    <3>2. n \in Cf!RuleType
      <4>1. /\ Cf!Ref(r, kind) \in Cf!PortRefs \cup Cf!HeaderRefs
            /\ Cf!Param(r, kind) \in Port \cup Origin
            /\ {setup[r].host} \in (SUBSET Domain) \ {{}}
        BY <1>1, RuleFacts
      <4> QED
        BY <1>3, <4>1 DEF Cf!RuleType
    <3> QED
      BY <1>1, <3>1, <3>2, RuleFacts
  <2>2. /\ rules \in Seq(Cf!RuleType) /\ rules' \in Seq(Cf!RuleType)
        /\ Len(rules') = Len(rules) + 1 /\ Len(rules) \in Nat
        /\ DOMAIN rules = 1..Len(rules) /\ DOMAIN rules' = 1..(Len(rules) + 1)
        /\ \A i \in 1..Len(rules) : rules'[i] = rules[i]
        /\ rules'[Len(rules) + 1] = n
    BY <1>1, <1>3, <2>1, ZoneFacts
  <2>3. Fits(rules, rules')
    BY <2>2 DEF Fits
  <2>4. Cf!OwnHosts(rules')
    <3> SUFFICES ASSUME NEW i \in 1..(Len(rules) + 1), rules'[i].ref \in Cf!HeaderRefs,
                        NEW h \in rules'[i].hosts
                 PROVE  rules'[i].ref = Cf!HeaderRef(h)
      BY <2>2 DEF Cf!OwnHosts
    <3>1. CASE i \in 1..Len(rules)
      BY <1>1, <2>2, <3>1 DEF Cf!OwnHosts
    <3>2. CASE i = Len(rules) + 1
      BY <2>1, <2>2, <3>2
    <3> QED
      BY <2>2, <3>1, <3>2
  <2>5. ZoneGrows
    BY <1>1, <2>2, <2>3, <2>4, ZoneFacts DEF ZoneGrows, Cf!createCFRule, Cf!Rest
  <2> QED
    BY <1>1, <1>3, <2>5, AppliedKeeps DEF SetupAt, SetupStep
<1> QED
  BY <1>2, <1>3 DEF Cf!createCFRule

LEMMA UpdateRuleKeeps ==
  ASSUME Cf!Inv, NEW r \in Req, NEW kind \in {"port", "header"}, NEW to \in {"header", "done"},
         Cf!updateCFRule(r, kind, to)
  PROVE  ZoneGrows /\ Cf!Inv'
<1>1. /\ Cf!TypeOK /\ ssl \in BOOLEAN /\ Cf!OwnHosts(rules) /\ Cf!OwnHosts(setup[r].seen)
      /\ setup[r].at = kind /\ setup[r].step = "rule"
      /\ "origin" \in rulesets /\ setup[r].seen \in Seq(Cf!RuleType)
  BY SetupFacts DEF Cf!Inv, Cf!TypeOK, Cf!SeenIsThere, Cf!Active, Cf!updateCFRule
<1>2. CASE UNCHANGED rules
  <2>1. ZoneGrows
    BY <1>1, <1>2, ZoneFacts, RestGrows DEF Cf!updateCFRule
  <2> QED
    BY <1>1, <2>1, AppliedKeeps, ErrorKeeps DEF Cf!updateCFRule, SetupAt, SetupStep
<1>3. ASSUME NEW i, i \in DOMAIN setup[r].seen, i \in DOMAIN rules,
             setup[r].seen[i].ref = Cf!Ref(r, kind), rules[i].ref = Cf!Ref(r, kind),
             rules' = [rules EXCEPT ![i].param = Cf!Param(r, kind),
                         ![i].hosts = Cf!appendHostToExpression(setup[r].seen[i].hosts,
                                                                setup[r].host)],
             Cf!Applied(r, to, "find")
      PROVE  ZoneGrows /\ Cf!Inv'
  <2> SUFFICES ASSUME NEW p, NEW hs, NEW g, p = Cf!Param(r, kind), g = setup[r].host,
                      hs = setup[r].seen[i].hosts \cup {g}
               PROVE  ZoneGrows /\ Cf!Inv'
    OBVIOUS
  <2>1. rules' = [rules EXCEPT ![i] = [rules[i] EXCEPT !.param = p, !.hosts = hs]]
    BY <1>1, <1>3, ZoneFacts DEF Cf!appendHostToExpression, Cf!RuleType
  <2>2. /\ rules[i] \in Cf!RuleType /\ setup[r].seen[i] \in Cf!RuleType
        /\ p \in Port \cup Origin /\ g \in Domain
        /\ hs \in (SUBSET Domain) \ {{}}
    <3>1. rules[i] \in Cf!RuleType /\ setup[r].seen[i] \in Cf!RuleType
      BY <1>1, <1>3, ZoneFacts
    <3>2. setup[r].seen[i].hosts \in SUBSET Domain
      BY <3>1 DEF Cf!RuleType
    <3>3. p \in Port \cup Origin /\ g \in Domain
      BY <1>1, RuleFacts
    <3>4. hs \subseteq Domain /\ hs # {}
      BY <3>2, <3>3
    <3> QED
      BY <3>1, <3>3, <3>4
  <2>3. [rules[i] EXCEPT !.param = p, !.hosts = hs] \in Cf!RuleType
    BY <2>2 DEF Cf!RuleType
  <2>4. /\ rules \in Seq(Cf!RuleType) /\ rules' \in Seq(Cf!RuleType)
        /\ Len(rules') = Len(rules) /\ DOMAIN rules' = DOMAIN rules
        /\ \A j \in DOMAIN rules : j # i => rules'[j] = rules[j]
        /\ rules'[i].ref = rules[i].ref /\ rules'[i].hosts = hs
    <3>1. rules \in Seq(Cf!RuleType) /\ i \in 1..Len(rules)
      BY <1>1, <1>3, ZoneFacts
    <3>2. rules' \in Seq(Cf!RuleType) /\ Len(rules') = Len(rules)
      BY <2>1, <2>3, <3>1
    <3>3. rules'[i] = [rules[i] EXCEPT !.param = p, !.hosts = hs]
      BY <1>3, <2>1
    <3>4. rules'[i].ref = rules[i].ref /\ rules'[i].hosts = hs
      BY <2>2, <3>3 DEF Cf!RuleType
    <3> QED
      BY <2>1, <3>1, <3>2, <3>4
  <2>5. Fits(rules, rules')
    BY <2>4, Positions DEF Fits
  <2>6. Cf!OwnHosts(rules')
    <3> SUFFICES ASSUME NEW j \in DOMAIN rules, rules'[j].ref \in Cf!HeaderRefs,
                        NEW h \in rules'[j].hosts
                 PROVE  rules'[j].ref = Cf!HeaderRef(h)
      BY <2>4 DEF Cf!OwnHosts
    <3>1. CASE j # i
      BY <1>1, <2>4, <3>1 DEF Cf!OwnHosts
    <3>2. CASE j = i /\ h \in setup[r].seen[i].hosts
      BY <1>1, <1>3, <2>4, <3>2 DEF Cf!OwnHosts
    <3>3. CASE j = i /\ h = g
      BY <1>1, <1>3, <2>4, <3>3, RuleFacts
    <3> QED
      BY <2>4, <3>1, <3>2, <3>3
  <2>7. rules' # <<>> => "origin" \in rulesets'
    BY <1>1 DEF Cf!updateCFRule
  <2>8. ZoneGrows
    BY <1>1, <2>4, <2>5, <2>6, <2>7, ZoneFacts DEF ZoneGrows, Cf!updateCFRule, Cf!Rest
  <2> QED
    BY <1>1, <1>3, <2>8, AppliedKeeps DEF SetupAt, SetupStep
<1> QED
  <2>1. CASE Cf!Error(r) /\ UNCHANGED rules
    BY <1>2, <2>1
  <2>2. CASE ~(Cf!Error(r) /\ UNCHANGED rules)
    <3>1. PICK i \in Cf!Indices(setup[r].seen, Cf!Ref(r, kind)) :
            /\ rules' = [rules EXCEPT ![i].param = Cf!Param(r, kind),
                           ![i].hosts = Cf!appendHostToExpression(setup[r].seen[i].hosts,
                                                                  setup[r].host)]
            /\ Cf!Applied(r, to, "find")
      BY <2>2 DEF Cf!updateCFRule
    <3> QED
      BY <1>1, <1>3, <3>1, FoundFacts
  <2> QED
    BY <2>1, <2>2

LEMMA OriginRuleKeeps ==
  ASSUME Cf!Inv, NEW r \in Req, NEW kind \in {"port", "header"}, NEW to \in {"header", "done"},
         Cf!upsertCFOriginRule(r, kind, to)
  PROVE  Cf!Inv'
<1>1. CASE Cf!createCFOriginEntrypointRuleset(r, kind)
  <2>1. setup[r].at = kind /\ Cf!createCFRuleset(r, "origin", kind, "rule")
    BY <1>1 DEF Cf!createCFOriginEntrypointRuleset
  <2>2. kind = "port" => setup[r].port \in Port
    BY <2>1, SetupFacts DEF Cf!Inv
  <2> QED
    BY <2>1, <2>2, CreateRulesetKeeps DEF SetupAt, SetupStep
<1> QED
  BY <1>1, EntrypointKeeps, CreateRuleKeeps, UpdateRuleKeeps DEF Cf!upsertCFOriginRule

LEMMA PostKeeps ==
  ASSUME Cf!Inv, NEW r \in Req, NEW h \in Domain, NEW o \in Origin, NEW p \in Port \cup {Plain},
         Cf!PostServerDomain(r, h, o, p)
  PROVE  Cf!Inv'
<1>1. Cf!TypeOK /\ Cf!OwnHosts(rules) /\ Cf!SeenIsThere /\ UNCHANGED Cf!zone
  BY DEF Cf!Inv, Cf!PostServerDomain
<1> SUFFICES ASSUME NEW c, c = [Cf!Idle EXCEPT !.at = "record", !.host = h, !.origin = o, !.port = p]
             PROVE  Cf!Inv'
  OBVIOUS
<1>2. /\ c \in Cf!ReqType /\ c.at = "record" /\ c.step = "find" /\ c.seen = <<>>
      /\ c.host = h /\ c.origin = o /\ c.port = p
  <2>1. <<>> \in Seq(Cf!RuleType) /\ FALSE \in BOOLEAN
    OBVIOUS
  <2> QED
    BY <2>1 DEF Cf!Idle, Cf!ReqType
<1>3. setup' \in [Req -> Cf!ReqType] /\ \A q \in Req : setup'[q] = IF q = r THEN c ELSE setup[q]
  BY <1>1, <1>2, SetupFacts DEF Cf!PostServerDomain
<1>4. Cf!TypeOK'
  <2>1. \A q \in Req : IF setup'[q].at = "idle" THEN setup'[q] = Cf!Idle
                       ELSE /\ setup'[q].host \in Domain /\ setup'[q].origin \in Origin
                            /\ setup'[q].port \in Port \cup {Plain}
                            /\ setup'[q].at = "port" => setup'[q].port \in Port
    BY <1>1, <1>2, <1>3, SetupFacts
  <2>2. started' \in 0..MaxRequests
    <3>1. started < MaxRequests /\ started' = started + 1
      BY DEF Cf!PostServerDomain
    <3>2. started \in 0..MaxRequests
      BY <1>1 DEF Cf!TypeOK
    <3>3. MaxRequests \in Nat
      BY SupplyAssumption DEF Cf!RulesAssumption
    <3> QED
      BY <3>1, <3>2, <3>3
  <2>3. asked' \in [Domain -> SUBSET (Port \cup {Plain})] /\ setupOverlapped' \subseteq Req
    BY <1>1 DEF Cf!PostServerDomain, Cf!TypeOK, Cf!Active
  <2>4. setupAnswer' = setupAnswer /\ ssl' = ssl
    BY <1>1 DEF Cf!PostServerDomain, Cf!zone
  <2> QED
    BY <1>1, <1>3, <2>1, <2>2, <2>3, <2>4, ZoneFacts DEF Cf!TypeOK
<1>5. rules' = rules /\ rulesets' = rulesets
  BY <1>1, ZoneFacts
<1>6. setup[r].at = "idle" /\ Cf!Active' = Cf!Active \cup {r}
  BY <1>2, <1>3 DEF Cf!PostServerDomain, Cf!Active
<1>7. Cf!SeenIsThere'
  <2>1. ASSUME NEW q \in Req, setup'[q].at # "idle", q \notin setupOverlapped'
        PROVE  q = r /\ Cf!Active' = {q}
    <3>1. Cf!Active = {}
      <4> SUFFICES ASSUME Cf!Active # {} PROVE FALSE
        OBVIOUS
      <4>1. setupOverlapped' = setupOverlapped \cup Cf!Active \cup {r}
        BY DEF Cf!PostServerDomain
      <4> QED
        BY <1>6, <2>1, <4>1 DEF Cf!Active
    <3> QED
      BY <1>6, <2>1, <3>1 DEF Cf!Active
  <2>2. ASSUME NEW q \in Req, setup'[q].at # "idle"
        PROVE  /\ Cf!OwnHosts(setup'[q].seen) /\ Fits(setup'[q].seen, rules')
               /\ setup'[q].step = "rule" => "origin" \in rulesets'
               /\ q \notin setupOverlapped' =>
                    Cf!Active' = {q} /\ (setup'[q].step = "rule" => setup'[q].seen = rules')
    <3>1. CASE q = r
      <4>1. rules' \in Seq(Cf!RuleType)
        BY <1>1, <1>5, ZoneFacts
      <4> QED
        BY <1>2, <1>3, <2>1, <2>2, <3>1, <4>1, NothingRead
    <3>2. CASE q # r
      <4>1. setup'[q] = setup[q] /\ q \in setupOverlapped'
        BY <1>3, <2>1, <2>2, <3>2
      <4>2. /\ Cf!OwnHosts(setup[q].seen) /\ Fits(setup[q].seen, rules)
            /\ setup[q].step = "rule" => "origin" \in rulesets
        BY <1>1, <2>2, <4>1 DEF Cf!SeenIsThere, Cf!Active, Fits
      <4> QED
        BY <1>5, <4>1, <4>2
    <3> QED
      BY <3>1, <3>2
  <2> QED
    BY <2>2 DEF Cf!SeenIsThere, Cf!Active, Cf!OwnHosts, Fits
<1> QED
  BY <1>1, <1>4, <1>5, <1>7 DEF Cf!Inv

LEMMA SetupInit == Cf!Init => Cf!Inv
<1> SUFFICES ASSUME Cf!Init PROVE Cf!Inv
  OBVIOUS
<1>1. rules = <<>> /\ <<>> \in Seq(Cf!RuleType)
  BY DEF Cf!Init
<1>2. setup \in [Req -> Cf!ReqType] /\ \A r \in Req : setup[r] = Cf!Idle /\ setup[r].at = "idle"
  BY IdleSetup DEF Cf!Init
<1>3. Cf!TypeOK
  <2>1. 0 \in 0..MaxRequests
    BY SupplyAssumption DEF Cf!RulesAssumption
  <2>2. ssl \in BOOLEAN /\ record \in [Domain -> Origin \cup {None}]
    BY DEF Cf!Init
  <2>3. /\ setupAnswer \in [Req -> Answers]
        /\ asked \in [Domain -> SUBSET (Port \cup {Plain})]
    BY DEF Cf!Init, Answers
  <2> QED
    BY <1>1, <1>2, <2>1, <2>2, <2>3 DEF Cf!Init, Cf!TypeOK, Answers
<1>4. Cf!OwnHosts(rules) /\ Cf!SeenIsThere
  BY <1>1, <1>2, NothingRead DEF Cf!SeenIsThere, Cf!Active
<1> QED
  BY <1>3, <1>4 DEF Cf!Inv

\* Every step is one of these.
LEMMA SetupSteps ==
  ASSUME Cf!Next
  PROVE  \E r \in Req :
           \/ \E h \in Domain, o \in Origin, p \in Port \cup {Plain} :
                Cf!PostServerDomain(r, h, o, p)
           \/ Cf!DnsUpsertRecord(r) \/ Cf!SetCFSSLMode(r)
           \/ Cf!upsertCFRulesetByPhase(r, "cache", "rate")
           \/ Cf!upsertCFRulesetByPhase(r, "rate", "ssl")
           \/ Cf!upsertCFOriginRule(r, "port", "header")
           \/ Cf!upsertCFOriginRule(r, "header", "done")
  BY DEF Cf!Next, Cf!SetCFCacheRule, Cf!SetCFRateLimitRule, Cf!SetCFOriginPortForSubdomain,
         Cf!SetCFOriginHostHeaderForSubdomain

\* Rules are shared only by hosts of one ref, and what a request has read of them is
\* there, however many requests are under way and whichever of their calls fail.
THEOREM RulesAreShared == Cf!Spec => []Cf!Inv
<1>1. Cf!Inv /\ [Cf!Next]_(Cf!vars) => Cf!Inv'
  <2>1. CASE Cf!Next
    BY <2>1, SetupSteps, PostKeeps, RecordKeeps, SSLKeeps, RulesetKeeps, OriginRuleKeeps
  <2>2. CASE UNCHANGED Cf!vars
    <3>1. UNCHANGED <<record, rulesets, rules, ssl, setup, setupAnswer, started, asked,
                      setupOverlapped>>
      BY <2>2 DEF Cf!vars, Cf!zone
    <3>2. Cf!TypeOK => Cf!TypeOK'
      BY <3>1 DEF Cf!TypeOK
    <3>3. Cf!SeenIsThere => Cf!SeenIsThere'
      BY <3>1 DEF Cf!OwnHosts, Cf!SeenIsThere, Cf!Active
    <3> QED
      BY <3>1, <3>2, <3>3 DEF Cf!Inv, Cf!OwnHosts
  <2> QED
    BY <2>1, <2>2
<1> QED
  BY <1>1, SetupInit, PTL DEF Cf!Spec

(***************************************************************************)
(* What a step may not do to a rule of another's host.                     *)
(***************************************************************************)
LEMMA RuleSteps ==
  ASSUME Cf!Next, rules' # rules
  PROVE  \E r \in Req, kind \in {"port", "header"}, to \in {"header", "done"} :
           to # kind /\ (Cf!createCFRule(r, kind, to) \/ Cf!updateCFRule(r, kind, to))
<1>1. ASSUME NEW r \in Req, NEW h, NEW o, NEW p PROVE ~Cf!PostServerDomain(r, h, o, p)
  BY DEF Cf!PostServerDomain, Cf!zone
<1>2. ASSUME NEW r \in Req PROVE ~Cf!DnsUpsertRecord(r) /\ ~Cf!SetCFSSLMode(r)
  BY DEF Cf!DnsUpsertRecord, Cf!SetCFSSLMode
<1>3. ASSUME NEW r \in Req, NEW phase, NEW to PROVE ~Cf!upsertCFRulesetByPhase(r, phase, to)
  BY DEF Cf!upsertCFRulesetByPhase, Cf!findCFRulesetByPhase, Cf!createCFRuleset,
         Cf!updateCFRuleset, Cf!zone
<1>4. ASSUME NEW r \in Req, NEW kind, NEW to, Cf!upsertCFOriginRule(r, kind, to)
      PROVE  Cf!createCFRule(r, kind, to) \/ Cf!updateCFRule(r, kind, to)
  BY <1>4 DEF Cf!upsertCFOriginRule, Cf!getCFEntrypointRuleset,
              Cf!createCFOriginEntrypointRuleset, Cf!createCFRuleset, Cf!zone
<1> QED
  BY <1>1, <1>2, <1>3, <1>4, SetupSteps

\* The request that writes a rule goes on.
LEMMA WriterGoesOn ==
  ASSUME Cf!TypeOK, NEW r \in Req, NEW kind \in {"port", "header"},
         NEW to \in {"header", "done"}, to # kind,
         Cf!createCFRule(r, kind, to) \/ Cf!updateCFRule(r, kind, to)
  PROVE  setup[r].at = kind /\ setup'[r] # setup[r]
<1>1. setup[r].at = kind /\ setup \in [Req -> Cf!ReqType] /\ setup[r] \in Cf!ReqType
  BY SetupFacts DEF Cf!createCFRule, Cf!updateCFRule
<1>2. Cf!Applied(r, to, "find") \/ Cf!Error(r)
  BY DEF Cf!createCFRule, Cf!updateCFRule
<1>3. setup' = [setup EXCEPT ![r] = Cf!Idle] \/ Cf!Goto(r, to, "find")
  BY <1>2 DEF Cf!Applied, Cf!Error, Cf!Return
<1>4. CASE setup' = [setup EXCEPT ![r] = Cf!Idle]
  BY <1>1, <1>4, IdleSetup
<1>5. CASE Cf!Goto(r, to, "find")
  <2>1. setup'[r].at = to
    BY <1>1, <1>5 DEF Cf!Goto, Cf!ReqType
  <2> QED
    BY <1>1, <2>1
<1> QED
  BY <1>1, <1>3, <1>4, <1>5

\* What a rule written by r is, unless the call failed: one at the end, or one with
\* r's ref and a host more.
LEMMA CreatedRule ==
  ASSUME Cf!TypeOK, NEW r \in Req, NEW kind, NEW to, Cf!createCFRule(r, kind, to)
  PROVE  \/ Cf!Error(r) /\ UNCHANGED rules
         \/ /\ Cf!Applied(r, to, "find")
            /\ DOMAIN rules = 1..Len(rules) /\ DOMAIN rules' = 1..(Len(rules) + 1)
            /\ Len(rules) \in Nat
            /\ \A i \in DOMAIN rules : rules'[i] = rules[i]
            /\ rules'[Len(rules) + 1].ref = Cf!Ref(r, kind)
            /\ rules'[Len(rules) + 1].hosts = {setup[r].host}
            /\ rules'[Len(rules) + 1].param = Cf!Param(r, kind)
<1> SUFFICES ASSUME NEW n, n = [ref |-> Cf!Ref(r, kind), param |-> Cf!Param(r, kind),
                                hosts |-> {setup[r].host}],
                    rules' = Append(rules, n)
             PROVE  /\ DOMAIN rules = 1..Len(rules) /\ DOMAIN rules' = 1..(Len(rules) + 1)
                    /\ Len(rules) \in Nat
                    /\ \A i \in DOMAIN rules : rules'[i] = rules[i]
                    /\ rules'[Len(rules) + 1].ref = Cf!Ref(r, kind)
                    /\ rules'[Len(rules) + 1].hosts = {setup[r].host}
                    /\ rules'[Len(rules) + 1].param = Cf!Param(r, kind)
  BY DEF Cf!createCFRule
<1>1. rules \in Seq(Cf!RuleType)
  BY ZoneFacts
<1>2. n.ref = Cf!Ref(r, kind) /\ n.hosts = {setup[r].host} /\ n.param = Cf!Param(r, kind)
  OBVIOUS
<1> QED
  BY <1>1, <1>2

LEMMA UpdatedRule ==
  ASSUME Cf!Inv, NEW r \in Req, NEW kind, kind # "idle", NEW to, Cf!updateCFRule(r, kind, to)
  PROVE  \/ Cf!Error(r) /\ UNCHANGED rules
         \/ /\ Cf!Applied(r, to, "find")
            /\ \E i \in DOMAIN rules :
                 /\ i \in DOMAIN setup[r].seen
                 /\ rules[i].ref = Cf!Ref(r, kind) /\ setup[r].seen[i].ref = Cf!Ref(r, kind)
                 /\ DOMAIN rules' = DOMAIN rules
                 /\ \A j \in DOMAIN rules : j # i => rules'[j] = rules[j]
                 /\ rules'[i].ref = rules[i].ref
                 /\ rules'[i].hosts = setup[r].seen[i].hosts \cup {setup[r].host}
                 /\ rules'[i].param = Cf!Param(r, kind)
<1> SUFFICES ASSUME ~(Cf!Error(r) /\ UNCHANGED rules)
             PROVE  /\ Cf!Applied(r, to, "find")
                    /\ \E i \in DOMAIN rules :
                         /\ i \in DOMAIN setup[r].seen
                         /\ rules[i].ref = Cf!Ref(r, kind)
                         /\ setup[r].seen[i].ref = Cf!Ref(r, kind)
                         /\ DOMAIN rules' = DOMAIN rules
                         /\ \A j \in DOMAIN rules : j # i => rules'[j] = rules[j]
                         /\ rules'[i].ref = rules[i].ref
                         /\ rules'[i].hosts = setup[r].seen[i].hosts \cup {setup[r].host}
                         /\ rules'[i].param = Cf!Param(r, kind)
  OBVIOUS
<1>1. Cf!TypeOK /\ setup[r].at = kind
  BY DEF Cf!Inv, Cf!updateCFRule
<1>2. PICK i \in Cf!Indices(setup[r].seen, Cf!Ref(r, kind)) :
        /\ rules' = [rules EXCEPT ![i].param = Cf!Param(r, kind),
                       ![i].hosts = setup[r].seen[i].hosts \cup {setup[r].host}]
        /\ Cf!Applied(r, to, "find")
  BY DEF Cf!updateCFRule, Cf!appendHostToExpression
<1>3. /\ i \in DOMAIN setup[r].seen /\ i \in DOMAIN rules
      /\ setup[r].seen[i].ref = Cf!Ref(r, kind) /\ rules[i].ref = Cf!Ref(r, kind)
  BY <1>1, <1>2, FoundFacts
<1>4. rules \in Seq(Cf!RuleType) /\ rules[i] \in Cf!RuleType
  BY <1>1, <1>3, ZoneFacts
<1>5. DOMAIN rules' = DOMAIN rules /\ \A j \in DOMAIN rules : j # i => rules'[j] = rules[j]
  BY <1>2, <1>4
<1>6. /\ rules'[i].ref = rules[i].ref
      /\ rules'[i].hosts = setup[r].seen[i].hosts \cup {setup[r].host}
      /\ rules'[i].param = Cf!Param(r, kind)
  BY <1>2, <1>3, <1>4 DEF Cf!RuleType
<1> QED
  BY <1>2, <1>3, <1>5, <1>6

\* A request that is alone has read all the rules.
LEMMA AloneHasRead ==
  ASSUME Cf!Inv, NEW r \in Req, setup[r].at # "idle", setup[r].step = "rule",
         r \notin setupOverlapped
  PROVE  setup[r].seen = rules
  BY DEF Cf!Inv, Cf!SeenIsThere, Cf!Active

LEMMA OneRuleStep ==
  ASSUME Cf!Inv, Cf!Next, NEW i \in DOMAIN rules', NEW j \in DOMAIN rules', i < j,
         rules'[i].ref = rules'[j].ref, j \notin DOMAIN rules
  PROVE  \E r \in setupOverlapped : setup'[r] # setup[r]
<1>1. Cf!TypeOK /\ rules' # rules
  BY DEF Cf!Inv
<1>2. PICK r \in Req, kind \in {"port", "header"}, to \in {"header", "done"} :
        to # kind /\ (Cf!createCFRule(r, kind, to) \/ Cf!updateCFRule(r, kind, to))
  BY <1>1, RuleSteps
<1>3. setup[r].at = kind /\ setup'[r] # setup[r]
  BY <1>1, <1>2, WriterGoesOn
<1>4. Cf!createCFRule(r, kind, to)
  BY <1>1, <1>2, UpdatedRule
<1>5. /\ DOMAIN rules = 1..Len(rules) /\ DOMAIN rules' = 1..(Len(rules) + 1)
      /\ Len(rules) \in Nat
      /\ \A k \in DOMAIN rules : rules'[k] = rules[k]
      /\ rules'[Len(rules) + 1].ref = Cf!Ref(r, kind)
  BY <1>1, <1>4, CreatedRule
<1>6. i \in DOMAIN rules /\ rules[i].ref = Cf!Ref(r, kind)
  <2>1. j = Len(rules) + 1 /\ i \in 1..Len(rules)
    BY <1>5
  <2> QED
    BY <1>5, <2>1
<1>7. setup[r].seen # rules
  BY <1>4, <1>6 DEF Cf!createCFRule, Cf!Indices
<1>8. setup[r].step = "rule"
  BY <1>4 DEF Cf!createCFRule
<1> QED
  BY <1>3, <1>7, <1>8, AloneHasRead

LEMMA HostsStep ==
  ASSUME Cf!Inv, Cf!Next, NEW i \in DOMAIN rules, ~(rules[i].hosts \subseteq rules'[i].hosts)
  PROVE  \E r \in setupOverlapped : setup'[r] # setup[r]
<1>1. Cf!TypeOK /\ rules' # rules
  BY DEF Cf!Inv
<1>2. PICK r \in Req, kind \in {"port", "header"}, to \in {"header", "done"} :
        to # kind /\ (Cf!createCFRule(r, kind, to) \/ Cf!updateCFRule(r, kind, to))
  BY <1>1, RuleSteps
<1>3. setup[r].at = kind /\ setup'[r] # setup[r]
  BY <1>1, <1>2, WriterGoesOn
<1>4. Cf!updateCFRule(r, kind, to)
  BY <1>1, <1>2, CreatedRule
<1>5. setup[r].step = "rule"
  BY <1>4 DEF Cf!updateCFRule
<1>6. PICK k \in DOMAIN rules :
        /\ \A j \in DOMAIN rules : j # k => rules'[j] = rules[j]
        /\ rules'[k].hosts = setup[r].seen[k].hosts \cup {setup[r].host}
  BY <1>1, <1>4, UpdatedRule
<1>7. i = k /\ setup[r].seen # rules
  BY <1>6
<1> QED
  BY <1>3, <1>5, <1>7, AloneHasRead

Header == "set_origin_host_header"
Shown(h) == {i \in DOMAIN rules : rules[i].ref[1] = Header /\ h \in rules[i].hosts}

LEMMA SameSetting ==
  ASSUME NEW h, Shown(h)' = Shown(h), \A i \in Shown(h) : rules'[i].param = rules[i].param
  PROVE  Cf!Setting("set_origin_host_header", h)' = Cf!Setting("set_origin_host_header", h)
<1> SUFFICES ASSUME NEW S, S = Shown(h)
             PROVE  Cf!Setting("set_origin_host_header", h)'
                      = Cf!Setting("set_origin_host_header", h)
  OBVIOUS
<1>1. Cf!Setting("set_origin_host_header", h)
        = {rules[i].param : i \in {i \in S : \A j \in S : j <= i}}
  BY DEF Cf!Setting, Shown, Header
<1>2. Cf!Setting("set_origin_host_header", h)'
        = {rules'[i].param : i \in {i \in S : \A j \in S : j <= i}}
  BY DEF Cf!Setting, Shown, Header
<1> QED
  BY <1>1, <1>2

\* The refs of two hosts agree only if their names are alike.
LEMMA HeaderRefs ==
  ASSUME NEW g \in Domain, NEW h \in Domain, Cf!HeaderRef(g) = Cf!HeaderRef(h)
  PROVE  g = h \/ {h, g} \subseteq Alike
  BY SupplyAssumption DEF Cf!HeaderRef, Cf!RulesAssumption

LEMMA RefKinds ==
  ASSUME NEW ref \in Cf!PortRefs \cup Cf!HeaderRefs, ref[1] = Header
  PROVE  ref \in Cf!HeaderRefs
  BY DEF Cf!PortRefs, Cf!PortRef, Header

LEMMA HeadersStep ==
  ASSUME Cf!Inv, Cf!Next, NEW h \in Domain,
         Cf!Setting("set_origin_host_header", h)' # Cf!Setting("set_origin_host_header", h)
  PROVE  \E r \in Req : /\ setup'[r] # setup[r]
                        /\ setup[r].host = h \/ {h, setup[r].host} \subseteq Alike
<1>1. /\ Cf!TypeOK /\ Cf!OwnHosts(rules) /\ rules \in Seq(Cf!RuleType)
      /\ Shown(h) \subseteq DOMAIN rules
  BY ZoneFacts DEF Cf!Inv, Shown
<1>2. rules' # rules
  <2> SUFFICES ASSUME rules' = rules PROVE FALSE
    OBVIOUS
  <2>1. Shown(h)' = Shown(h)
    BY DEF Shown
  <2> QED
    BY <2>1, SameSetting
<1>3. PICK r \in Req, kind \in {"port", "header"}, to \in {"header", "done"} :
        to # kind /\ (Cf!createCFRule(r, kind, to) \/ Cf!updateCFRule(r, kind, to))
  BY <1>2, RuleSteps
<1>4. setup[r].at = kind /\ setup'[r] # setup[r]
  BY <1>1, <1>3, WriterGoesOn
<1> SUFFICES ASSUME setup[r].host # h, ~({h, setup[r].host} \subseteq Alike)
             PROVE  FALSE
  BY <1>4
<1>5. ASSUME Cf!Ref(r, kind)[1] = Header
      PROVE  Cf!Ref(r, kind) # Cf!HeaderRef(h) /\ Cf!Ref(r, kind) \in Cf!HeaderRefs
  <2>1. Cf!Ref(r, kind) \in Cf!HeaderRefs
    BY <1>1, <1>4, <1>5, RuleFacts, RefKinds
  <2>2. setup[r].host \in Domain /\ Cf!Ref(r, kind) = Cf!HeaderRef(setup[r].host)
    BY <1>1, <1>4, <2>1, RuleFacts
  <2> QED
    BY <2>1, <2>2, HeaderRefs
<1>6. CASE Cf!createCFRule(r, kind, to)
  <2>1. /\ DOMAIN rules = 1..Len(rules) /\ DOMAIN rules' = 1..(Len(rules) + 1)
        /\ Len(rules) \in Nat
        /\ \A i \in DOMAIN rules : rules'[i] = rules[i]
        /\ rules'[Len(rules) + 1].hosts = {setup[r].host}
    BY <1>1, <1>2, <1>6, CreatedRule
  <2>2. DOMAIN rules' = DOMAIN rules \cup {Len(rules) + 1} /\ h \notin rules'[Len(rules) + 1].hosts
    BY <2>1
  <2>3. Shown(h)' = Shown(h)
    BY <2>1, <2>2 DEF Shown
  <2> QED
    BY <1>1, <2>1, <2>3, SameSetting
<1>7. CASE Cf!updateCFRule(r, kind, to)
  <2>1. PICK i \in DOMAIN rules :
          /\ i \in DOMAIN setup[r].seen
          /\ rules[i].ref = Cf!Ref(r, kind) /\ setup[r].seen[i].ref = Cf!Ref(r, kind)
          /\ DOMAIN rules' = DOMAIN rules
          /\ \A j \in DOMAIN rules : j # i => rules'[j] = rules[j]
          /\ rules'[i].ref = rules[i].ref
          /\ rules'[i].hosts = setup[r].seen[i].hosts \cup {setup[r].host}
          /\ rules'[i].param = Cf!Param(r, kind)
    <3>1. kind # "idle" /\ ~(Cf!Error(r) /\ UNCHANGED rules)
      BY <1>2
    <3> QED
      BY <1>7, <3>1, UpdatedRule
  <2>2. Cf!OwnHosts(setup[r].seen)
    BY <1>4 DEF Cf!Inv, Cf!SeenIsThere, Cf!Active
  <2>3. rules[i].ref[1] = Header => h \notin rules[i].hosts /\ h \notin rules'[i].hosts
    BY <1>1, <1>5, <2>1, <2>2 DEF Cf!OwnHosts
  <2>4. i \notin Shown(h) /\ i \notin Shown(h)'
    BY <2>1, <2>3 DEF Shown
  <2>5. Shown(h)' = Shown(h)
    BY <2>1, <2>4 DEF Shown
  <2> QED
    BY <1>1, <2>1, <2>4, <2>5, SameSetting
<1> QED
  BY <1>3, <1>6, <1>7

\* What was set up for one host stays: a rule gets a double, or loses a host, only
\* when requests overlap, and a host's header changes only by requests for its ref.
THEOREM SettingsStay == Cf!Spec => RulesStay
<1>1. Cf!Inv /\ [Cf!Next]_(Cf!vars) =>
        [\A i, j \in DOMAIN rules' :
           i < j /\ rules'[i].ref = rules'[j].ref /\ j \notin DOMAIN rules
           => \E r \in setupOverlapped : setup'[r] # setup[r]]_(Cf!vars)
  BY OneRuleStep
<1>2. Cf!Inv /\ [Cf!Next]_(Cf!vars) =>
        [\A i \in DOMAIN rules :
           ~(rules[i].hosts \subseteq rules'[i].hosts)
           => \E r \in setupOverlapped : setup'[r] # setup[r]]_(Cf!vars)
  BY HostsStep
<1>3. Cf!Inv /\ [Cf!Next]_(Cf!vars) =>
        [\A h \in Domain :
           Cf!Setting("set_origin_host_header", h)' # Cf!Setting("set_origin_host_header", h)
           => \E r \in Req : /\ setup'[r] # setup[r]
                             /\ setup[r].host = h \/ {h, setup[r].host} \subseteq Alike]_(Cf!vars)
  BY HeadersStep
<1> QED
  BY <1>1, <1>2, <1>3, RulesAreShared, PTL
     DEF Cf!Spec, RulesStay, Cf!RulesStay, Cf!OneRulePerRef, Cf!HostsStay, Cf!HeadersAreOwn

(***************************************************************************)
(* What a request that succeeds alone has done.                            *)
(***************************************************************************)

\* Some positions of a sequence have a last one: of the sets of later positions
\* one is smallest.
LEMMA LastOf ==
  ASSUME NEW n \in Nat, NEW I \in SUBSET (1..n), I # {}
  PROVE  \E i \in I : \A j \in I : j <= i
<1> DEFINE F == FiniteSubsetsOf(1..n)
           Less == StrictSubsetOrdering(1..n)
           Later(i) == (i+1)..n
           Tails == {Later(i) : i \in I}
<1>1. Tails \subseteq F /\ Tails # {}
  <2>1. ASSUME NEW i \in I PROVE Later(i) \in F
    <3>1. Later(i) \subseteq 1..n /\ IsFiniteSet(1..n)
      BY FS_Interval
    <3>2. IsFiniteSet(Later(i))
      BY <3>1, FS_Subset
    <3> QED
      BY <3>1, <3>2 DEF FiniteSubsetsOf
  <2> QED
    BY <2>1
<1>2. IsWellFoundedOn(Less, F)
  BY FS_StrictSubsetOrderingWellFounded, Zenon
<1>3. PICK x \in Tails : \A y \in Tails : <<y, x>> \notin Less
  <2> HIDE DEF Tails, F, Less
  <2> QED
    BY <1>1, <1>2, WFMin, Zenon
<1>4. PICK i \in I : x = Later(i)
  OBVIOUS
<1>5. ASSUME NEW j \in I, ~(j <= i) PROVE FALSE
  <2>1. Later(j) \subseteq Later(i) /\ j \in Later(i) /\ j \notin Later(j)
    BY <1>5
  <2>2. <<Later(j), Later(i)>> \in Less
    BY <2>1 DEF StrictSubsetOrdering
  <2> QED
    BY <1>3, <1>4, <2>2
<1> QED
  BY <1>5


SetupsInv == Cf!Inv /\ Cf!SetupInv

\* What every step of a request leaves, and what one that ends at the host header has
\* written.
SetupGrows(r) ==
  /\ asked' = asked /\ setupOverlapped' = setupOverlapped
  /\ \A q \in Req \ {r} : setup'[q] = setup[q]
  /\ Cf!OwnPorts(rules)'
PortsStay == \A i \in DOMAIN rules : rules[i].ref \in Cf!PortRefs =>
               i \in DOMAIN rules' /\ rules'[i] = rules[i]
HeaderSet(r) == \E i \in DOMAIN rules' : /\ rules'[i].ref = Cf!HeaderRef(setup[r].host)
                                         /\ rules'[i].param = setup[r].origin
                                         /\ setup[r].host \in rules'[i].hosts
LastStep(r) == /\ setup[r].at = "header"
               /\ UNCHANGED record /\ rulesets \subseteq rulesets' /\ UNCHANGED ssl
               /\ PortsStay
               /\ setupAnswer'[r] = "ok" => HeaderSet(r)

\* What any step of a request comes to.
SetupOutcome(r) ==
  /\ setup[r].at # "idle" /\ SetupGrows(r)
  /\ \/ setup'[r].at # "idle" /\ Cf!GotFar(r)' /\ (r \notin setupOverlapped => Cf!HostIsSet(r)')
     \/ setup'[r].at = "idle" /\ (setupAnswer'[r] = "error" \/ LastStep(r))

\* A request may go on to a place if what it has to set before is set.
May(r, at) ==
  /\ at \in {"rate", "ssl", "port", "header"} => "cache" \in rulesets'
  /\ at \in {"ssl", "port", "header"} => "rate" \in rulesets'
  /\ at \in {"port", "header"} => ssl'
  /\ r \notin setupOverlapped =>
       /\ at # "record" /\ setup[r].origin \notin Address =>
            record'[setup[r].host] = setup[r].origin
       /\ at = "header" /\ setup[r].port \in Port =>
            \E i \in DOMAIN rules' : /\ rules'[i].ref = Cf!PortRef(setup[r].port)
                                     /\ setup[r].host \in rules'[i].hosts

\* What a request under way may rely on.
LEMMA SetupUnderWay ==
  ASSUME SetupsInv, NEW r \in Req, setup[r].at # "idle"
  PROVE  /\ Cf!Inv /\ Cf!TypeOK /\ Cf!OwnPorts(rules) /\ Cf!OwnPorts(setup[r].seen)
         /\ setup \in [Req -> Cf!ReqType] /\ setup[r] \in Cf!ReqType
         /\ setup[r].host \in Domain /\ setup[r].port \in asked[setup[r].host]
         /\ setup[r].found => setup[r].at \in rulesets
         /\ UNCHANGED <<record, ssl>> /\ rulesets \subseteq rulesets' /\ PortsStay =>
              May(r, setup[r].at)
<1>1. Cf!Inv /\ Cf!TypeOK /\ Cf!OwnPorts(rules) /\ r \in Cf!Active
  BY DEF SetupsInv, Cf!Inv, Cf!SetupInv, Cf!Active
<1>2. Cf!GotFar(r) /\ (r \notin setupOverlapped => Cf!HostIsSet(r))
  BY <1>1 DEF SetupsInv, Cf!SetupInv
<1>3. setup \in [Req -> Cf!ReqType] /\ setup[r] \in Cf!ReqType /\ setup[r].host \in Domain
  BY <1>1, SetupFacts
<1>4. ASSUME UNCHANGED <<record, ssl>>, rulesets \subseteq rulesets', PortsStay
      PROVE  May(r, setup[r].at)
  <2>1. ASSUME r \notin setupOverlapped, setup[r].at = "header", setup[r].port \in Port
        PROVE  \E i \in DOMAIN rules' : /\ rules'[i].ref = Cf!PortRef(setup[r].port)
                                        /\ setup[r].host \in rules'[i].hosts
    <3>1. PICK i \in Cf!Indices(rules, Cf!PortRef(setup[r].port)) : setup[r].host \in rules[i].hosts
      BY <1>2, <2>1 DEF Cf!HostIsSet
    <3>2. i \in DOMAIN rules /\ rules[i].ref = Cf!PortRef(setup[r].port)
      BY <3>1 DEF Cf!Indices
    <3> QED
      BY <1>4, <2>1, <3>1, <3>2 DEF PortsStay, Cf!PortRefs
  <2> QED
    BY <1>2, <1>4, <2>1 DEF May, Cf!GotFar, Cf!HostIsSet
<1> QED
  BY <1>1, <1>2, <1>3, <1>4 DEF Cf!GotFar

\* A request that goes on knows what it did, the rules that are there, or nothing.
LEMMA SetupMoves ==
  ASSUME SetupsInv, NEW r \in Req, setup[r].at # "idle", Cf!Rest, Cf!OwnPorts(rules)',
         NEW c \in Cf!ReqType, setup' = [setup EXCEPT ![r] = c], c.at # "idle",
         c.host = setup[r].host, c.origin = setup[r].origin, c.port = setup[r].port,
         c.found => c.at \in rulesets',
         c.seen \in {<<>>, rules, setup[r].seen}, May(r, c.at)
  PROVE  SetupOutcome(r)
<1>1. /\ Cf!OwnPorts(rules) /\ Cf!OwnPorts(setup[r].seen) /\ setup \in [Req -> Cf!ReqType]
      /\ setup[r].port \in asked[setup[r].host]
  BY SetupUnderWay
<1>2. asked' = asked /\ setupOverlapped' = setupOverlapped
  BY DEF Cf!Rest
<1>3. setup'[r] = c /\ \A q \in Req \ {r} : setup'[q] = setup[q]
  BY <1>1
<1>4. Cf!OwnPorts(<<>>)
  BY DEF Cf!OwnPorts
<1>5. Cf!OwnPorts(c.seen)
  BY <1>1, <1>4
<1>6. Cf!GotFar(r)'
  BY <1>1, <1>2, <1>3, <1>5 DEF Cf!GotFar, Cf!OwnPorts, May
<1>7. r \notin setupOverlapped => Cf!HostIsSet(r)'
  BY <1>3 DEF Cf!HostIsSet, Cf!Indices, May
<1> QED
  BY <1>2, <1>3, <1>6, <1>7 DEF SetupOutcome, SetupGrows

LEMMA GotoOutcome ==
  ASSUME SetupsInv, NEW r \in Req, setup[r].at # "idle", Cf!Rest, Cf!OwnPorts(rules)',
         NEW at \in SetupAt \ {"idle"}, NEW step \in SetupStep, Cf!Goto(r, at, step), May(r, at)
  PROVE  SetupOutcome(r)
<1> SUFFICES ASSUME NEW c, c = [setup[r] EXCEPT !.at = at, !.step = step, !.found = FALSE,
                                                !.seen = <<>>]
             PROVE  SetupOutcome(r)
  OBVIOUS
<1>1. setup \in [Req -> Cf!ReqType] /\ setup[r] \in Cf!ReqType
  BY SetupUnderWay
<1>2. /\ c \in Cf!ReqType /\ c.at = at /\ c.seen = <<>> /\ c.found = FALSE
      /\ c.host = setup[r].host /\ c.origin = setup[r].origin /\ c.port = setup[r].port
  <2>1. <<>> \in Seq(Cf!RuleType) /\ FALSE \in BOOLEAN
    OBVIOUS
  <2> QED
    BY <1>1, <2>1 DEF Cf!ReqType, SetupAt, SetupStep
<1>3. setup' = [setup EXCEPT ![r] = c]
  BY <1>1 DEF Cf!Goto
<1> QED
  BY <1>2, <1>3, SetupMoves

\* A request that ends has failed, or been at the host header.
LEMMA ReturnOutcome ==
  ASSUME SetupsInv, NEW r \in Req, setup[r].at # "idle", Cf!Rest, Cf!OwnPorts(rules)',
         NEW a, Cf!Return(r, a),
         a = "error" \/ LastStep(r)
  PROVE  SetupOutcome(r)
<1>1. setup \in [Req -> Cf!ReqType] /\ setupAnswer \in [Req -> Answers]
  BY SetupUnderWay DEF Cf!TypeOK, Answers
<1>2. /\ setup'[r].at = "idle" /\ \A q \in Req \ {r} : setup'[q] = setup[q]
      /\ setupAnswer'[r] = a
  BY <1>1, IdleSetup DEF Cf!Return
<1> QED
  BY <1>2 DEF SetupOutcome, SetupGrows, Cf!Rest

LEMMA ErrorOutcome ==
  ASSUME SetupsInv, NEW r \in Req, setup[r].at # "idle", Cf!Rest, Cf!OwnPorts(rules)',
         Cf!Error(r),
         setup[r].at = "header" => UNCHANGED <<record, ssl>> /\ rulesets \subseteq rulesets'
                                   /\ PortsStay
  PROVE  SetupOutcome(r)
<1>1. CASE setup[r].at = "header"
  <2>1. Cf!Return(r, "ok, but for the header")
    BY <1>1 DEF Cf!Error
  <2>2. setupAnswer'[r] # "ok"
    <3>1. setupAnswer \in [Req -> Answers]
      BY SetupUnderWay DEF Cf!TypeOK, Answers
    <3> QED
      BY <2>1, <3>1 DEF Cf!Return
  <2> QED
    BY <1>1, <2>1, <2>2, ReturnOutcome DEF LastStep
<1>2. CASE setup[r].at # "header"
  BY <1>2, ReturnOutcome DEF Cf!Error
<1> QED
  BY <1>1, <1>2

LEMMA PortsAsBefore ==
  ASSUME SetupsInv, UNCHANGED <<rules, asked>>
  PROVE  Cf!OwnPorts(rules)' /\ PortsStay
<1>1. Cf!OwnPorts(rules)
  BY DEF SetupsInv, Cf!SetupInv
<1> QED
  BY <1>1 DEF Cf!OwnPorts, PortsStay

LEMMA ZoneAsBefore ==
  ASSUME SetupsInv, NEW r \in Req, setup[r].at # "idle", Cf!Rest, UNCHANGED Cf!zone
  PROVE  /\ UNCHANGED <<record, ssl>> /\ rulesets \subseteq rulesets'
         /\ Cf!OwnPorts(rules)' /\ PortsStay /\ May(r, setup[r].at)
  BY PortsAsBefore, SetupUnderWay DEF Cf!Rest, Cf!zone

LEMMA RecordOutcome ==
  ASSUME SetupsInv, NEW r \in Req, Cf!DnsUpsertRecord(r)
  PROVE  SetupOutcome(r)
<1>1. /\ setup[r].at = "record" /\ UNCHANGED rules /\ Cf!Rest /\ Cf!OwnPorts(rules)'
      /\ record \in [Domain -> Origin \cup {None}] /\ setup[r].host \in Domain
  BY PortsAsBefore, SetupUnderWay, ZoneFacts DEF Cf!DnsUpsertRecord, Cf!Rest
<1>2. CASE Cf!Error(r)
  BY <1>1, <1>2, ErrorOutcome
<1>3. CASE /\ record' = [record EXCEPT ![setup[r].host] =
                            IF setup[r].origin \in Address THEN @ ELSE setup[r].origin]
           /\ Cf!Goto(r, "cache", "find")
  <2>1. May(r, "cache")
    BY <1>1, <1>3 DEF May
  <2> QED
    BY <1>1, <1>3, <2>1, GotoOutcome DEF SetupAt, SetupStep
<1> QED
  BY <1>2, <1>3 DEF Cf!DnsUpsertRecord, Cf!Applied

LEMMA FindRulesetOutcome ==
  ASSUME SetupsInv, NEW r \in Req, NEW phase \in {"cache", "rate"},
         Cf!findCFRulesetByPhase(r, phase)
  PROVE  SetupOutcome(r)
<1>1. setup[r].at = phase /\ UNCHANGED Cf!zone /\ Cf!Rest
  BY DEF Cf!findCFRulesetByPhase
<1>2. /\ Cf!OwnPorts(rules)' /\ May(r, phase) /\ rulesets' = rulesets
      /\ setup \in [Req -> Cf!ReqType] /\ setup[r] \in Cf!ReqType
  BY <1>1, ZoneAsBefore, SetupUnderWay DEF Cf!zone
<1>3. CASE Cf!Error(r)
  BY <1>1, <1>2, <1>3, ErrorOutcome
<1>4. CASE setup' = [setup EXCEPT ![r].step = "write", ![r].found = phase \in rulesets]
  <2>0. (phase \in rulesets) \in BOOLEAN
    OBVIOUS
  <2>1. PICK b \in BOOLEAN : b = (phase \in rulesets)
    BY <2>0, Zenon
  <2> SUFFICES ASSUME NEW c, c = [setup[r] EXCEPT !.step = "write", !.found = b]
               PROVE  SetupOutcome(r)
    OBVIOUS
  <2>2. /\ c \in Cf!ReqType /\ c.at = phase /\ c.seen = setup[r].seen /\ c.found = b
        /\ c.host = setup[r].host /\ c.origin = setup[r].origin /\ c.port = setup[r].port
    BY <1>1, <1>2 DEF Cf!ReqType
  <2>3. setup' = [setup EXCEPT ![r].step = "write", ![r].found = b]
    BY <1>4, <2>1, Zenon
  <2>4. setup' = [setup EXCEPT ![r] = c]
    BY <1>2, <2>3
  <2>5. c.found => c.at \in rulesets'
    BY <1>2, <2>1, <2>2
  <2> QED
    BY <1>1, <1>2, <2>2, <2>4, <2>5, SetupMoves
<1> QED
  BY <1>3, <1>4 DEF Cf!findCFRulesetByPhase

\* A ruleset that is created is there, and one that was found.
LEMMA CreateRulesetOutcome ==
  ASSUME SetupsInv, NEW r \in Req, setup[r].at # "idle", NEW phase,
         NEW to \in SetupAt \ {"idle"}, NEW step \in SetupStep,
         setup[r].at = "header" => to = "header", Cf!createCFRuleset(r, phase, to, step),
         phase \in rulesets' /\ May(r, setup[r].at) => May(r, to)
  PROVE  SetupOutcome(r)
<1>1. /\ UNCHANGED <<record, rules, ssl>> /\ Cf!Rest /\ rulesets \subseteq rulesets'
      /\ Cf!OwnPorts(rules)' /\ PortsStay
  BY PortsAsBefore DEF Cf!createCFRuleset, Cf!Rest
<1>2. CASE Cf!Error(r)
  BY <1>1, <1>2, ErrorOutcome
<1>3. CASE rulesets' = rulesets \cup {phase} /\ Cf!Goto(r, to, step)
  <2>1. May(r, setup[r].at)
    BY <1>1, SetupUnderWay
  <2> QED
    BY <1>1, <1>3, <2>1, GotoOutcome
<1> QED
  BY <1>2, <1>3 DEF Cf!createCFRuleset, Cf!Applied, SetupAt

LEMMA RulesetOutcome ==
  ASSUME SetupsInv, NEW r \in Req,
         \/ Cf!upsertCFRulesetByPhase(r, "cache", "rate")
         \/ Cf!upsertCFRulesetByPhase(r, "rate", "ssl")
  PROVE  SetupOutcome(r)
<1>1. PICK phase \in {"cache", "rate"}, to \in {"rate", "ssl"} :
        /\ Cf!upsertCFRulesetByPhase(r, phase, to)
        /\ phase \in rulesets' /\ May(r, phase) => May(r, to)
  BY DEF May
<1>2. CASE Cf!findCFRulesetByPhase(r, phase)
  BY <1>2, FindRulesetOutcome
<1>3. CASE setup[r].at = phase /\ Cf!createCFRuleset(r, phase, to, "find")
  BY <1>1, <1>3, CreateRulesetOutcome DEF SetupAt, SetupStep
<1>4. CASE setup[r].at = phase /\ Cf!updateCFRuleset(r, to, "find")
  <2>1. /\ Cf!Rest /\ UNCHANGED Cf!zone /\ setup[r].found
        /\ Cf!Goto(r, to, "find") \/ Cf!Error(r)
    BY <1>4 DEF Cf!updateCFRuleset, Cf!Applied
  <2>2. Cf!OwnPorts(rules)' /\ May(r, phase) /\ phase \in rulesets'
    BY <1>4, <2>1, ZoneAsBefore, SetupUnderWay
  <2> QED
    BY <1>1, <1>4, <2>1, <2>2, GotoOutcome, ErrorOutcome DEF SetupAt, SetupStep
<1> QED
  BY <1>1, <1>2, <1>3, <1>4 DEF Cf!upsertCFRulesetByPhase

LEMMA SSLOutcome ==
  ASSUME SetupsInv, NEW r \in Req, Cf!SetCFSSLMode(r)
  PROVE  SetupOutcome(r)
<1>1. /\ setup[r].at = "ssl" /\ UNCHANGED <<record, rulesets, rules>> /\ Cf!Rest
      /\ Cf!OwnPorts(rules)' /\ PortsStay
  BY PortsAsBefore DEF Cf!SetCFSSLMode, Cf!Rest
<1>2. CASE Cf!Error(r)
  BY <1>1, <1>2, ErrorOutcome
<1>3. CASE ssl' = TRUE /\ Cf!Goto(r, IF setup[r].port = Plain THEN "header" ELSE "port", "find")
  <2>1. PICK to \in {"header", "port"} :
          Cf!Goto(r, to, "find") /\ (to = "header" => setup[r].port = Plain)
    BY <1>3
  <2>2. Cf!GotFar(r) /\ (r \notin setupOverlapped => Cf!HostIsSet(r))
    BY <1>1 DEF SetupsInv, Cf!SetupInv, Cf!Active
  <2>3. Plain \notin Port
    BY SupplyAssumption DEF Cf!RulesAssumption
  <2>4. May(r, to)
    BY <1>1, <1>3, <2>1, <2>2, <2>3 DEF May, Cf!GotFar, Cf!HostIsSet
  <2> QED
    BY <1>1, <2>1, <2>4, GotoOutcome DEF SetupAt, SetupStep
<1> QED
  BY <1>2, <1>3 DEF Cf!SetCFSSLMode, Cf!Applied

LEMMA EntrypointOutcome ==
  ASSUME SetupsInv, NEW r \in Req, NEW kind \in {"port", "header"},
         Cf!getCFEntrypointRuleset(r, kind)
  PROVE  SetupOutcome(r)
<1>1. setup[r].at = kind /\ UNCHANGED Cf!zone /\ Cf!Rest
  BY DEF Cf!getCFEntrypointRuleset
<1>2. /\ UNCHANGED <<record, ssl>> /\ rulesets' = rulesets
      /\ Cf!OwnPorts(rules)' /\ PortsStay /\ May(r, kind)
      /\ Cf!TypeOK /\ setup \in [Req -> Cf!ReqType] /\ setup[r] \in Cf!ReqType
      /\ setup[r].found => kind \in rulesets'
  BY <1>1, ZoneAsBefore, SetupUnderWay DEF Cf!zone
<1>3. CASE Cf!Error(r)
  BY <1>1, <1>2, <1>3, ErrorOutcome
<1>4. CASE Cf!Goto(r, kind, "ruleset")
  BY <1>1, <1>2, <1>4, GotoOutcome DEF SetupAt, SetupStep
<1>5. CASE setup' = [setup EXCEPT ![r].step = "rule", ![r].seen = rules]
  <2> SUFFICES ASSUME NEW c, c = [setup[r] EXCEPT !.step = "rule", !.seen = rules]
               PROVE  SetupOutcome(r)
    OBVIOUS
  <2>1. /\ c \in Cf!ReqType /\ c.at = kind /\ c.seen = rules /\ c.found = setup[r].found
        /\ c.host = setup[r].host /\ c.origin = setup[r].origin /\ c.port = setup[r].port
    BY <1>1, <1>2, ZoneFacts DEF Cf!ReqType
  <2>2. setup' = [setup EXCEPT ![r] = c]
    BY <1>2, <1>5
  <2> QED
    BY <1>1, <1>2, <2>1, <2>2, SetupMoves
<1> QED
  BY <1>3, <1>4, <1>5 DEF Cf!getCFEntrypointRuleset

LEMMA PortRefs ==
  /\ \A p, q : Cf!PortRef(p) = Cf!PortRef(q) => p = q
  /\ \A h : Cf!HeaderRef(h) \notin Cf!PortRefs
  BY DEF Cf!PortRef, Cf!HeaderRef, Cf!PortRefs

\* A rule of r's ref, with its parameter and its host, is written at k; all others stay.
LEMMA WriteOutcome ==
  ASSUME SetupsInv, NEW r \in Req, NEW kind \in {"port", "header"},
         setup[r].at = kind, UNCHANGED <<record, rulesets, ssl>>, Cf!Rest,
         Cf!Applied(r, IF kind = "port" THEN "header" ELSE "done", "find"),
         NEW k \in DOMAIN rules', DOMAIN rules \subseteq DOMAIN rules',
         DOMAIN rules' \subseteq DOMAIN rules \cup {k},
         \A j \in DOMAIN rules : j # k => rules'[j] = rules[j],
         k \in DOMAIN rules => rules[k].ref = Cf!Ref(r, kind),
         rules'[k].ref = Cf!Ref(r, kind), rules'[k].param = Cf!Param(r, kind),
         setup[r].host \in rules'[k].hosts,
         kind = "port" => \A h \in rules'[k].hosts : setup[r].port \in asked[h]
  PROVE  SetupOutcome(r)
<1>1. Cf!OwnPorts(rules) /\ asked' = asked /\ May(r, kind) \in BOOLEAN
  BY SetupUnderWay DEF Cf!Rest, May
<1>2. kind = "header" => Cf!Ref(r, kind) \notin Cf!PortRefs
  BY PortRefs DEF Cf!Ref
<1>3. Cf!OwnPorts(rules')
  <2> SUFFICES ASSUME NEW i \in DOMAIN rules', rules'[i].ref \in Cf!PortRefs
               PROVE  /\ rules'[i].ref = Cf!PortRef(rules'[i].param)
                      /\ \A h \in rules'[i].hosts : rules'[i].param \in asked[h]
    BY DEF Cf!OwnPorts
  <2>1. CASE i # k
    BY <1>1, <2>1 DEF Cf!OwnPorts
  <2>2. CASE i = k
    <3>1. kind = "port"
      BY <1>2, <2>2
    <3> QED
      BY <2>2, <3>1 DEF Cf!Ref, Cf!Param
  <2> QED
    BY <2>1, <2>2
<1>4. Cf!OwnPorts(rules)'
  BY <1>1, <1>3 DEF Cf!OwnPorts
<1>5. kind = "header" => PortsStay
  BY <1>2 DEF PortsStay
<1>6. CASE Cf!Error(r)
  BY <1>4, <1>5, <1>6, ErrorOutcome
<1>7. CASE kind = "port" /\ Cf!Goto(r, "header", "find")
  <2>1. Cf!GotFar(r) /\ (r \notin setupOverlapped => Cf!HostIsSet(r))
    BY <1>7 DEF SetupsInv, Cf!SetupInv, Cf!Active
  <2>2. rules'[k].ref = Cf!PortRef(setup[r].port)
    BY <1>7 DEF Cf!Ref
  <2>3. May(r, "header")
    BY <1>7, <2>1, <2>2 DEF May, Cf!GotFar, Cf!HostIsSet
  <2> QED
    BY <1>4, <1>7, <2>3, GotoOutcome DEF SetupAt, SetupStep
<1>8. CASE kind = "header" /\ Cf!Return(r, "ok")
  <2>1. HeaderSet(r)
    BY <1>8 DEF HeaderSet, Cf!Ref, Cf!Param
  <2> QED
    BY <1>4, <1>5, <1>8, <2>1, ReturnOutcome DEF LastStep
<1> QED
  BY <1>6, <1>7, <1>8 DEF Cf!Applied

LEMMA RuleOutcome ==
  ASSUME SetupsInv, NEW r \in Req, NEW kind \in {"port", "header"}, NEW to,
         to = (IF kind = "port" THEN "header" ELSE "done"),
         Cf!createCFRule(r, kind, to) \/ Cf!updateCFRule(r, kind, to)
  PROVE  SetupOutcome(r)
<1>1. setup[r].at = kind /\ UNCHANGED <<record, rulesets, ssl>> /\ Cf!Rest /\ asked' = asked
  BY DEF Cf!createCFRule, Cf!updateCFRule, Cf!Rest
<1>2. /\ Cf!Inv /\ Cf!TypeOK /\ Cf!OwnPorts(setup[r].seen)
      /\ setup[r].port \in asked[setup[r].host] /\ rules \in Seq(Cf!RuleType)
  BY <1>1, SetupUnderWay, ZoneFacts
<1>3. CASE Cf!Error(r) /\ UNCHANGED rules
  BY <1>1, <1>3, PortsAsBefore, ErrorOutcome
<1> SUFFICES ASSUME ~(Cf!Error(r) /\ UNCHANGED rules) PROVE SetupOutcome(r)
  BY <1>3
<1>4. CASE Cf!createCFRule(r, kind, to)
  <2>1. /\ Cf!Applied(r, to, "find")
        /\ DOMAIN rules = 1..Len(rules) /\ DOMAIN rules' = 1..(Len(rules) + 1)
        /\ Len(rules) \in Nat
        /\ \A i \in DOMAIN rules : rules'[i] = rules[i]
        /\ rules'[Len(rules) + 1].ref = Cf!Ref(r, kind)
        /\ rules'[Len(rules) + 1].hosts = {setup[r].host}
        /\ rules'[Len(rules) + 1].param = Cf!Param(r, kind)
    BY <1>2, <1>4, CreatedRule
  <2> SUFFICES ASSUME NEW k, k = Len(rules) + 1 PROVE SetupOutcome(r)
    OBVIOUS
  <2>2. /\ k \in DOMAIN rules' /\ k \notin DOMAIN rules /\ DOMAIN rules \subseteq DOMAIN rules'
        /\ DOMAIN rules' \subseteq DOMAIN rules \cup {k}
    BY <2>1
  <2>3. \A h \in rules'[k].hosts : setup[r].port \in asked[h]
    BY <1>2, <2>1
  <2> QED
    BY <1>1, <2>1, <2>2, <2>3, WriteOutcome
<1>5. CASE Cf!updateCFRule(r, kind, to)
  <2>1. /\ Cf!Applied(r, to, "find")
        /\ \E i \in DOMAIN rules :
             /\ i \in DOMAIN setup[r].seen
             /\ rules[i].ref = Cf!Ref(r, kind) /\ setup[r].seen[i].ref = Cf!Ref(r, kind)
             /\ DOMAIN rules' = DOMAIN rules
             /\ \A j \in DOMAIN rules : j # i => rules'[j] = rules[j]
             /\ rules'[i].ref = rules[i].ref
             /\ rules'[i].hosts = setup[r].seen[i].hosts \cup {setup[r].host}
             /\ rules'[i].param = Cf!Param(r, kind)
    <3>1. kind # "idle"
      OBVIOUS
    <3> QED
      BY <1>2, <1>5, <3>1, UpdatedRule
  <2>2. PICK i \in DOMAIN rules :
          /\ i \in DOMAIN setup[r].seen
          /\ rules[i].ref = Cf!Ref(r, kind) /\ setup[r].seen[i].ref = Cf!Ref(r, kind)
          /\ DOMAIN rules' = DOMAIN rules
          /\ \A j \in DOMAIN rules : j # i => rules'[j] = rules[j]
          /\ rules'[i].ref = rules[i].ref
          /\ rules'[i].hosts = setup[r].seen[i].hosts \cup {setup[r].host}
          /\ rules'[i].param = Cf!Param(r, kind)
    BY <2>1
  <2>3. ASSUME kind = "port", NEW h \in rules'[i].hosts PROVE setup[r].port \in asked[h]
    <3>1. setup[r].seen[i].ref = Cf!PortRef(setup[r].port) /\ setup[r].port \in Port
      BY <1>1, <1>2, <2>2, <2>3, SetupFacts DEF Cf!Ref
    <3>2. setup[r].seen[i].ref \in Cf!PortRefs
      BY <3>1 DEF Cf!PortRefs
    <3>3. /\ setup[r].seen[i].param = setup[r].port
          /\ \A g \in setup[r].seen[i].hosts : setup[r].port \in asked[g]
      BY <1>2, <2>2, <3>1, <3>2, PortRefs DEF Cf!OwnPorts
    <3> QED
      BY <1>2, <2>2, <2>3, <3>3
  <2>4. setup[r].host \in rules'[i].hosts
    BY <2>2
  <2> QED
    BY <1>1, <2>1, <2>2, <2>3, <2>4, WriteOutcome
<1> QED
  BY <1>4, <1>5

\* Whatever a request does comes to this.
LEMMA SetupStepOutcome ==
  ASSUME SetupsInv, NEW r \in Req,
         \/ Cf!DnsUpsertRecord(r) \/ Cf!SetCFSSLMode(r)
         \/ Cf!upsertCFRulesetByPhase(r, "cache", "rate")
         \/ Cf!upsertCFRulesetByPhase(r, "rate", "ssl")
         \/ Cf!upsertCFOriginRule(r, "port", "header")
         \/ Cf!upsertCFOriginRule(r, "header", "done")
  PROVE  SetupOutcome(r)
<1>1. ASSUME NEW kind \in {"port", "header"}, NEW to,
             to = (IF kind = "port" THEN "header" ELSE "done"),
             Cf!upsertCFOriginRule(r, kind, to)
      PROVE  SetupOutcome(r)
  <2>1. CASE Cf!createCFOriginEntrypointRuleset(r, kind)
    <3>1. setup[r].at = kind /\ Cf!createCFRuleset(r, "origin", kind, "rule")
      BY <2>1 DEF Cf!createCFOriginEntrypointRuleset
    <3> QED
      BY <3>1, CreateRulesetOutcome DEF SetupAt, SetupStep
  <2> QED
    BY <1>1, <2>1, EntrypointOutcome, RuleOutcome DEF Cf!upsertCFOriginRule
<1>2. CASE Cf!upsertCFOriginRule(r, "port", "header")
  BY <1>1, <1>2
<1>3. CASE Cf!upsertCFOriginRule(r, "header", "done")
  BY <1>1, <1>3
<1> QED
  BY <1>2, <1>3, RecordOutcome, SSLOutcome, RulesetOutcome

\* What all domains share stays.
LEMMA SharedStays ==
  ASSUME Cf!TypeOK, Cf!Next
  PROVE  rulesets \subseteq rulesets' /\ (ssl => ssl')
<1>1. ASSUME NEW r \in Req, NEW phase, NEW to, Cf!upsertCFRulesetByPhase(r, phase, to)
      PROVE  rulesets \subseteq rulesets' /\ (ssl => ssl')
  BY <1>1, ZoneFacts DEF Cf!upsertCFRulesetByPhase, Cf!findCFRulesetByPhase, Cf!createCFRuleset,
                         Cf!updateCFRuleset
<1>2. ASSUME NEW r \in Req, NEW kind, NEW to, Cf!upsertCFOriginRule(r, kind, to)
      PROVE  rulesets \subseteq rulesets' /\ (ssl => ssl')
  BY <1>2, ZoneFacts DEF Cf!upsertCFOriginRule, Cf!getCFEntrypointRuleset, Cf!createCFRuleset,
                         Cf!createCFOriginEntrypointRuleset, Cf!createCFRule, Cf!updateCFRule
<1>3. ASSUME NEW r \in Req, Cf!SetCFSSLMode(r) \/ Cf!DnsUpsertRecord(r)
      PROVE  rulesets \subseteq rulesets' /\ (ssl => ssl')
  BY <1>3 DEF Cf!SetCFSSLMode, Cf!DnsUpsertRecord
<1>4. ASSUME NEW r \in Req, NEW h, NEW o, NEW p, Cf!PostServerDomain(r, h, o, p)
      PROVE  rulesets \subseteq rulesets' /\ (ssl => ssl')
  BY <1>4, ZoneFacts DEF Cf!PostServerDomain
<1> QED
  BY <1>1, <1>2, <1>3, <1>4, SetupSteps

LEMMA SetupStays ==
  ASSUME SetupsInv, NEW q \in Req, setup[q].at # "idle", setup'[q] = setup[q],
         rulesets \subseteq rulesets', ssl => ssl',
         \A h \in Domain : asked[h] \subseteq asked'[h]
  PROVE  Cf!GotFar(q)'
<1>1. Cf!GotFar(q) /\ setup[q].host \in Domain /\ setup[q].seen \in Seq(Cf!RuleType)
  BY SetupUnderWay, SetupFacts DEF SetupsInv, Cf!SetupInv, Cf!Active
<1>2. ASSUME NEW i \in DOMAIN setup[q].seen PROVE setup[q].seen[i].hosts \subseteq Domain
  <2>1. setup[q].seen[i] \in Cf!RuleType
    BY <1>1
  <2> QED
    BY <2>1 DEF Cf!RuleType
<1>3. Cf!OwnPorts(setup[q].seen)'
  BY <1>1, <1>2 DEF Cf!GotFar, Cf!OwnPorts
<1> QED
  BY <1>1, <1>3 DEF Cf!GotFar

LEMMA SetupOutcomeInv ==
  ASSUME SetupsInv, Cf!Inv', NEW r \in Req, SetupOutcome(r),
         rulesets \subseteq rulesets', ssl => ssl'
  PROVE  Cf!SetupInv'
<1>1. ASSUME NEW q \in Req, setup'[q].at # "idle"
      PROVE  Cf!GotFar(q)' /\ (q \notin setupOverlapped' => Cf!HostIsSet(q)')
  <2>1. CASE q = r
    BY <1>1, <2>1 DEF SetupOutcome, SetupGrows
  <2>2. CASE q # r
    <3>1. setup'[q] = setup[q] /\ asked' = asked /\ setupOverlapped' = setupOverlapped
      BY <2>2 DEF SetupOutcome, SetupGrows
    <3>2. q \in setupOverlapped
      <4>1. q \in Cf!Active /\ r \in Cf!Active
        BY <1>1, <3>1 DEF SetupOutcome, Cf!Active
      <4> QED
        BY <2>2, <4>1 DEF SetupsInv, Cf!Inv, Cf!SeenIsThere
    <3>3. Cf!GotFar(q)'
      BY <1>1, <3>1, SetupStays
    <3> QED
      BY <3>1, <3>2, <3>3
  <2> QED
    BY <2>1, <2>2
<1>2. Cf!OwnPorts(rules)'
  BY DEF SetupOutcome, SetupGrows
<1> QED
  BY <1>1, <1>2 DEF Cf!SetupInv, Cf!Active

LEMMA PostSetupInv ==
  ASSUME SetupsInv, NEW r \in Req, NEW h \in Domain, NEW o \in Origin, NEW p \in Port \cup {Plain},
         Cf!PostServerDomain(r, h, o, p)
  PROVE  Cf!SetupInv'
<1>1. /\ Cf!Inv /\ Cf!TypeOK /\ Cf!OwnPorts(rules) /\ setup \in [Req -> Cf!ReqType]
      /\ asked \in [Domain -> SUBSET (Port \cup {Plain})]
      /\ rules \in Seq(Cf!RuleType)
  BY SetupFacts, ZoneFacts DEF SetupsInv, Cf!SetupInv, Cf!Inv, Cf!TypeOK
<1>2. /\ rules' = rules /\ rulesets' = rulesets /\ ssl' = ssl
      /\ \A g \in Domain : asked[g] \subseteq asked'[g]
      /\ p \in asked'[h]
  BY <1>1, ZoneFacts DEF Cf!PostServerDomain
<1> SUFFICES ASSUME NEW c, c = [Cf!Idle EXCEPT !.at = "record", !.host = h, !.origin = o, !.port = p]
             PROVE  Cf!SetupInv'
  OBVIOUS
<1>3. c.at = "record" /\ c.host = h /\ c.port = p /\ c.seen = <<>> /\ c.found = FALSE
  BY DEF Cf!Idle
<1>4. setup[r].at = "idle" /\ \A q \in Req : setup'[q] = IF q = r THEN c ELSE setup[q]
  BY <1>1 DEF Cf!PostServerDomain
<1>5. Cf!OwnPorts(rules)'
  <2>1. ASSUME NEW i \in DOMAIN rules PROVE rules[i].hosts \subseteq Domain
    <3>1. rules[i] \in Cf!RuleType
      BY <1>1
    <3> QED
      BY <3>1 DEF Cf!RuleType
  <2> QED
    BY <1>1, <1>2, <2>1 DEF Cf!OwnPorts
<1>6. ASSUME NEW q \in Req, setup'[q].at # "idle"
      PROVE  Cf!GotFar(q)' /\ (q \notin setupOverlapped' => Cf!HostIsSet(q)')
  <2>1. CASE q = r
    <3>1. setup'[q] = c
      BY <1>4, <2>1
    <3> QED
      BY <1>2, <1>3, <3>1 DEF Cf!GotFar, Cf!HostIsSet, Cf!OwnPorts
  <2>2. CASE q # r
    <3>1. setup'[q] = setup[q] /\ q \in Cf!Active
      BY <1>4, <1>6, <2>2 DEF Cf!Active
    <3>2. q \in setupOverlapped'
      BY <3>1 DEF Cf!PostServerDomain
    <3>3. Cf!GotFar(q)'
      BY <1>2, <1>6, <3>1, SetupStays
    <3> QED
      BY <3>2, <3>3
  <2> QED
    BY <2>1, <2>2
<1> QED
  BY <1>5, <1>6 DEF Cf!SetupInv, Cf!Active

LEMMA SetupInvInit == Cf!Init => Cf!SetupInv
<1> SUFFICES ASSUME Cf!Init PROVE Cf!SetupInv
  OBVIOUS
<1>1. rules = <<>> /\ \A r \in Req : setup[r] = Cf!Idle
  BY DEF Cf!Init
<1> QED
  BY <1>1, IdleSetup DEF Cf!SetupInv, Cf!OwnPorts, Cf!Active

\* Of a request under way that is alone, all it has done so far is there; and no rule
\* sends a host to a port nobody asked for, however many requests overlap.
THEOREM RequestsAreRight == Cf!Spec => []SetupsInv
<1>1. SetupsInv /\ Cf!Inv' /\ [Cf!Next]_(Cf!vars) => Cf!SetupInv'
  <2> SUFFICES ASSUME SetupsInv, Cf!Inv', [Cf!Next]_(Cf!vars) PROVE Cf!SetupInv'
    OBVIOUS
  <2>1. CASE Cf!Next
    <3>1. rulesets \subseteq rulesets' /\ (ssl => ssl')
      BY <2>1, SharedStays DEF SetupsInv, Cf!Inv
    <3> QED
      BY <2>1, <3>1, SetupSteps, PostSetupInv, SetupStepOutcome, SetupOutcomeInv
  <2>2. CASE UNCHANGED Cf!vars
    <3>1. UNCHANGED <<record, rulesets, rules, ssl, setup, setupAnswer, started, asked,
                      setupOverlapped>>
      BY <2>2 DEF Cf!vars, Cf!zone
    <3>2. Cf!SetupInv
      BY DEF SetupsInv
    <3> QED
      BY <3>1, <3>2 DEF Cf!SetupInv, Cf!OwnPorts, Cf!Active, Cf!GotFar, Cf!HostIsSet, Cf!Indices
  <2> QED
    BY <2>1, <2>2
<1> QED
  BY <1>1, SetupInvInit, RulesAreShared, PTL DEF Cf!Spec, SetupsInv

\* What cloudflare does to requests of a host, from the rules that name it.
LEMMA SettingIs ==
  ASSUME NEW kind, NEW h, NEW u, NEW d, rules' \in Seq(Cf!RuleType),
         \A i \in DOMAIN rules' :
           rules'[i].ref[1] = kind /\ h \in rules'[i].hosts => rules'[i].param = u,
         NEW k \in DOMAIN rules', rules'[k].ref[1] = kind, h \in rules'[k].hosts
  PROVE  Cf!Setting(kind, h)' = {u}
<1> DEFINE I == {i \in DOMAIN rules' : rules'[i].ref[1] = kind /\ h \in rules'[i].hosts}
<1>1. PICK n \in Nat : DOMAIN rules' = 1..n
  BY Positions
<1>2. I \in SUBSET (1..n) /\ I # {}
  BY <1>1
<1>3. PICK i \in I : \A j \in I : j <= i
  <2> HIDE DEF I
  <2> QED
    BY <1>2, LastOf
<1>4. Cf!Setting(kind, h)' = {rules'[j].param : j \in {j \in I : \A l \in I : l <= j}}
  BY DEF Cf!Setting
<1>5. \A j \in I : rules'[j].param = u
  OBVIOUS
<1> QED
  <2> HIDE DEF I
  <2> QED
    BY <1>3, <1>4, <1>5

\* The port a host is given, if it was asked for one port only.
LEMMA PortSetting ==
  ASSUME rules' \in Seq(Cf!RuleType), Cf!OwnPorts(rules'), NEW h \in Domain, NEW p,
         asked[h] = {p},
         p # Plain => \E i \in DOMAIN rules' : rules'[i].ref = Cf!PortRef(p) /\ h \in rules'[i].hosts
  PROVE  Cf!Setting("set_origin_port", h)' = {p} \ {Plain}
<1>1. ASSUME NEW i \in DOMAIN rules', rules'[i].ref[1] = "set_origin_port", h \in rules'[i].hosts
      PROVE  rules'[i].param = p /\ p # Plain
  <2>0. rules'[i] \in Cf!RuleType
    OBVIOUS
  <2>1. rules'[i].ref \in Cf!PortRefs \cup Cf!HeaderRefs
    BY <2>0 DEF Cf!RuleType
  <2>2. rules'[i].ref \in Cf!PortRefs
    BY <1>1, <2>1 DEF Cf!HeaderRefs, Cf!HeaderRef
  <2>3. rules'[i].param = p /\ rules'[i].ref = Cf!PortRef(p)
    BY <1>1, <2>2 DEF Cf!OwnPorts
  <2>4. p \in Port
    BY <2>2, <2>3, PortRefs DEF Cf!PortRefs
  <2> QED
    BY <2>3, <2>4, SupplyAssumption DEF Cf!RulesAssumption
<1>2. CASE p = Plain
  BY <1>1, <1>2 DEF Cf!Setting
<1>3. CASE p # Plain
  <2>1. PICK k \in DOMAIN rules' : rules'[k].ref = Cf!PortRef(p) /\ h \in rules'[k].hosts
    BY <1>3
  <2>2. rules'[k].ref[1] = "set_origin_port"
    BY <2>1 DEF Cf!PortRef
  <2>3. \A i \in DOMAIN rules' :
          rules'[i].ref[1] = "set_origin_port" /\ h \in rules'[i].hosts => rules'[i].param = p
    BY <1>1
  <2>4. Cf!Setting("set_origin_port", h)' = {p}
    BY <2>1, <2>2, <2>3, SettingIs
  <2> QED
    BY <1>3, <2>4
<1> QED
  BY <1>2, <1>3

\* The host header, if there is one rule of its ref.
LEMMA HeaderSetting ==
  ASSUME rules' \in Seq(Cf!RuleType), Cf!OwnHosts(rules'), NEW h \in Domain, NEW o,
         \E i \in DOMAIN rules' : Cf!Indices(rules', Cf!HeaderRef(h)) = {i},
         NEW k \in DOMAIN rules', rules'[k].ref = Cf!HeaderRef(h), rules'[k].param = o,
         h \in rules'[k].hosts
  PROVE  Cf!Setting("set_origin_host_header", h)' = {o}
<1>1. Cf!Indices(rules', Cf!HeaderRef(h)) = {k}
  BY DEF Cf!Indices
<1>2. ASSUME NEW i \in DOMAIN rules', rules'[i].ref[1] = Header, h \in rules'[i].hosts
      PROVE  rules'[i].param = o
  <2>0. rules'[i] \in Cf!RuleType
    OBVIOUS
  <2>1. rules'[i].ref \in Cf!PortRefs \cup Cf!HeaderRefs
    BY <2>0 DEF Cf!RuleType
  <2>2. rules'[i].ref = Cf!HeaderRef(h)
    BY <1>2, <2>1, RefKinds DEF Cf!OwnHosts
  <2> QED
    BY <1>1, <1>2, <2>2 DEF Cf!Indices
<1>3. rules'[k].ref[1] = "set_origin_host_header"
  BY DEF Cf!HeaderRef
<1>4. \A i \in DOMAIN rules' :
        rules'[i].ref[1] = "set_origin_host_header" /\ h \in rules'[i].hosts
        => rules'[i].param = o
  BY <1>2 DEF Header
<1> QED
  BY <1>3, <1>4, SettingIs

\* The last step of a request that is alone leaves its host as it asked.
LEMMA LastStepConfigures ==
  ASSUME SetupsInv, Cf!Inv', NEW r \in Req \ setupOverlapped,
         NEW h \in Domain, NEW o \in Origin, NEW p \in Port \cup {Plain},
         setup[r].at # "idle", setup[r].host = h, setup[r].origin = o, setup[r].port = p,
         Cf!OwnPorts(rules)', asked' = asked, LastStep(r)
  PROVE  /\ o \notin Address => record'[h] = o
         /\ {"cache", "rate"} \subseteq rulesets' /\ ssl'
         /\ asked[h] = {p} => Cf!Setting("set_origin_port", h)' = {p} \ {Plain}
         /\ /\ setupAnswer'[r] = "ok"
            /\ \E i \in DOMAIN rules' : Cf!Indices(rules', Cf!HeaderRef(h)) = {i}
            => Cf!Setting("set_origin_host_header", h)' = {o}
<1>1. May(r, "header")
  BY SetupUnderWay DEF LastStep
<1>2. rules' \in Seq(Cf!RuleType) /\ Cf!OwnHosts(rules')
  BY DEF Cf!Inv, Cf!TypeOK, Cf!OwnHosts
<1>3. Cf!OwnPorts(rules')
  BY DEF Cf!OwnPorts
<1>4. asked[h] = {p} => Cf!Setting("set_origin_port", h)' = {p} \ {Plain}
  <2>1. p # Plain => \E i \in DOMAIN rules' : rules'[i].ref = Cf!PortRef(p) /\ h \in rules'[i].hosts
    BY <1>1 DEF May
  <2> QED
    BY <1>2, <1>3, <2>1, PortSetting
<1>5. ASSUME setupAnswer'[r] = "ok",
             \E i \in DOMAIN rules' : Cf!Indices(rules', Cf!HeaderRef(h)) = {i}
      PROVE  Cf!Setting("set_origin_host_header", h)' = {o}
  <2>1. PICK k \in DOMAIN rules' : /\ rules'[k].ref = Cf!HeaderRef(h)
                                   /\ rules'[k].param = o /\ h \in rules'[k].hosts
    BY <1>5 DEF LastStep, HeaderSet
  <2> QED
    BY <1>2, <1>5, <2>1, HeaderSetting
<1> QED
  BY <1>1, <1>4, <1>5 DEF May

\* Only its own step ends a request.
LEMMA EndOfSetup ==
  ASSUME SetupsInv, Cf!Next, NEW r \in Req, setup[r].at # "idle", setup'[r].at = "idle"
  PROVE  SetupOutcome(r)
<1>1. setup \in [Req -> Cf!ReqType]
  BY SetupUnderWay
<1>2. ASSUME NEW q \in Req, NEW h, NEW o, NEW p, Cf!PostServerDomain(q, h, o, p)
      PROVE  FALSE
  <2>1. setup[q].at = "idle" /\ setup'[r] = setup[r]
    BY <1>1, <1>2 DEF Cf!PostServerDomain
  <2> QED
    BY <2>1
<1>3. PICK q \in Req : SetupOutcome(q)
  BY <1>2, SetupSteps, SetupStepOutcome
<1>4. q = r
  BY <1>3 DEF SetupOutcome, SetupGrows
<1> QED
  BY <1>3, <1>4

\* A request that succeeds alone has set its host up as it asked.
THEOREM SuccessLeavesHostSet == Cf!Spec => SuccessIsConfigured
<1>1. SetupsInv /\ Cf!Inv' /\ [Cf!Next]_(Cf!vars) =>
        [\A r \in Req \ setupOverlapped, h \in Domain, o \in Origin, p \in Port \cup {Plain} :
           /\ setup[r].host = h /\ setup[r].origin = o /\ setup[r].port = p
           /\ setup'[r].at = "idle" /\ setupAnswer'[r] # "error"
           => /\ o \notin Address => record'[h] = o
              /\ {"cache", "rate"} \subseteq rulesets' /\ ssl'
              /\ asked[h] = {p} => Cf!Setting("set_origin_port", h)' = {p} \ {Plain}
              /\ setupAnswer'[r] = "ok"
                 /\ (\E i \in DOMAIN rules' : Cf!Indices(rules', Cf!HeaderRef(h)) = {i}) =>
                   Cf!Setting("set_origin_host_header", h)' = {o}]_(Cf!vars)
  <2> SUFFICES ASSUME SetupsInv, Cf!Inv', Cf!Next, NEW r \in Req \ setupOverlapped,
                      NEW h \in Domain, NEW o \in Origin, NEW p \in Port \cup {Plain},
                      setup[r].host = h, setup[r].origin = o, setup[r].port = p,
                      setup'[r].at = "idle", setupAnswer'[r] # "error"
               PROVE  /\ o \notin Address => record'[h] = o
                      /\ {"cache", "rate"} \subseteq rulesets' /\ ssl'
                      /\ asked[h] = {p} => Cf!Setting("set_origin_port", h)' = {p} \ {Plain}
                      /\ /\ setupAnswer'[r] = "ok"
                         /\ \E i \in DOMAIN rules' : Cf!Indices(rules', Cf!HeaderRef(h)) = {i}
                         => Cf!Setting("set_origin_host_header", h)' = {o}
    OBVIOUS
  <2>1. setup[r].at # "idle"
    <3>1. None \notin Domain /\ Cf!Idle.host = None
      BY SupplyAssumption DEF Cf!RulesAssumption, Cf!Idle
    <3> QED
      BY <3>1, SetupFacts DEF SetupsInv, Cf!Inv
  <2>2. SetupOutcome(r)
    BY <2>1, EndOfSetup
  <2>3. LastStep(r) /\ Cf!OwnPorts(rules)' /\ asked' = asked
    BY <2>2 DEF SetupOutcome, SetupGrows
  <2>4. o \notin Address => record'[h] = o
    BY <2>1, <2>3, LastStepConfigures
  <2>5. {"cache", "rate"} \subseteq rulesets' /\ ssl'
    BY <2>1, <2>3, LastStepConfigures
  <2>6. asked[h] = {p} => Cf!Setting("set_origin_port", h)' = {p} \ {Plain}
    BY <2>1, <2>3, LastStepConfigures
  <2>7. /\ setupAnswer'[r] = "ok"
        /\ \E i \in DOMAIN rules' : Cf!Indices(rules', Cf!HeaderRef(h)) = {i}
        => Cf!Setting("set_origin_host_header", h)' = {o}
    BY <2>1, <2>3, LastStepConfigures
  <2> QED
    BY <2>4, <2>5, <2>6, <2>7
<1> QED
  BY <1>1, RequestsAreRight, RulesAreShared, PTL
     DEF Cf!Spec, SuccessIsConfigured, Cf!SuccessIsConfigured

\* At the CDNs and at cloudflare.
THEOREM SuppliersAreKept == Cdns!Spec /\ Cf!Spec => []SuppliersInv
  BY CallsAreRight, RequestsAreRight, PTL DEF SuppliersInv, CallsInv, SetupsInv
==============================================================================
