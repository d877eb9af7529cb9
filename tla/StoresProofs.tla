----------------------------- MODULE StoresProofs -----------------------------
(***************************************************************************)
(* Theorems about the caches of statistics (StatCache) for any requests    *)
(* and any number of periods, and about the archive of log files           *)
(* (LogArchive) for any workers, queue, days, crashes and failures.        *)
(***************************************************************************)
EXTENDS Stores, SequenceTheorems, TLAPS

(***************************************************************************)
(* The caches of statistics (StatCache).                                   *)
(***************************************************************************)
LEMMA MaxPeriodNat == MaxPeriod \in Nat
  BY StoresAssumption DEF Stat!CacheAssumption

\* The locks of a map: of those that take them, one writes or many read.
Locked(c) ==
  /\ Stat!Storing(c) # {} => Stat!Reading(c) = {} /\ ~Stat!Clearing(c)
  /\ Stat!Clearing(c) => Stat!Reading(c) = {}
  /\ \A r, s \in Stat!Storing(c) : r = s

LEMMA LockedIsNoRace == \A c \in Stat!Cache : Locked(c) =>
  (Stat!Races(c) => c = "day" /\ Stat!InMap # {})
<1> SUFFICES ASSUME NEW c \in Stat!Cache, Locked(c), ~(c = "day" /\ Stat!InMap # {})
             PROVE  ~Stat!Races(c)
  OBVIOUS
<1> DEFINE store == {<<"store", r>> : r \in Stat!Storing(c)}
           clear == {<<"clear", t>> : t \in {c} \cap Stat!Cleared}
           domain == {<<"domain", p>> : p \in IF c = "day" THEN Stat!InMap ELSE {}}
<1>1. domain = {}
  OBVIOUS
<1>2. store # {} => clear = {} /\ Stat!Reading(c) = {}
  BY DEF Locked, Stat!Cleared
<1>3. clear # {} => Stat!Reading(c) = {}
  BY DEF Locked, Stat!Cleared
<1>4. /\ \A v, w \in store : v = w
      /\ \A v, w \in clear : v = w
  BY DEF Locked
<1>5. \A v, w \in store \cup clear \cup domain : v = w
  BY <1>1, <1>2, <1>4
<1>6. \A w \in store \cup clear \cup domain : Stat!Reading(c) = {}
  BY <1>1, <1>2, <1>3
<1>7. Stat!Races(c) <=> \E w \in store \cup clear \cup domain :
        store \cup clear \cup domain # {w} \/ Stat!Reading(c) # {}
  BY DEF Stat!Races
<1> HIDE DEF store, clear, domain
<1> QED
  BY <1>5, <1>6, <1>7

AllLocked == \A c \in Stat!Cache : Locked(c)

LEMMA RacesInv == AllLocked => Stat!RacesOnlyWithProvisioning
  BY LockedIsNoRace DEF AllLocked, Locked, Stat!RacesOnlyWithProvisioning

LEMMA RacesInvNext == AllLocked' => Stat!RacesOnlyWithProvisioning'
  BY RacesInv, PTL

LEMMA StatLocked == StatInv => \A c \in Stat!Cache : Locked(c)
  BY DEF StatInv, Stat!Inv, Stat!RacesOnlyWithProvisioning, Locked

LEMMA StatReader ==
  ASSUME Stat!TypeOK, NEW r \in Reader
  PROVE  /\ reader \in [Reader -> [at : {"idle", "lookup", "query", "answered", "store"},
                                   c : Stat!Cache, v : 0..MaxPeriod]]
         /\ reader[r].c \in Stat!Cache /\ reader[r].v \in 0..MaxPeriod
         /\ reader[r].at \in {"idle", "lookup", "query", "answered", "store"}
         /\ reader[r].v <= period[reader[r].c]
         /\ reader[r] = [at |-> reader[r].at, c |-> reader[r].c, v |-> reader[r].v]
  BY DEF Stat!TypeOK

\* A request goes on to look something up, or to wait for the database, or is
\* at its end: the caches stay as they are.
LEMMA ReaderInv ==
  ASSUME StatInv, NEW r \in Reader, NEW at \in {"idle", "lookup", "query", "answered", "store"},
         NEW c \in Stat!Cache, NEW v \in 0..period[c],
         reader' = [reader EXCEPT ![r] = [at |-> at, c |-> c, v |-> v]],
         at = "lookup" => Stat!CanRead(c), at = "store" => Stat!CanWrite(c),
         UNCHANGED <<cached, period, task, prov>>, fatal' \in BOOLEAN
  PROVE  StatInv'
<1>1. Stat!TypeOK /\ Stat!GoneByTheNextClearing /\ period[c] \in 0..MaxPeriod
  BY DEF StatInv, Stat!Inv, Stat!TypeOK
<1>2. /\ \A q \in Reader : reader'[q] = IF q = r THEN [at |-> at, c |-> c, v |-> v] ELSE reader[q]
      /\ v \in 0..MaxPeriod /\ v <= period[c]
      /\ reader' \in [Reader -> [at : {"idle", "lookup", "query", "answered", "store"},
                                 c : Stat!Cache, v : 0..MaxPeriod]]
  BY <1>1, MaxPeriodNat DEF Stat!TypeOK
<1>3. Stat!TypeOK'
  BY <1>1, <1>2 DEF Stat!TypeOK
<1>4. Stat!GoneByTheNextClearing'
  BY <1>1 DEF Stat!GoneByTheNextClearing
<1>5. ASSUME NEW k \in Stat!Cache
      PROVE  Locked(k)'
  <2>1. Locked(k)
    BY StatLocked
  <2>2. Stat!Clearing(k)' = Stat!Clearing(k)
    BY DEF Stat!Clearing
  <2>3. /\ Stat!Storing(k)' \subseteq Stat!Storing(k) \cup (IF at = "store" /\ k = c THEN {r} ELSE {})
        /\ Stat!Reading(k)' \subseteq Stat!Reading(k) \cup (IF at = "lookup" /\ k = c THEN {r} ELSE {})
    BY <1>2 DEF Stat!Storing, Stat!Reading
  <2> QED
    BY <2>1, <2>2, <2>3 DEF Locked, Stat!CanRead, Stat!CanWrite
<1> QED
  BY <1>3, <1>4, <1>5, RacesInvNext DEF StatInv, Stat!Inv, AllLocked

LEMMA LookupInv ==
  ASSUME StatInv, NEW r \in Reader, NEW c \in Stat!Cache, Stat!Lookup(r, c)
  PROVE  StatInv'
<1>1. Stat!CanRead(c) /\ UNCHANGED <<cached, period, task, prov>> /\ fatal' \in BOOLEAN
      /\ reader' = [reader EXCEPT ![r] = [at |-> "lookup", c |-> c, v |-> 0]]
  BY DEF Stat!Lookup, Stat!Detected
<1>2. 0 \in 0..period[c]
  BY MaxPeriodNat DEF StatInv, Stat!Inv, Stat!TypeOK
<1> QED
  BY <1>1, <1>2, ReaderInv

\* The steps of a request that only move it on.
LEMMA MovesInv ==
  ASSUME StatInv, NEW r \in Reader,
         \/ Stat!LookedUp(r) \/ Stat!Query(r) \/ Stat!Store(r) \/ Stat!GetServerStatsByAppDay(r)
  PROVE  StatInv'
<1> DEFINE c == reader[r].c  v == reader[r].v
           Moved(at, k, u) == reader' = [reader EXCEPT ![r] = [at |-> at, c |-> k, v |-> u]]
<1>1. /\ Stat!TypeOK /\ fatal \in BOOLEAN /\ c \in Stat!Cache /\ "hour" \in Stat!Cache
      /\ reader[r] = [at |-> reader[r].at, c |-> c, v |-> v]
      /\ reader[r].at \in {"idle", "lookup", "query", "answered", "store"}
  BY StatReader DEF StatInv, Stat!Inv, Stat!TypeOK, Stat!Cache
<1>2. /\ period[c] \in Nat /\ period["hour"] \in Nat /\ v \in 0..period[c]
      /\ 0 \in 0..period["hour"] /\ period[c] \in 0..period[c]
  <2>1. period[c] \in 0..MaxPeriod /\ period["hour"] \in 0..MaxPeriod
    BY <1>1 DEF Stat!TypeOK
  <2> QED
    BY <1>1, <2>1, StatReader, MaxPeriodNat
<1>3. Stat!Idle = [at |-> "idle", c |-> "hour", v |-> 0]
  BY DEF Stat!Idle
<1>4. CASE Stat!LookedUp(r)
  <2>1. Moved("idle", "hour", 0) \/ Moved("query", c, v)
    BY <1>1, <1>3, <1>4 DEF Stat!LookedUp, Stat!Becomes
  <2> QED
    BY <1>1, <1>2, <1>4, <2>1, ReaderInv DEF Stat!LookedUp
<1>5. CASE Stat!Query(r)
  <2>1. Moved("idle", "hour", 0) \/ Moved("answered", c, period[c])
    BY <1>1, <1>3, <1>5 DEF Stat!Query
  <2> QED
    BY <1>1, <1>2, <1>5, <2>1, ReaderInv DEF Stat!Query
<1>6. CASE Stat!Store(r)
  <2>1. Moved("store", c, v) /\ Stat!CanWrite(c) /\ fatal' \in BOOLEAN
    <3>1. reader' = [reader EXCEPT ![r].at = "store"] /\ Stat!CanWrite(c)
      BY <1>6 DEF Stat!Store, Stat!Becomes
    <3>2. fatal' \in BOOLEAN
      BY <1>6 DEF Stat!Store, Stat!Detected
    <3>3. [reader[r] EXCEPT !.at = "store"] = [at |-> "store", c |-> c, v |-> v]
      BY <1>1
    <3> QED
      BY <3>1, <3>2, <3>3
  <2> QED
    BY <1>1, <1>2, <1>6, <2>1, ReaderInv DEF Stat!Store
<1>7. CASE Stat!GetServerStatsByAppDay(r)
  BY <1>1, <1>2, <1>3, <1>7, ReaderInv DEF Stat!GetServerStatsByAppDay
<1> QED
  BY <1>4, <1>5, <1>6, <1>7

\* The caches, what the database says, or the tasks change; nobody takes a lock
\* but a task that empties a cache.
LEMMA CachesInv ==
  ASSUME StatInv, Stat!TypeOK', Stat!GoneByTheNextClearing',
         \A c \in Stat!Cache : Stat!Storing(c)' \subseteq Stat!Storing(c),
         \A c \in Stat!Cache : Stat!Reading(c)' \subseteq Stat!Reading(c),
         \A c \in Stat!Cache : Stat!Clearing(c)' => Stat!Clearing(c) \/ Stat!CanWrite(c)
  PROVE  StatInv'
<1>1. ASSUME NEW c \in Stat!Cache
      PROVE  Locked(c)'
  <2>1. Locked(c)
    BY StatLocked
  <2> QED
    BY <2>1 DEF Locked, Stat!CanRead, Stat!CanWrite
<1> QED
  BY <1>1, RacesInvNext DEF StatInv, Stat!Inv, AllLocked

LEMMA StoredInv ==
  ASSUME StatInv, NEW r \in Reader, Stat!Stored(r)
  PROVE  StatInv'
<1> DEFINE c == reader[r].c  v == reader[r].v  lag == period[c] - v
<1>1. /\ Stat!TypeOK /\ Stat!GoneByTheNextClearing
      /\ cached' = [cached EXCEPT ![c] = [v |-> v, lag |-> lag]]
      /\ reader' = [reader EXCEPT ![r] = Stat!Idle] /\ UNCHANGED <<period, task, prov, fatal>>
  BY DEF StatInv, Stat!Inv, Stat!Stored
<1>2. /\ c \in Stat!Cache /\ v \in 0..MaxPeriod /\ period[c] \in 0..MaxPeriod
      /\ v <= period[c] /\ lag \in 0..MaxPeriod /\ v + lag = period[c]
  <2>1. period[c] \in 0..MaxPeriod
    BY <1>1, StatReader DEF Stat!TypeOK
  <2>2. c \in Stat!Cache /\ v \in 0..MaxPeriod /\ v <= period[c]
    BY <1>1, StatReader
  <2> QED
    BY <2>1, <2>2, MaxPeriodNat
<1>3. \A k \in Stat!Cache : cached'[k] = IF k = c THEN [v |-> v, lag |-> lag] ELSE cached[k]
  BY <1>1, <1>2 DEF Stat!TypeOK
<1> HIDE DEF lag
<1>4. Stat!TypeOK'
  <2>1. \A k \in Stat!Cache : cached'[k] # None => cached'[k].v + cached'[k].lag <= period[k]
    BY <1>1, <1>2, <1>3 DEF Stat!TypeOK
  <2>2. /\ Stat!Idle \in [at : {"idle", "lookup", "query", "answered", "store"},
                           c : Stat!Cache, v : 0..MaxPeriod]
        /\ Stat!Idle.v = 0 /\ period[Stat!Idle.c] \in 0..MaxPeriod
    BY <1>1, MaxPeriodNat DEF Stat!Idle, Stat!TypeOK, Stat!Cache
  <2>3. \A q \in Reader : reader'[q].v <= period[reader'[q].c]
    BY <1>1, <2>2, MaxPeriodNat DEF Stat!TypeOK
  <2>4. reader' \in [Reader -> [at : {"idle", "lookup", "query", "answered", "store"},
                               c : Stat!Cache, v : 0..MaxPeriod]]
    BY <1>1, <2>2 DEF Stat!TypeOK
  <2>5. cached' \in [Stat!Cache -> [v : 0..MaxPeriod, lag : 0..MaxPeriod] \cup {None}]
    BY <1>1, <1>2 DEF Stat!TypeOK
  <2> QED
    BY <1>1, <2>1, <2>3, <2>4, <2>5 DEF Stat!TypeOK
<1>5. Stat!GoneByTheNextClearing'
  BY <1>1, <1>2, <1>3 DEF Stat!GoneByTheNextClearing
<1>6. /\ \A k \in Stat!Cache : Stat!Storing(k)' \subseteq Stat!Storing(k)
      /\ \A k \in Stat!Cache : Stat!Reading(k)' \subseteq Stat!Reading(k)
      /\ \A k \in Stat!Cache : Stat!Clearing(k)' => Stat!Clearing(k) \/ Stat!CanWrite(k)
  BY <1>1 DEF Stat!Storing, Stat!Reading, Stat!Clearing, Stat!Idle, Stat!TypeOK
<1> QED
  BY <1>4, <1>5, <1>6, CachesInv

LEMMA TasksInv ==
  ASSUME StatInv, Stat!TaskHour \/ Stat!TaskDay \/ Stat!NewDay
  PROVE  StatInv'
<1>1. /\ Stat!TypeOK /\ Stat!GoneByTheNextClearing /\ UNCHANGED <<reader, prov>>
      /\ fatal \in BOOLEAN /\ fatal' \in BOOLEAN
  BY DEF StatInv, Stat!Inv, Stat!TypeOK, Stat!TaskHour, Stat!TaskDay, Stat!NewDay, Stat!ClearOf,
         Stat!TaskHourEmpties, Stat!TaskHourDeletes, Stat!ServerStatTjHour, Stat!TaskDayEmpties,
         Stat!Detected
<1>2. /\ \A c \in Stat!Cache : Stat!Storing(c)' \subseteq Stat!Storing(c)
      /\ \A c \in Stat!Cache : Stat!Reading(c)' \subseteq Stat!Reading(c)
  BY <1>1 DEF Stat!Storing, Stat!Reading
<1>t. /\ task \in [Stat!Cache -> {"idle", "clear", "delete", "compute", "done"}]
      /\ cached \in [Stat!Cache -> [v : 0..MaxPeriod, lag : 0..MaxPeriod] \cup {None}]
      /\ period \in [Stat!Cache -> 0..MaxPeriod]
  BY <1>1 DEF Stat!TypeOK
<1>3. ASSUME NEW c \in Stat!Cache, Stat!ClearOf(c)
      PROVE  StatInv'
  <2>1. /\ \A k \in Stat!Cache : task'[k] = IF k = c THEN "clear" ELSE task[k]
        /\ task[c] = "idle" /\ Stat!CanWrite(c) /\ UNCHANGED <<cached, period>>
    BY <1>1, <1>3 DEF Stat!ClearOf, Stat!TypeOK
  <2>2. Stat!TypeOK'
    BY <1>1, <1>3, <2>1 DEF Stat!TypeOK, Stat!ClearOf
  <2>3. Stat!GoneByTheNextClearing'
    BY <1>1, <2>1 DEF Stat!GoneByTheNextClearing
  <2> QED
    <3>1. \A k \in Stat!Cache : Stat!Clearing(k)' => Stat!Clearing(k) \/ Stat!CanWrite(k)
      BY <2>1 DEF Stat!Clearing
    <3> QED
      BY <1>2, <2>2, <2>3, <3>1, CachesInv
<1>4. ASSUME NEW c \in Stat!Cache, NEW next \in {"delete", "done"}, task[c] = "clear",
             task' = [task EXCEPT ![c] = next], cached' = [cached EXCEPT ![c] = None],
             UNCHANGED period
      PROVE  StatInv'
  <2>1. \A k \in Stat!Cache : /\ task'[k] = IF k = c THEN next ELSE task[k]
                              /\ cached'[k] = IF k = c THEN None ELSE cached[k]
    BY <1>4, <1>t
  <2>2. Stat!TypeOK'
    BY <1>1, <1>4, <2>1 DEF Stat!TypeOK
  <2>3. Stat!GoneByTheNextClearing'
    BY <1>1, <1>4, <2>1 DEF Stat!GoneByTheNextClearing
  <2> QED
    <3>1. \A k \in Stat!Cache : Stat!Clearing(k)' => Stat!Clearing(k) \/ Stat!CanWrite(k)
      BY <2>1 DEF Stat!Clearing
    <3> QED
      BY <1>2, <2>2, <2>3, <3>1, CachesInv
<1>5. ASSUME NEW c \in Stat!Cache, NEW next \in {"idle", "compute"},
             task[c] \in {"delete", "compute", "done"}, task' = [task EXCEPT ![c] = next],
             \/ period' = period
             \/ next = "idle" /\ period[c] < MaxPeriod /\ period' = [period EXCEPT ![c] = @ + 1],
             UNCHANGED cached
      PROVE  StatInv'
  <2>1. \A k \in Stat!Cache : /\ task'[k] = IF k = c THEN next ELSE task[k]
                              /\ \/ period'[k] = period[k]
                                 \/ k = c /\ next = "idle" /\ period'[k] = period[k] + 1
                              /\ period[k] \in 0..MaxPeriod
    BY <1>5, <1>t
  <2>2. \A k \in Stat!Cache : period'[k] \in 0..MaxPeriod /\ period[k] <= period'[k]
    BY <1>1, <1>5, <2>1, MaxPeriodNat DEF Stat!TypeOK
  <2>3. Stat!TypeOK'
    <3>1. ASSUME NEW k \in Stat!Cache, cached[k] # None
          PROVE  cached[k].v + cached[k].lag <= period'[k]
      <4>1. /\ cached[k].v \in 0..MaxPeriod /\ cached[k].lag \in 0..MaxPeriod
            /\ cached[k].v + cached[k].lag <= period[k]
        BY <1>1, <3>1 DEF Stat!TypeOK
      <4>2. /\ period[k] \in 0..MaxPeriod /\ period'[k] \in 0..MaxPeriod
            /\ period[k] <= period'[k]
        BY <2>1, <2>2
      <4> QED
        BY <4>1, <4>2, MaxPeriodNat
    <3>2. ASSUME NEW q \in Reader
          PROVE  reader[q].v <= period'[reader[q].c]
      <4>1. /\ reader[q].c \in Stat!Cache /\ reader[q].v \in 0..MaxPeriod
            /\ reader[q].v <= period[reader[q].c]
        BY <1>1, StatReader
      <4>2. /\ period[reader[q].c] \in 0..MaxPeriod /\ period'[reader[q].c] \in 0..MaxPeriod
            /\ period[reader[q].c] <= period'[reader[q].c]
        BY <2>1, <2>2, <4>1
      <4> QED
        BY <4>1, <4>2, MaxPeriodNat
    <3> QED
      BY <1>1, <1>5, <2>2, <3>1, <3>2 DEF Stat!TypeOK
  <2>4. Stat!GoneByTheNextClearing'
    <3> SUFFICES ASSUME NEW k \in Stat!Cache, cached[k] # None
                 PROVE  \/ period'[k] = cached[k].v + cached[k].lag
                        \/ /\ period'[k] = cached[k].v + cached[k].lag + 1
                           /\ task'[k] \in {"idle", "clear"}
      BY <1>5 DEF Stat!GoneByTheNextClearing
    <3>1. CASE k = c
      <4>1. period[k] = cached[k].v + cached[k].lag
        BY <1>1, <1>5, <3>1 DEF Stat!GoneByTheNextClearing
      <4> QED
        BY <1>5, <2>1, <3>1, <4>1
    <3>2. CASE k # c
      BY <1>1, <2>1, <3>2 DEF Stat!GoneByTheNextClearing
    <3> QED
      BY <3>1, <3>2
  <2> QED
    <3>1. \A k \in Stat!Cache : Stat!Clearing(k)' => Stat!Clearing(k) \/ Stat!CanWrite(k)
      BY <1>5, <2>1 DEF Stat!Clearing
    <3> QED
      BY <1>2, <2>3, <2>4, <3>1, CachesInv
<1>6. "hour" \in Stat!Cache /\ "day" \in Stat!Cache
  BY DEF Stat!Cache
<1>7. CASE Stat!TaskHourEmpties \/ Stat!TaskDayEmpties
  BY <1>4, <1>6, <1>7 DEF Stat!TaskHourEmpties, Stat!TaskDayEmpties
<1>8. CASE Stat!TaskHourDeletes \/ Stat!ServerStatTjHour \/ Stat!NewDay
  BY <1>5, <1>6, <1>8 DEF Stat!TaskHourDeletes, Stat!ServerStatTjHour, Stat!NewDay
<1> QED
  BY <1>3, <1>6, <1>7, <1>8 DEF Stat!TaskHour, Stat!TaskDay

LEMMA DomainInv ==
  ASSUME StatInv, NEW p \in Prov, Stat!PostServerDomain(p)
  PROVE  StatInv'
<1>1. /\ Stat!TypeOK /\ Stat!GoneByTheNextClearing /\ UNCHANGED <<cached, period, reader, task>>
      /\ \E at \in {"idle", "in"} : prov' = [prov EXCEPT ![p] = at]
      /\ fatal' \in BOOLEAN
  BY DEF StatInv, Stat!Inv, Stat!TypeOK, Stat!PostServerDomain, Stat!Detected
<1>2. Stat!TypeOK'
  BY <1>1 DEF Stat!TypeOK
<1>3. Stat!GoneByTheNextClearing'
  BY <1>1 DEF Stat!GoneByTheNextClearing
<1>4. /\ \A c \in Stat!Cache : Stat!Storing(c)' \subseteq Stat!Storing(c)
      /\ \A c \in Stat!Cache : Stat!Reading(c)' \subseteq Stat!Reading(c)
      /\ \A c \in Stat!Cache : Stat!Clearing(c)' => Stat!Clearing(c) \/ Stat!CanWrite(c)
  BY <1>1 DEF Stat!Storing, Stat!Reading, Stat!Clearing
<1> QED
  BY <1>2, <1>3, <1>4, CachesInv

\* An entry is gone by the next clearing after the period it was stored in; no
\* two accesses to a map of which one writes are at once, but for
\* PostServerDomain.
THEOREM CachesAreBounded == Stat!Spec => []StatInv
<1>1. Stat!Init => StatInv
  <2> SUFFICES ASSUME Stat!Init PROVE StatInv
    OBVIOUS
  <2>1. Stat!TypeOK /\ Stat!GoneByTheNextClearing
    <3>1. 0 \in 0..MaxPeriod
      BY MaxPeriodNat
    <3>2. Stat!Idle \in [at : {"idle", "lookup", "query", "answered", "store"},
                         c : Stat!Cache, v : 0..MaxPeriod] /\ Stat!Idle.v = 0
          /\ Stat!Idle.c \in Stat!Cache
      BY <3>1 DEF Stat!Idle, Stat!Cache
    <3>3. \A c \in Stat!Cache : cached[c] = None /\ period[c] = 0
      BY DEF Stat!Init
    <3>4. /\ period \in [Stat!Cache -> 0..MaxPeriod] /\ fatal \in BOOLEAN
          /\ cached \in [Stat!Cache -> [v : 0..MaxPeriod, lag : 0..MaxPeriod] \cup {None}]
          /\ task \in [Stat!Cache -> {"idle", "clear", "delete", "compute", "done"}]
          /\ prov \in [Prov -> {"idle", "in"}]
          /\ reader = [r \in Reader |-> Stat!Idle]
      BY <3>1 DEF Stat!Init
    <3>5. \A r \in Reader : reader[r].v <= period[reader[r].c]
      BY <3>2, <3>3, <3>4
    <3>6. Stat!TypeOK
      BY <3>2, <3>3, <3>4, <3>5 DEF Stat!TypeOK
    <3> QED
      BY <3>3, <3>6 DEF Stat!GoneByTheNextClearing
  <2>2. \A c \in Stat!Cache : Locked(c)
    BY DEF Stat!Init, Locked, Stat!Storing, Stat!Reading, Stat!Clearing, Stat!Idle
  <2> QED
    BY <2>1, <2>2, RacesInv DEF StatInv, Stat!Inv, AllLocked
<1>2. StatInv /\ [Stat!Next]_(Stat!vars) => StatInv'
  <2> SUFFICES ASSUME StatInv, [Stat!Next]_(Stat!vars) PROVE StatInv'
    OBVIOUS
  <2>1. CASE UNCHANGED Stat!vars
    <3>1. UNCHANGED <<cached, period, reader, task, prov, fatal>>
      BY <2>1 DEF Stat!vars
    <3>2. Stat!TypeOK' /\ Stat!GoneByTheNextClearing'
      BY <3>1 DEF StatInv, Stat!Inv, Stat!TypeOK, Stat!GoneByTheNextClearing
    <3>3. /\ \A c \in Stat!Cache : Stat!Storing(c)' \subseteq Stat!Storing(c)
          /\ \A c \in Stat!Cache : Stat!Reading(c)' \subseteq Stat!Reading(c)
          /\ \A c \in Stat!Cache : Stat!Clearing(c)' => Stat!Clearing(c) \/ Stat!CanWrite(c)
      BY <3>1 DEF Stat!Storing, Stat!Reading, Stat!Clearing
    <3> QED
      BY <3>2, <3>3, CachesInv
  <2> QED
    BY <2>1, LookupInv, MovesInv, StoredInv, TasksInv, DomainInv DEF Stat!Next
<1> QED
  BY <1>1, <1>2, PTL DEF Stat!Spec
------------------------------------------------------------------------------
(***************************************************************************)
(* The archive of log files (LogArchive).                                  *)
(***************************************************************************)
StepType == [at : Steps, d : 0..today, data : FileType \cup {None}]
DirType == [Day -> [Kind -> FileType \cup {None}]]

LEMMA Days == MaxDay \in Nat /\ MaxDay # 0 /\ MaxAge \in Nat
  BY ArchiveAssumption

LEMMA NoneIsNoFile == None \notin FileType
  BY ArchiveAssumption

LEMMA ArchiveTypes ==
  ASSUME ArchiveInv
  PROVE  /\ TypeOK /\ today \in Day /\ today \in Nat /\ 1 <= today /\ today <= MaxDay
         /\ dir \in DirType /\ worker \in [Worker -> StepType] /\ faults \in Nat
         /\ empty \subseteq Day
         /\ zip \in BOOLEAN /\ key \in BOOLEAN
  BY Days DEF ArchiveInv, TypeOK, Day, DirType, StepType

LEMMA IdleWorker ==
  /\ Idle.at = "idle" /\ Idle.d = NoDay /\ Idle.data = None
  /\ NoDay = 0
  BY DEF Idle, NoDay

LEMMA WorkerDay ==
  ASSUME ArchiveInv, NEW w \in Worker, worker[w].at # "idle"
  PROVE  /\ worker[w].d \in 1..today /\ worker[w].d \in Day /\ worker[w].d # 0
         /\ worker[w] \in StepType
<1>1. worker[w].d # 0
  BY DEF ArchiveInv, WhoArchives, NoDay
<1>2. worker[w] \in StepType /\ worker[w].d \in 0..today
  BY ArchiveTypes DEF StepType
<1> QED
  BY <1>1, <1>2, ArchiveTypes, Days DEF Day

LEMMA QueueDays ==
  ASSUME ArchiveInv
  PROVE  /\ archiveCh \in Seq(1..today) /\ Len(archiveCh) \in Nat
         /\ DOMAIN archiveCh = 1..Len(archiveCh)
         /\ \A i \in DOMAIN archiveCh : archiveCh[i] \in 1..today
<1>1. archiveCh \in Seq(1..today)
  BY DEF ArchiveInv, TypeOK
<1>2. Len(archiveCh) \in Nat /\ DOMAIN archiveCh = 1..Len(archiveCh)
  BY <1>1, LenProperties
<1>3. \A i \in 1..Len(archiveCh) : archiveCh[i] \in 1..today
  BY <1>1, ElementOfSeq
<1> QED
  BY <1>1, <1>2, <1>3

\* One file is written or removed.
OneFile(new, old, d, k, f) == new = [old EXCEPT ![d][k] = f]

LEMMA OnePut ==
  ASSUME dir \in DirType, NEW d \in Day, NEW k \in Kind, NEW f \in FileType \cup {None},
         OneFile(dir', dir, d, k, f)
  PROVE  /\ dir' \in DirType /\ \A e \in Day \ {d} : dir'[e] = dir[e]
         /\ dir'[d][k] = f /\ \A j \in Kind \ {k} : dir'[d][j] = dir[d][j]
<1>1. dir' = [dir EXCEPT ![d] = [dir[d] EXCEPT ![k] = f]]
  BY DEF OneFile
<1>2. [dir[d] EXCEPT ![k] = f] \in [Kind -> FileType \cup {None}]
  BY DEF DirType
<1>3. dir' \in DirType
  BY <1>1, <1>2 DEF DirType
<1>4. \A e \in Day \ {d} : dir'[e] = dir[e]
  BY <1>1 DEF DirType
<1>5. dir'[d] = [dir[d] EXCEPT ![k] = f]
  BY <1>1 DEF DirType
<1>6. dir'[d][k] = f /\ \A j \in Kind \ {k} : dir'[d][j] = dir[d][j]
  BY <1>5 DEF DirType
<1> QED
  BY <1>3, <1>4, <1>6

\* What LogGoesLast and ContentIsKept say of one day.
InOrder(d) ==
  /\ Has(d, "log") => dir[d]["log"].whole
  /\ Has(d, "gz") => zip
  /\ Has(d, "gz") /\ key => Has(d, "log") \/ d \in fellBack \cup stuck \cup cleaned \cup shared
Any(d) == \E k \in Kind : Has(d, k)
Kept(d) == Any(d) => Readable(d, Kind)

LEMMA DaysOfInv ==
  ArchiveInv =>
    /\ \A d \in Day : InOrder(d)
    /\ \A d \in Day \ (shared \cup cleaned) : Kept(d)
    /\ \A w \in Worker : worker[w].d \notin shared \cup cleaned => StepIsSafe(w)
  BY DEF ArchiveInv, LogGoesLast, ContentIsKept, InOrder, Kept, Any

\* A day nobody touched stays in order, and kept, whatever has been noted.
LEMMA SameDay ==
  ASSUME NEW d \in Day, dir'[d] = dir[d], UNCHANGED <<zip, key>>,
         lossy \subseteq lossy', fellBack \subseteq fellBack', stuck \subseteq stuck',
         shared \subseteq shared', cleaned \subseteq cleaned'
  PROVE  /\ InOrder(d) => InOrder(d)'
         /\ Kept(d) => Kept(d)'
         /\ \A ks \in SUBSET Kind : Readable(d, ks) => Readable(d, ks)'
         /\ \A k \in Kind : Has(d, k)' = Has(d, k)
         /\ Any(d) => Any(d)'
<1>1. \A k \in Kind : Has(d, k)' = Has(d, k)
  BY DEF Has
<1>2. \A ks \in SUBSET Kind : Readable(d, ks) => Readable(d, ks)'
  BY <1>1 DEF Readable
<1>3. Any(d)' = Any(d)
  BY <1>1 DEF Any
<1>4. "log" \in Kind /\ "gz" \in Kind
  BY DEF Kind
<1>5. InOrder(d) => InOrder(d)'
  BY <1>1, <1>4 DEF InOrder
<1> QED
  BY <1>1, <1>2, <1>3, <1>5 DEF Kept

\* A goroutine whose day nobody touched is as safe as before.
LEMMA SameStep ==
  ASSUME NEW w, NEW d \in Day, d = worker[w].d, worker'[w] = worker[w], dir'[d] = dir[d],
         UNCHANGED <<zip, key>>, lossy \subseteq lossy', fellBack \subseteq fellBack',
         stuck \subseteq stuck', shared \subseteq shared', cleaned \subseteq cleaned',
         StepIsSafe(w)
  PROVE  StepIsSafe(w)'
<1>1. /\ \A ks \in SUBSET Kind : Readable(d, ks) => Readable(d, ks)'
      /\ \A k \in Kind : Has(d, k)' = Has(d, k)
  BY SameDay
<1>2. /\ "log" \in Kind /\ "gz" \in Kind
      /\ {"gz"} \in SUBSET Kind /\ {"enc"} \in SUBSET Kind /\ {"gz", "enc"} \in SUBSET Kind
  BY DEF Kind
<1> QED
  BY <1>1, <1>2 DEF StepIsSafe

LEMMA IdleIsSafeNext ==
  ASSUME NEW w, worker'[w].at = "idle"
  PROVE  StepIsSafe(w)'
  BY DEF StepIsSafe

\* A goroutine that archives goes on, or ends, and touches no file but those of
\* its day: what it must see to.
LEMMA FileStepInv ==
  ASSUME ArchiveInv, NEW w \in Worker, NEW d, d = worker[w].d, worker[w].at # "idle",
         NEW new, new \in StepType, worker' = [worker EXCEPT ![w] = new],
         \/ new = Idle
         \/ /\ new.at # "idle" /\ new.d = d
            /\ new.at \in {"open", "create", "copy", "removeGz"} => zip
            /\ new.at \in {"read", "write", "removeGz"} => key
            /\ new.at = "write" => new.data # None,
         dir' \in DirType, \A e \in Day \ {d} : dir'[e] = dir[e],
         \A k \in Kind : Has(d, k)' => dir'[d][k].made \in d..today,
         InOrder(d)', d \notin shared \cup cleaned => Kept(d)' /\ StepIsSafe(w)',
         UNCHANGED <<zip, key, today, process, current, todo, archiveCh, empty, shared, cleaned>>,
         lossy \subseteq lossy', fellBack \subseteq fellBack', stuck \subseteq stuck',
         \/ UNCHANGED <<faults, failedStart>>
         \/ faults' = faults + 1 /\ failedStart' = TRUE,
         failedStart' \/ new.d = d \/ ~Has(d, "log")' \/ HoldsNothing(d)
  PROVE  ArchiveInv'
<1>1. /\ TypeOK /\ WhoArchives /\ SharedIsNoted /\ LogGoesLast
      /\ ContentIsKept /\ SharedAfterFailure /\ StartHasAll
  BY DEF ArchiveInv
<1>2. /\ d \in Day /\ d \in 1..today /\ d # 0 /\ worker \in [Worker -> StepType]
      /\ faults \in Nat /\ today \in Nat
  BY WorkerDay, ArchiveTypes
<1>3. /\ worker' \in [Worker -> StepType] /\ worker'[w] = new
      /\ \A v \in Worker \ {w} : worker'[v] = worker[v]
  BY <1>2
<1>4. new.d \in {d, 0} /\ (new.at = "idle" <=> new = Idle) /\ (new.at = "idle" <=> new.d = 0)
  BY <1>2, IdleWorker
<1>5. TypeOK'
  <2>1. faults' \in Nat /\ failedStart' \in BOOLEAN
    <3>1. faults' \in Nat
      BY <1>2
    <3>2. failedStart \in BOOLEAN
      BY <1>1 DEF TypeOK
    <3>3. failedStart' = failedStart \/ failedStart' = TRUE
      OBVIOUS
    <3> QED
      BY ONLY <3>1, <3>2, <3>3
  <2>2. \A e \in Day, k \in Kind : Has(e, k)' => dir'[e][k].made \in e..today
    BY <1>1 DEF TypeOK, Has
  <2> QED
    BY <1>1, <1>3, <2>1, <2>2 DEF TypeOK, DirType, StepType
<1>6. WhoArchives'
  <2>1. process = (IF w = Main THEN "start" ELSE "up")
    BY <1>1, IdleWorker DEF WhoArchives
  <2>2. ASSUME NEW v \in Worker
        PROVE  /\ worker'[v].at = "idle" <=> worker'[v] = Idle
               /\ worker'[v].at = "idle" <=> worker'[v].d = NoDay
               /\ worker'[v].at \in {"open", "create", "copy", "removeGz"} => zip
               /\ worker'[v].at \in {"read", "write", "removeGz"} => key
               /\ worker'[v].at = "write" => worker'[v].data # None
               /\ process = (IF v = Main THEN "start" ELSE "up") \/ worker'[v] = Idle
    <3>1. CASE v = w
      BY <1>3, <1>4, <2>1, <3>1, IdleWorker
    <3>2. CASE v # w
      BY <1>1, <1>3, <3>2 DEF WhoArchives
    <3> QED
      BY <3>1, <3>2
  <2>3. process' = "up" \/ archiveCh' = <<>>
    BY <1>1 DEF WhoArchives
  <2>4. Idle' = Idle /\ NoDay' = NoDay
    BY DEF Idle, NoDay
  <2> QED
    BY <2>2, <2>3, <2>4 DEF WhoArchives
<1>7. SharedIsNoted'
  BY <1>1, <1>3, <1>4, IdleWorker DEF SharedIsNoted, NoDay
<1>8. LogGoesLast'
  <2>1. ASSUME NEW e \in Day
        PROVE  InOrder(e)'
    <3>1. CASE e # d
      BY <3>1, DaysOfInv, SameDay
    <3> QED
      BY <3>1
  <2> QED
    BY <2>1 DEF LogGoesLast, InOrder
<1>9. ContentIsKept'
  <2>1. ASSUME NEW e \in Day \ (shared \cup cleaned)
        PROVE  Kept(e)'
    <3>1. CASE e # d
      BY <2>1, <3>1, DaysOfInv, SameDay
    <3>2. CASE e = d
      BY <2>1, <3>2
    <3> QED
      BY <3>1, <3>2
  <2>2. ASSUME NEW v \in Worker, worker'[v].d \notin shared \cup cleaned
        PROVE  StepIsSafe(v)'
    <3>1. CASE v = w /\ new = Idle
      BY <1>3, <3>1, IdleWorker, IdleIsSafeNext
    <3>2. CASE v = w /\ new # Idle
      BY <1>3, <2>2, <3>2
    <3>3. CASE v # w /\ worker[v].at = "idle"
      BY <1>3, <3>3, IdleIsSafeNext
    <3>4. CASE v # w /\ worker[v].at # "idle"
      <4> DEFINE e == worker[v].d
      <4>1. e \in Day /\ e # 0 /\ worker'[v] = worker[v]
        BY <1>3, <3>4, WorkerDay
      <4>2. e # d
        BY <1>1, <2>2, <3>4, <4>1 DEF SharedIsNoted, NoDay
      <4>3. StepIsSafe(v)
        BY <2>2, <4>1, DaysOfInv
      <4> QED
        BY <4>1, <4>2, <4>3, SameStep
    <3> QED
      BY <3>1, <3>2, <3>3, <3>4
  <2> QED
    BY <2>1, <2>2 DEF ContentIsKept, Kept, Any
<1>10. SharedAfterFailure'
  <2> SUFFICES ASSUME faults' = 0
               PROVE  /\ shared = {}
                      /\ process = "down" \/ current # NoDay
                      /\ \A j \in DOMAIN archiveCh :
                           /\ archiveCh[j] < current
                           /\ \A k \in DOMAIN archiveCh : archiveCh[j] = archiveCh[k] => j = k
                           /\ \A v \in Worker : worker'[v].d # archiveCh[j]
                      /\ process = "up" => \A v \in Worker : worker'[v].d < current
    BY DEF SharedAfterFailure, NoDay
  <2>1. faults = 0
    BY <1>2
  <2>2. \A j \in DOMAIN archiveCh : archiveCh[j] # 0
    BY <1>2, QueueDays
  <2>3. process = "up" => 0 < current
    <3>1. current \in Nat /\ (process = "up" => current # 0)
      BY <1>1, <1>2, <2>1 DEF TypeOK, SharedAfterFailure, NoDay
    <3> QED
      BY <3>1
  <2> QED
    BY <1>1, <1>3, <1>4, <2>1, <2>2, <2>3 DEF SharedAfterFailure
<1>11. StartHasAll'
  <2> SUFFICES ASSUME process = "start", ~failedStart'
               PROVE  /\ current = today
                      /\ zip \/ key => \A e \in 1..(today - 1) :
                           Has(e, "log")' => e \in todo \cup {worker'[Main].d} \/ HoldsNothing(e)
    BY DEF StartHasAll, HoldsNothing
  <2>1. ~failedStart /\ w = Main /\ "log" \in Kind
    BY <1>1, IdleWorker DEF WhoArchives, Kind
  <2>2. ASSUME NEW e \in 1..(today - 1), Has(e, "log")', zip \/ key
        PROVE  e \in todo \cup {worker'[Main].d} \/ HoldsNothing(e)
    <3>1. CASE e = d
      BY <1>3, <2>1, <2>2, <3>1
    <3>2. CASE e # d
      <4>1. e \in Day
        BY <1>1, <1>2, Days DEF TypeOK, Day
      <4>2. Has(e, "log")
        BY <2>1, <2>2, <3>2, <4>1 DEF Has
      <4> QED
        BY <1>1, <2>1, <2>2, <3>2, <4>2 DEF StartHasAll
    <3> QED
      BY <3>1, <3>2
  <2> QED
    BY <1>1, <2>1, <2>2 DEF StartHasAll
<1> QED
  BY <1>5, <1>6, <1>7, <1>8, <1>9, <1>10, <1>11 DEF ArchiveInv

\* What every step of archiveFile has in common: it is that of a goroutine
\* with a day, and either works or is a failure of the start.
LEMMA StepFacts ==
  ASSUME ArchiveInv, NEW w \in Worker, NEW d, d = worker[w].d, archiveFile(w)
  PROVE  /\ worker[w].at # "idle" /\ d \in Day /\ d \in 1..today /\ worker[w] \in StepType
         /\ UNCHANGED <<zip, key, today, process, current, todo, archiveCh, empty, shared, cleaned>>
         /\ lossy \subseteq lossy' /\ fellBack \subseteq fellBack' /\ stuck \subseteq stuck'
         /\ \/ UNCHANGED <<faults, failedStart>>
            \/ faults' = faults + 1 /\ failedStart' = TRUE
         /\ InOrder(d) /\ (d \notin shared \cup cleaned => Kept(d) /\ StepIsSafe(w))
         /\ dir \in DirType /\ (\A k \in Kind : Has(d, k) => dir[d][k].made \in d..today)
         /\ today \in d..today /\ Kind = {"log", "gz", "enc"} /\ None \notin FileType
         /\ \A b \in BOOLEAN : File(b) \in FileType /\ File(b).whole = b /\ File(b).made = today
<1>1. worker[w].at # "idle"
  BY DEF archiveFile, compressAndEncrypt, encryptFile, openLog, createGz, copyGz, readPlain,
         writeEnc, removePlain
<1>2. UNCHANGED <<zip, key, today, process, current, todo, archiveCh, empty, shared, cleaned>>
  BY DEF archiveFile, compressAndEncrypt, encryptFile, openLog, createGz, copyGz, readPlain,
         writeEnc, removePlain, Remove, aside, mode, queue
<1>3. lossy \subseteq lossy' /\ fellBack \subseteq fellBack' /\ stuck \subseteq stuck'
  BY DEF archiveFile, compressAndEncrypt, encryptFile, openLog, createGz, copyGz, readPlain,
         writeEnc, removePlain, Remove, NotEncrypted
<1>4. UNCHANGED <<faults, failedStart>> \/ (faults' = faults + 1 /\ failedStart' = TRUE)
  BY DEF archiveFile, compressAndEncrypt, encryptFile, openLog, createGz, copyGz, readPlain,
         writeEnc, removePlain, Remove, NotEncrypted, Works, Fails
<1>5. d \in Day /\ d \in 1..today /\ worker[w] \in StepType /\ dir \in DirType
      /\ today \in Nat /\ today \in Day
  BY <1>1, WorkerDay, ArchiveTypes
<1>6. \A k \in Kind : Has(d, k) => dir[d][k].made \in d..today
  BY <1>5 DEF ArchiveInv, TypeOK
<1>7. \A b \in BOOLEAN : File(b) \in FileType /\ File(b).whole = b /\ File(b).made = today
  BY <1>5 DEF File, FileType
<1>8. today \in d..today
  BY <1>5
<1> QED
  BY <1>1, <1>2, <1>3, <1>4, <1>5, <1>6, <1>7, <1>8, DaysOfInv, NoneIsNoFile DEF Kind

\* Nothing of a day is lost at once: a file of it is followed by a file of it.
Keeps == \A e \in Day \ (shared \cup cleaned) : Any(e) => Any(e)'

LEMMA StepInv ==
  ASSUME ArchiveInv, NEW w \in Worker, NEW d, d = worker[w].d, archiveFile(w),
         NEW new \in StepType, worker' = [worker EXCEPT ![w] = new],
         \/ new = Idle
         \/ /\ new.at # "idle" /\ new.d = d
            /\ new.at \in {"open", "create", "copy", "removeGz"} => zip
            /\ new.at \in {"read", "write", "removeGz"} => key
            /\ new.at = "write" => new.data # None,
         dir' \in DirType, \A e \in Day \ {d} : dir'[e] = dir[e],
         \A k \in Kind : Has(d, k)' => dir'[d][k].made \in d..today,
         InOrder(d)',
         d \notin shared \cup cleaned => Kept(d)' /\ StepIsSafe(w)' /\ (Any(d) => Any(d)'),
         failedStart' \/ new.d = d \/ ~Has(d, "log")' \/ HoldsNothing(d)
  PROVE  ArchiveInv' /\ Keeps
<1>1. ArchiveInv'
  BY StepFacts, FileStepInv
<1>2. Keeps
  BY DEF Keeps, Any, Has
<1> QED
  BY <1>1, <1>2

\* A day with its plain log is kept.
LEMMA LogIsKept ==
  ASSUME NEW d, Has(d, "log")', InOrder(d)'
  PROVE  Kept(d)' /\ Any(d)'
<1>1. "log" \in Kind
  BY DEF Kind
<1> QED
  BY <1>1 DEF Kept, Any, InOrder, Readable

\* A step that writes no file.
LEMMA QuietStepInv ==
  ASSUME ArchiveInv, NEW w \in Worker, NEW d, d = worker[w].d, archiveFile(w),
         NEW new \in StepType, worker' = [worker EXCEPT ![w] = new], dir' = dir,
         \/ new = Idle
         \/ /\ new.at # "idle" /\ new.d = d
            /\ new.at \in {"open", "create", "copy", "removeGz"} => zip
            /\ new.at \in {"read", "write", "removeGz"} => key
            /\ new.at = "write" => new.data # None,
         new # Idle /\ d \notin shared \cup cleaned => StepIsSafe(w)',
         failedStart' \/ new.d = d \/ ~Has(d, "log") \/ HoldsNothing(d)
  PROVE  ArchiveInv' /\ Keeps
<1>1. /\ d \in Day /\ InOrder(d) /\ (d \notin shared \cup cleaned => Kept(d))
      /\ lossy \subseteq lossy' /\ fellBack \subseteq fellBack' /\ stuck \subseteq stuck'
      /\ UNCHANGED <<zip, key, shared, cleaned>> /\ dir \in DirType
      /\ \A k \in Kind : Has(d, k) => dir[d][k].made \in d..today
  BY StepFacts
<1>2. /\ InOrder(d)' /\ (d \notin shared \cup cleaned => Kept(d)')
      /\ \A k \in Kind : Has(d, k)' = Has(d, k)
      /\ Any(d) => Any(d)'
  BY <1>1, SameDay
<1>3. new = Idle => StepIsSafe(w)'
  <2>1. new = Idle => worker'[w].at = "idle"
    BY ArchiveTypes, IdleWorker
  <2> QED
    BY <2>1, IdleIsSafeNext
<1>4. \A k \in Kind : Has(d, k)' => dir'[d][k].made \in d..today
  BY <1>1, <1>2
<1>5. failedStart' \/ new.d = d \/ ~Has(d, "log")' \/ HoldsNothing(d)
  BY <1>2 DEF Kind
<1>6. d \notin shared \cup cleaned => Kept(d)' /\ StepIsSafe(w)' /\ (Any(d) => Any(d)')
  BY <1>2, <1>3
<1>7. dir' \in DirType /\ \A e \in Day \ {d} : dir'[e] = dir[e]
  BY <1>1
<1>8. InOrder(d)'
  BY <1>2
<1> HIDE <1>2
<1> QED
  BY <1>4, <1>5, <1>6, <1>7, <1>8, StepInv

\* What a goroutine may be next.
LEMMA NextStep ==
  ASSUME ArchiveInv, NEW w \in Worker, worker[w].at # "idle"
  PROVE  /\ Idle \in StepType /\ worker \in [Worker -> StepType]
         /\ \A at \in Steps : LET new == [worker[w] EXCEPT !.at = at] IN
              /\ new \in StepType /\ new.at = at /\ new.d = worker[w].d
              /\ new.data = worker[w].data
              /\ Goes(w, at) => worker' = [worker EXCEPT ![w] = new]
         /\ Ends(w) => worker' = [worker EXCEPT ![w] = Idle]
<1>1. worker[w] \in StepType /\ worker \in [Worker -> StepType] /\ today \in Nat
  BY WorkerDay, ArchiveTypes
<1>2. Idle \in StepType
  BY <1>1 DEF StepType, Idle, Steps, NoDay
<1> QED
  BY <1>1, <1>2 DEF StepType, Goes, Ends

LEMMA OpenLogInv ==
  ASSUME ArchiveInv, NEW w \in Worker, NEW d, d = worker[w].d, openLog(w)
  PROVE  ArchiveInv' /\ Keeps
<1> DEFINE next == [worker[w] EXCEPT !.at = "create"]
<1>1. /\ archiveFile(w) /\ dir' = dir /\ worker[w].at = "open" /\ zip
      /\ "create" \in Steps
  BY DEF archiveFile, compressAndEncrypt, openLog, ArchiveInv, WhoArchives, Steps
<1>2. /\ Idle \in StepType /\ next \in StepType /\ next.at = "create" /\ next.d = d
      /\ worker \in [Worker -> StepType]
      /\ Goes(w, "create") => worker' = [worker EXCEPT ![w] = next]
      /\ Ends(w) => worker' = [worker EXCEPT ![w] = Idle]
  BY <1>1, NextStep
<1> HIDE DEF next
<1>3. CASE Ends(w) /\ (failedStart' \/ ~Has(d, "log"))
  BY <1>1, <1>2, <1>3, QuietStepInv
<1>4. CASE Goes(w, "create") /\ Has(d, "log")
  <2>1. worker'[w] = next
    BY <1>2, <1>4
  <2>2. StepIsSafe(w)'
    BY <1>1, <1>2, <1>4, <2>1 DEF StepIsSafe, Has
  <2> QED
    BY <1>1, <1>2, <1>4, <2>2, QuietStepInv
<1> QED
  BY <1>3, <1>4 DEF openLog, Fails

\* A step that writes or removes one file of its day.
LEMMA PutStepInv ==
  ASSUME ArchiveInv, NEW w \in Worker, NEW d, d = worker[w].d, archiveFile(w),
         NEW new \in StepType, worker' = [worker EXCEPT ![w] = new],
         NEW k \in Kind, NEW f, f = None \/ (f \in FileType /\ f.made = today),
         OneFile(dir', dir, d, k, f),
         \/ new = Idle
         \/ /\ new.at # "idle" /\ new.d = d
            /\ new.at \in {"open", "create", "copy", "removeGz"} => zip
            /\ new.at \in {"read", "write", "removeGz"} => key
            /\ new.at = "write" => new.data # None,
         InOrder(d)',
         d \notin shared \cup cleaned =>
           Kept(d)' /\ Any(d)' /\ (new # Idle => StepIsSafe(w)'),
         failedStart' \/ new.d = d \/ ~Has(d, "log")' \/ HoldsNothing(d)
  PROVE  ArchiveInv' /\ Keeps
<1>1. /\ d \in Day /\ dir \in DirType /\ today \in d..today
      /\ \A j \in Kind : Has(d, j) => dir[d][j].made \in d..today
  BY StepFacts
<1>2. /\ dir' \in DirType /\ \A e \in Day \ {d} : dir'[e] = dir[e]
      /\ dir'[d][k] = f /\ \A j \in Kind \ {k} : dir'[d][j] = dir[d][j]
  BY <1>1, OnePut
<1>3. new = Idle => StepIsSafe(w)'
  <2>1. new = Idle => worker'[w].at = "idle"
    BY ArchiveTypes, IdleWorker
  <2> QED
    BY <2>1, IdleIsSafeNext
<1>4. \A j \in Kind : Has(d, j)' => dir'[d][j].made \in d..today
  BY <1>1, <1>2 DEF Has
<1>5. d \notin shared \cup cleaned => Kept(d)' /\ StepIsSafe(w)' /\ (Any(d) => Any(d)')
  BY <1>3
<1>6. dir' \in DirType /\ \A e \in Day \ {d} : dir'[e] = dir[e]
  BY <1>2
<1> HIDE <1>2
<1> QED
  BY <1>4, <1>5, <1>6, StepInv

LEMMA CreateGzInv ==
  ASSUME ArchiveInv, NEW w \in Worker, NEW d, d = worker[w].d, createGz(w)
  PROVE  ArchiveInv' /\ Keeps
<1> DEFINE next == [worker[w] EXCEPT !.at = "copy"]
<1>1. /\ archiveFile(w) /\ worker[w].at = "create" /\ zip /\ "copy" \in Steps
      /\ UNCHANGED <<lossy, shared, fellBack, stuck>>
  BY DEF archiveFile, compressAndEncrypt, createGz, ArchiveInv, WhoArchives, Steps
<1>2. /\ Idle \in StepType /\ next \in StepType /\ next.at = "copy" /\ next.d = d
      /\ worker \in [Worker -> StepType]
      /\ Goes(w, "copy") => worker' = [worker EXCEPT ![w] = next]
      /\ Ends(w) => worker' = [worker EXCEPT ![w] = Idle]
  BY <1>1, NextStep
<1> HIDE DEF next
<1>3. CASE Ends(w) /\ failedStart' /\ dir' = dir
  BY <1>1, <1>2, <1>3, QuietStepInv
<1>4. ASSUME NEW f \in FileType, f.made = today, OneFile(dir', dir, d, "gz", f),
             Goes(w, "copy")
      PROVE  ArchiveInv' /\ Keeps
  <2>1. /\ d \in Day /\ dir \in DirType /\ InOrder(d)
        /\ (d \notin shared \cup cleaned => StepIsSafe(w))
        /\ f # None /\ "gz" \in Kind /\ "log" \in Kind /\ UNCHANGED <<zip, key, cleaned>>
    BY <1>1, StepFacts
  <2>2. /\ dir'[d]["gz"] = f /\ dir'[d]["log"] = dir[d]["log"]
    <3>1. /\ dir'[d]["gz"] = f
          /\ \A j \in Kind \ {"gz"} : dir'[d][j] = dir[d][j]
      BY <1>4, <2>1, OnePut
    <3> QED
      BY <2>1, <3>1
  <2>3. /\ worker'[w] = next
        /\ d \notin shared \cup cleaned => Has(d, "log")'
        /\ Has(d, "gz")'
    BY <1>1, <1>2, <1>4, <2>1, <2>2 DEF StepIsSafe, Has
  <2>4. InOrder(d)'
    BY <1>1, <2>1, <2>2, <2>3 DEF InOrder, Has
  <2>5. d \notin shared \cup cleaned => StepIsSafe(w)'
    BY <1>1, <1>2, <2>3 DEF StepIsSafe
  <2>6. d \notin shared \cup cleaned => Kept(d)' /\ Any(d)'
    BY <2>3, <2>4, LogIsKept
  <2> HIDE <2>2
  <2> QED
    BY <1>1, <1>2, <1>4, <2>1, <2>4, <2>5, <2>6, PutStepInv
<1>5. CASE Put(d, "gz", File(FALSE)) /\ Goes(w, "copy")
  <2>1. File(FALSE) \in FileType /\ File(FALSE).made = today
    BY <1>1, StepFacts
  <2> QED
    BY <1>4, <1>5, <2>1 DEF Put, OneFile
<1> QED
  BY <1>3, <1>5 DEF createGz, Fails

LEMMA CopyGzInv ==
  ASSUME ArchiveInv, NEW w \in Worker, NEW d, d = worker[w].d, copyGz(w)
  PROVE  ArchiveInv' /\ Keeps
<1> DEFINE at == IF key THEN "read" ELSE "removeLog"
           next == [worker[w] EXCEPT !.at = at]
<1>1. /\ archiveFile(w) /\ worker[w].at = "copy" /\ zip /\ at \in Steps
      /\ UNCHANGED <<shared, fellBack, stuck>>
  BY DEF archiveFile, compressAndEncrypt, copyGz, ArchiveInv, WhoArchives, Steps
<1>2. /\ Idle \in StepType /\ next \in StepType /\ next.at = at /\ next.d = d
      /\ worker \in [Worker -> StepType]
      /\ Goes(w, at) => worker' = [worker EXCEPT ![w] = next]
      /\ Ends(w) => worker' = [worker EXCEPT ![w] = Idle]
  BY <1>1, NextStep
<1> HIDE DEF next
<1>3. /\ d \in Day /\ dir \in DirType /\ InOrder(d)
      /\ (d \notin shared \cup cleaned => Has(d, "log") /\ Has(d, "gz"))
      /\ "gz" \in Kind /\ "log" \in Kind /\ UNCHANGED <<zip, key, cleaned>>
      /\ None \notin FileType
  BY <1>1, StepFacts DEF StepIsSafe
<1>4. ASSUME NEW f, f = None \/ (f \in FileType /\ f.made = today), OneFile(dir', dir, d, "gz", f),
             d \notin shared \cup cleaned /\ Goes(w, at) => f # None /\ f.whole = TRUE,
             Goes(w, at) \/ (Ends(w) /\ failedStart')
      PROVE  ArchiveInv' /\ Keeps
  <2>1. /\ dir'[d]["gz"] = f /\ dir'[d]["log"] = dir[d]["log"]
    <3>1. /\ dir'[d]["gz"] = f
          /\ \A j \in Kind \ {"gz"} : dir'[d][j] = dir[d][j]
      BY <1>3, <1>4, OnePut
    <3> QED
      BY <1>3, <3>1
  <2>2. /\ d \notin shared \cup cleaned => Has(d, "log")'
        /\ d \notin shared \cup cleaned /\ Goes(w, at) => Has(d, "gz")' /\ dir'[d]["gz"].whole
    BY <1>3, <1>4, <2>1 DEF Has
  <2>3. InOrder(d)'
    BY <1>1, <1>3, <2>1, <2>2 DEF InOrder, Has
  <2>4. ASSUME d \notin shared \cup cleaned, Goes(w, at)
        PROVE  StepIsSafe(w)'
    <3>1. worker'[w] = next
      BY <1>2, <2>4
    <3> QED
      BY <1>2, <1>3, <2>2, <2>4, <3>1 DEF StepIsSafe, Readable
  <2>5. d \notin shared \cup cleaned => Kept(d)' /\ Any(d)'
    BY <2>2, <2>3, LogIsKept
  <2> HIDE <2>1
  <2>6. CASE Goes(w, at)
    BY <1>1, <1>2, <1>3, <1>4, <2>3, <2>4, <2>5, <2>6, PutStepInv
  <2>7. CASE Ends(w) /\ failedStart'
    BY <1>1, <1>2, <1>3, <1>4, <2>3, <2>5, <2>7, PutStepInv
  <2> QED
    BY <1>4, <2>6, <2>7
<1>5. CASE Goes(w, at) /\ lossy' = lossy \cup {d} /\ dir' = dir
  <2>1. worker'[w] = next
    BY <1>2, <1>5
  <2>2. d \notin shared \cup cleaned => StepIsSafe(w)'
    BY <1>2, <1>3, <1>5, <2>1 DEF StepIsSafe, Readable, Has
  <2> QED
    BY <1>1, <1>2, <1>5, <2>2, QuietStepInv
<1>6. ASSUME NEW whole \in (IF d \in shared THEN BOOLEAN ELSE {TRUE}), Goes(w, at),
             Put(d, "gz", IF Has(d, "gz") THEN File(whole) ELSE None)
      PROVE  ArchiveInv' /\ Keeps
  <2>1. whole \in BOOLEAN /\ (d \notin shared => whole = TRUE)
    BY <1>6
  <2>2. PICK f \in FileType : f = File(whole) /\ f.made = today /\ f.whole = whole
    BY <1>1, <2>1, StepFacts
  <2>3. PICK g : /\ g = IF Has(d, "gz") THEN f ELSE None
                 /\ OneFile(dir', dir, d, "gz", g)
    BY <1>6, <2>2 DEF Put, OneFile
  <2>4. /\ g = None \/ (g \in FileType /\ g.made = today)
        /\ d \notin shared \cup cleaned => g # None /\ g.whole = TRUE
    BY <1>3, <2>1, <2>2, <2>3
  <2> QED
    BY <1>4, <1>6, <2>3, <2>4
<1>7. CASE Put(d, "gz", None) /\ Ends(w) /\ failedStart'
  <2>1. ~Goes(w, at)
    BY <1>2, <1>3, <1>7, IdleWorker
  <2> QED
    BY <1>4, <1>7, <2>1 DEF Put, OneFile
<1> QED
  BY <1>5, <1>6, <1>7 DEF copyGz, Fails

\* The steps after a failed encryption.
LEMMA NotEncryptedInv ==
  ASSUME ArchiveInv, NEW w \in Worker, NEW d, d = worker[w].d, archiveFile(w), NotEncrypted(w),
         worker[w].at \in {"read", "write"}, UNCHANGED <<shared, stuck, lossy>>,
         \/ dir' = dir
         \/ \E f \in FileType : f.made = today /\ OneFile(dir', dir, d, "enc", f),
         zip \/ failedStart' \/ (dir' = dir /\ (~Has(d, "log") \/ HoldsNothing(d))),
         worker[w].at = "write" \/ dir' = dir
  PROVE  ArchiveInv' /\ Keeps
<1> DEFINE next == [worker[w] EXCEPT !.at = "removeLog"]
<1>1. key /\ worker[w].at # "idle" /\ "removeLog" \in Steps
  BY DEF ArchiveInv, WhoArchives, Steps
<1>2. /\ Idle \in StepType /\ next \in StepType /\ next.at = "removeLog" /\ next.d = d
      /\ worker \in [Worker -> StepType]
      /\ Goes(w, "removeLog") => worker' = [worker EXCEPT ![w] = next]
      /\ Ends(w) => worker' = [worker EXCEPT ![w] = Idle]
  BY <1>1, NextStep
<1> HIDE DEF next
<1>3. /\ d \in Day /\ dir \in DirType /\ InOrder(d)
      /\ (d \notin shared \cup cleaned => StepIsSafe(w) /\ Kept(d))
      /\ Kind = {"log", "gz", "enc"} /\ UNCHANGED <<zip, key, cleaned>>
      /\ None \notin FileType /\ fellBack \subseteq fellBack'
  BY StepFacts
<1>4. /\ zip => Goes(w, "removeLog") /\ d \in fellBack'
      /\ ~zip => Ends(w)
  BY DEF NotEncrypted
<1>5. /\ dir'[d]["log"] = dir[d]["log"] /\ dir'[d]["gz"] = dir[d]["gz"]
  <2>1. ASSUME NEW f \in FileType, OneFile(dir', dir, d, "enc", f)
        PROVE  /\ dir'[d]["log"] = dir[d]["log"] /\ dir'[d]["gz"] = dir[d]["gz"]
    <3>1. \A j \in Kind \ {"enc"} : dir'[d][j] = dir[d][j]
      BY <1>3, <2>1, OnePut
    <3> QED
      BY <1>3, <3>1
  <2> QED
    BY <2>1
<1>6. InOrder(d)'
  BY <1>3, <1>5 DEF InOrder, Has
<1>7. ASSUME zip, d \notin shared \cup cleaned
      PROVE  StepIsSafe(w)' /\ Has(d, "log")'
  <2>1. worker'[w] = next
    BY <1>2, <1>4, <1>7
  <2>2. Readable(d, {"gz"}) /\ Has(d, "log")
    BY <1>3, <1>7 DEF StepIsSafe
  <2>3. Has(d, "gz")' /\ (dir'[d]["gz"].whole \/ d \in lossy')
    BY <1>5, <2>2 DEF Readable, Has
  <2>4. StepIsSafe(w)'
    BY <1>2, <1>4, <1>7, <2>1, <2>3 DEF StepIsSafe, Readable
  <2> QED
    BY <1>5, <2>2, <2>4 DEF Has
<1>8. worker[w].at = "write" /\ d \notin shared \cup cleaned => Has(d, "log")'
  BY <1>3, <1>5 DEF StepIsSafe, Has
<1>9. CASE dir' = dir
  <2>1. CASE zip
    BY <1>2, <1>4, <1>7, <1>9, <2>1, QuietStepInv
  <2>2. CASE ~zip
    BY <1>2, <1>4, <1>9, <2>2, QuietStepInv
  <2> QED
    BY <2>1, <2>2
<1>10. ASSUME worker[w].at = "write", NEW f \in FileType, f.made = today,
              OneFile(dir', dir, d, "enc", f), dir' # dir
       PROVE  ArchiveInv' /\ Keeps
  <2>1. d \notin shared \cup cleaned => Kept(d)' /\ Any(d)'
    BY <1>6, <1>8, <1>10, LogIsKept
  <2>2. "enc" \in Kind
    BY <1>3
  <2>3. CASE zip
    BY <1>2, <1>4, <1>6, <1>7, <1>10, <2>1, <2>2, <2>3, PutStepInv
  <2>4. CASE ~zip
    BY <1>2, <1>4, <1>6, <1>10, <2>1, <2>2, <2>4, PutStepInv
  <2> QED
    BY <2>3, <2>4
<1> QED
  BY <1>9, <1>10

LEMMA ReadPlainInv ==
  ASSUME ArchiveInv, NEW w \in Worker, NEW d, d = worker[w].d, readPlain(w)
  PROVE  ArchiveInv' /\ Keeps
<1>1. /\ archiveFile(w) /\ worker[w].at = "read" /\ dir' = dir
      /\ UNCHANGED <<lossy, shared, stuck>>
  BY DEF archiveFile, encryptFile, readPlain
<1>2. /\ d \in Day /\ dir \in DirType /\ InOrder(d)
      /\ (d \notin shared \cup cleaned => StepIsSafe(w))
      /\ "gz" \in Kind /\ "log" \in Kind /\ UNCHANGED <<zip, key, cleaned>>
      /\ None \notin FileType /\ worker[w] \in StepType
  BY <1>1, StepFacts
<1>3. key /\ worker \in [Worker -> StepType] /\ Source = (IF zip THEN "gz" ELSE "log")
  BY <1>1, ArchiveTypes DEF ArchiveInv, WhoArchives, Source
<1>4. ASSUME NEW f, f = dir[d][Source], Has(d, Source),
             worker' = [worker EXCEPT ![w].at = "write", ![w].data = f]
      PROVE  ArchiveInv' /\ Keeps
  <2> DEFINE new == [worker[w] EXCEPT !.at = "write", !.data = f]
  <2>1. f \in FileType /\ f # None
    BY <1>2, <1>3, <1>4 DEF DirType, Has
  <2>2. /\ new \in StepType /\ new.at = "write" /\ new.d = d /\ new.data = f
    BY <1>2, <2>1 DEF StepType, Steps
  <2>3. worker' = [worker EXCEPT ![w] = new]
    BY <1>3, <1>4
  <2> HIDE DEF new
  <2>4. worker'[w] = new
    BY <1>3, <2>3
  <2>5. ASSUME d \notin shared \cup cleaned
        PROVE  Has(d, "log") /\ (zip => Readable(d, {"gz"})) /\ (f.whole \/ d \in lossy)
    <3>1. CASE zip
      BY <1>1, <1>2, <1>3, <1>4, <2>5, <3>1 DEF StepIsSafe, Readable
    <3>2. CASE ~zip
      BY <1>2, <1>3, <1>4, <3>2 DEF InOrder
    <3> QED
      BY <3>1, <3>2
  <2>6. ASSUME d \notin shared \cup cleaned
        PROVE  StepIsSafe(w)'
    BY <1>1, <1>2, <2>2, <2>4, <2>5, <2>6 DEF StepIsSafe, Readable, Has
  <2> QED
    BY <1>1, <1>3, <2>1, <2>2, <2>3, <2>6, QuietStepInv
<1>5. CASE /\ NotEncrypted(w)
           /\ failedStart' \/ (Has(d, Source) => ~dir[d][Source].whole \/ HoldsNothing(d))
  <2>1. zip \/ failedStart' \/ ~Has(d, "log") \/ HoldsNothing(d)
    BY <1>2, <1>3, <1>5 DEF InOrder
  <2> QED
    BY <1>1, <1>5, <2>1, NotEncryptedInv
<1> QED
  BY <1>4, <1>5 DEF readPlain, Fails

LEMMA WriteEncInv ==
  ASSUME ArchiveInv, NEW w \in Worker, NEW d, d = worker[w].d, writeEnc(w)
  PROVE  ArchiveInv' /\ Keeps
<1> DEFINE at == IF zip THEN "removeGz" ELSE "removeLog"
           next == [worker[w] EXCEPT !.at = at]
<1>1. /\ archiveFile(w) /\ worker[w].at = "write" /\ UNCHANGED <<lossy, shared, stuck>>
      /\ at \in Steps /\ key /\ worker[w].data # None
  BY DEF archiveFile, encryptFile, writeEnc, Steps, ArchiveInv, WhoArchives
<1>2. /\ Idle \in StepType /\ next \in StepType /\ next.at = at /\ next.d = d
      /\ worker \in [Worker -> StepType]
      /\ Goes(w, at) => worker' = [worker EXCEPT ![w] = next]
  BY <1>1, NextStep
<1> HIDE DEF next
<1>3. /\ d \in Day /\ dir \in DirType /\ InOrder(d)
      /\ (d \notin shared \cup cleaned => StepIsSafe(w))
      /\ Kind = {"log", "gz", "enc"} /\ UNCHANGED <<zip, key, cleaned>>
      /\ None \notin FileType /\ worker[w] \in StepType
      /\ \A b \in BOOLEAN : File(b) \in FileType /\ File(b).whole = b /\ File(b).made = today
  BY <1>1, StepFacts
<1>4. ASSUME NEW f \in FileType, f.made = today, f.whole = worker[w].data.whole,
             OneFile(dir', dir, d, "enc", f), Goes(w, at), UNCHANGED fellBack
      PROVE  ArchiveInv' /\ Keeps
  <2>1. /\ dir'[d]["enc"] = f /\ dir'[d]["log"] = dir[d]["log"] /\ dir'[d]["gz"] = dir[d]["gz"]
    <3>1. /\ dir'[d]["enc"] = f
          /\ \A j \in Kind \ {"enc"} : dir'[d][j] = dir[d][j]
      BY <1>3, <1>4, OnePut
    <3> QED
      BY <1>3, <3>1
  <2>2. InOrder(d)'
    BY <1>1, <1>3, <1>4, <2>1 DEF InOrder, Has
  <2>3. ASSUME d \notin shared \cup cleaned
        PROVE  Has(d, "log")' /\ Readable(d, {"enc"})'
    BY <1>1, <1>3, <1>4, <2>1, <2>3 DEF StepIsSafe, Has, Readable
  <2>4. worker'[w] = next /\ (Has(d, "gz")' => zip)
    BY <1>2, <1>3, <1>4, <2>2 DEF InOrder
  <2>5. d \notin shared \cup cleaned => StepIsSafe(w)'
    BY <1>2, <1>3, <2>3, <2>4 DEF StepIsSafe, Readable
  <2>6. d \notin shared \cup cleaned => Kept(d)' /\ Any(d)'
    BY <2>2, <2>3, LogIsKept
  <2>7. "enc" \in Kind
    BY <1>3
  <2> HIDE <2>1
  <2> QED
    BY <1>1, <1>2, <1>4, <2>2, <2>5, <2>6, <2>7, PutStepInv
<1>5. ASSUME Put(d, "enc", File(worker[w].data.whole)), Goes(w, at), UNCHANGED fellBack
      PROVE  ArchiveInv' /\ Keeps
  <2>1. worker[w].data.whole \in BOOLEAN
    BY <1>1, <1>3 DEF StepType, FileType
  <2>2. PICK f \in FileType : f = File(worker[w].data.whole) /\ f.made = today
                              /\ f.whole = worker[w].data.whole
    BY <1>3, <2>1
  <2>3. OneFile(dir', dir, d, "enc", f)
    BY <1>5, <2>2 DEF Put, OneFile
  <2> QED
    BY <1>4, <1>5, <2>2, <2>3
<1>6. CASE NotEncrypted(w) /\ failedStart' /\ (Put(d, "enc", File(FALSE)) \/ UNCHANGED dir)
  <2>1. PICK f \in FileType : f = File(FALSE) /\ f.made = today
    BY <1>3
  <2>2. dir' = dir \/ OneFile(dir', dir, d, "enc", f)
    BY <1>6, <2>1 DEF Put, OneFile
  <2> QED
    BY <1>1, <1>6, <2>1, <2>2, NotEncryptedInv
<1> QED
  BY <1>5, <1>6 DEF writeEnc, Fails

LEMMA RemoveInv ==
  ASSUME ArchiveInv, NEW w \in Worker, NEW d, d = worker[w].d, removePlain(w)
  PROVE  ArchiveInv' /\ Keeps
<1> DEFINE next == [worker[w] EXCEPT !.at = "removeLog"]
<1>1. /\ archiveFile(w) /\ worker[w].at \in {"removeGz", "removeLog"}
      /\ UNCHANGED <<lossy, shared, fellBack>> /\ "removeLog" \in Steps
      /\ (worker[w].at = "removeGz" => zip)
  BY DEF archiveFile, removePlain, Remove, Steps, ArchiveInv, WhoArchives
<1>2. /\ Idle \in StepType /\ next \in StepType /\ next.at = "removeLog" /\ next.d = d
      /\ worker \in [Worker -> StepType]
      /\ Goes(w, "removeLog") => worker' = [worker EXCEPT ![w] = next]
      /\ Ends(w) => worker' = [worker EXCEPT ![w] = Idle]
  BY <1>1, NextStep
<1> HIDE DEF next
<1>3. /\ d \in Day /\ dir \in DirType /\ InOrder(d)
      /\ (d \notin shared \cup cleaned => StepIsSafe(w))
      /\ Kind = {"log", "gz", "enc"} /\ UNCHANGED <<zip, key, cleaned>>
      /\ None \notin FileType /\ worker[w] \in StepType
  BY <1>1, StepFacts
<1>4. ASSUME worker[w].at = "removeGz", OneFile(dir', dir, d, "gz", None), Goes(w, "removeLog"),
             UNCHANGED stuck
      PROVE  ArchiveInv' /\ Keeps
  <2>1. /\ dir'[d]["gz"] = None /\ dir'[d]["log"] = dir[d]["log"] /\ dir'[d]["enc"] = dir[d]["enc"]
    <3>1. /\ dir'[d]["gz"] = None
          /\ \A j \in Kind \ {"gz"} : dir'[d][j] = dir[d][j]
      BY <1>3, <1>4, OnePut
    <3> QED
      BY <1>3, <3>1
  <2>2. InOrder(d)'
    BY <1>1, <1>3, <1>4, <2>1 DEF InOrder, Has
  <2>3. worker'[w] = next /\ ~Has(d, "gz")'
    BY <1>2, <1>4, <2>1 DEF Has
  <2>4. ASSUME d \notin shared \cup cleaned
        PROVE  Readable(d, {"enc"})'
    BY <1>1, <1>3, <1>4, <2>1, <2>4 DEF StepIsSafe, Has, Readable
  <2>5. d \notin shared \cup cleaned => StepIsSafe(w)'
    BY <1>2, <2>3, <2>4 DEF StepIsSafe, Readable
  <2>6. d \notin shared \cup cleaned => Kept(d)' /\ Any(d)'
    BY <1>3, <2>4 DEF Kept, Any, Readable
  <2>7. "gz" \in Kind
    BY <1>3
  <2> HIDE <2>1
  <2> QED
    BY <1>1, <1>2, <1>4, <2>2, <2>5, <2>6, <2>7, PutStepInv
<1>5. ASSUME worker[w].at = "removeGz", dir' = dir, stuck' = stuck \cup {d}, Goes(w, "removeLog")
      PROVE  ArchiveInv' /\ Keeps
  <2>1. worker'[w] = next
    BY <1>2, <1>5
  <2>2. ASSUME d \notin shared \cup cleaned
        PROVE  StepIsSafe(w)'
    <3>1. Readable(d, {"enc"})'
      BY <1>1, <1>3, <1>5, <2>2 DEF StepIsSafe, Has, Readable
    <3> QED
      BY <1>2, <1>5, <2>1, <3>1 DEF StepIsSafe, Readable
  <2> QED
    BY <1>1, <1>2, <1>5, <2>2, QuietStepInv
<1>6. ASSUME worker[w].at = "removeLog", OneFile(dir', dir, d, "log", None), Ends(w),
             UNCHANGED stuck
      PROVE  ArchiveInv' /\ Keeps
  <2>1. /\ dir'[d]["log"] = None /\ dir'[d]["gz"] = dir[d]["gz"] /\ dir'[d]["enc"] = dir[d]["enc"]
    <3>1. /\ dir'[d]["log"] = None
          /\ \A j \in Kind \ {"log"} : dir'[d][j] = dir[d][j]
      BY <1>3, <1>6, OnePut
    <3> QED
      BY <1>3, <3>1
  <2>2. ASSUME d \notin shared \cup cleaned
        PROVE  /\ Readable(d, {"gz", "enc"})'
               /\ key => ~Has(d, "gz")' \/ d \in fellBack \cup stuck
    BY <1>1, <1>3, <1>6, <2>1, <2>2 DEF StepIsSafe, Has, Readable
  <2>3. InOrder(d)'
    BY <1>1, <1>3, <1>6, <2>1, <2>2 DEF InOrder, Has
  <2>4. d \notin shared \cup cleaned => Kept(d)' /\ Any(d)'
    BY <1>3, <2>2 DEF Kept, Any, Readable
  <2>5. "log" \in Kind /\ ~Has(d, "log")'
    BY <1>3, <2>1 DEF Has
  <2> HIDE <2>1
  <2> QED
    BY <1>1, <1>2, <1>6, <2>3, <2>4, <2>5, PutStepInv
<1>7. CASE worker[w].at = "removeLog" /\ dir' = dir /\ failedStart' /\ Ends(w)
  BY <1>1, <1>2, <1>7, QuietStepInv
<1>8. \/ /\ worker[w].at = "removeGz" /\ Goes(w, "removeLog")
         /\ \/ OneFile(dir', dir, d, "gz", None) /\ UNCHANGED stuck
            \/ dir' = dir /\ stuck' = stuck \cup {d}
      \/ /\ worker[w].at = "removeLog" /\ Ends(w)
         /\ \/ OneFile(dir', dir, d, "log", None) /\ UNCHANGED stuck
            \/ dir' = dir /\ failedStart'
  BY DEF removePlain, Remove, Put, OneFile, Fails
<1> QED
  BY <1>4, <1>5, <1>6, <1>7, <1>8

LEMMA ArchiveFileInv ==
  ASSUME ArchiveInv, NEW w \in Worker, archiveFile(w)
  PROVE  ArchiveInv' /\ Keeps
<1>1. PICK d : d = worker[w].d
  OBVIOUS
<1> QED
  BY <1>1, OpenLogInv, CreateGzInv, CopyGzInv, ReadPlainInv, WriteEncInv, RemoveInv
     DEF archiveFile, compressAndEncrypt, encryptFile

\* Which goroutines archive nothing.
LEMMA WhoIsIdle ==
  ASSUME ArchiveInv
  PROVE  /\ process \in {"down", "clean"} => \A w \in Worker : worker[w] = Idle
         /\ process = "start" => \A w \in Worker \ {Main} : worker[w] = Idle
         /\ process = "up" => worker[Main] = Idle
         /\ process # "up" => archiveCh = <<>>
         /\ Main \in Worker
  BY DEF ArchiveInv, WhoArchives, Worker

LEMMA DaysToInv ==
  ASSUME \A d \in Day : InOrder(d)',
         \A d \in Day \ (shared' \cup cleaned') : Kept(d)',
         \A w \in Worker : worker'[w].d \notin shared' \cup cleaned' => StepIsSafe(w)'
  PROVE  LogGoesLast' /\ ContentIsKept'
  BY DEF LogGoesLast, ContentIsKept, InOrder, Kept, Any

\* Today's log is opened: nothing else of the directory changes.
LEMMA LogOpened ==
  ASSUME ArchiveInv, NEW t, t = today, dir' = [dir EXCEPT ![t]["log"] = File(TRUE)],
         UNCHANGED <<zip, key, history, worker>>
  PROVE  /\ dir' \in DirType /\ \A d \in Day \ {t} : dir'[d] = dir[d]
         /\ \A d \in Day, k \in Kind : Has(d, k)' => dir'[d][k].made \in d..today
         /\ LogGoesLast' /\ ContentIsKept'
         /\ \A d \in Day : Any(d) => Any(d)'
<1>1. /\ t \in Day /\ t \in Nat /\ dir \in DirType /\ None \notin FileType
      /\ Kind = {"log", "gz", "enc"} /\ UNCHANGED <<lossy, shared, fellBack, stuck, cleaned>>
  BY ArchiveTypes, NoneIsNoFile DEF history, Kind
<1>2. PICK f \in FileType : f = File(TRUE) /\ f.made = t /\ f.whole
  <2>1. \A b \in BOOLEAN : File(b) \in FileType /\ File(b).whole = b /\ File(b).made = t
    BY <1>1 DEF File, FileType
  <2> QED
    BY <2>1
<1>3. OneFile(dir', dir, t, "log", f)
  BY <1>2 DEF OneFile
<1>4. /\ dir' \in DirType /\ \A d \in Day \ {t} : dir'[d] = dir[d]
      /\ dir'[t]["log"] = f /\ \A k \in Kind \ {"log"} : dir'[t][k] = dir[t][k]
  <2>1. "log" \in Kind
    BY <1>1
  <2> QED
    BY <1>1, <1>3, <2>1, OnePut
<1>5. dir'[t]["gz"] = dir[t]["gz"] /\ dir'[t]["enc"] = dir[t]["enc"]
  BY <1>1, <1>4
<1>6. Has(t, "log")'
  BY <1>1, <1>2, <1>4 DEF Has
<1>7. \A d \in Day, k \in Kind : Has(d, k)' => dir'[d][k].made \in d..today
  <2> SUFFICES ASSUME NEW d \in Day, NEW k \in Kind, Has(d, k)'
               PROVE  dir'[d][k].made \in d..today
    OBVIOUS
  <2>1. CASE d = t /\ k = "log"
    <3>1. dir'[d][k] = f
      BY <1>4, <2>1
    <3>2. f.made = t
      BY <1>2
    <3>3. t \in d..today
      <4>1. t \in Nat
        BY <1>1
      <4> QED
        BY <2>1, <4>1
    <3> QED
      BY <3>1, <3>2, <3>3
  <2>2. CASE ~(d = t /\ k = "log")
    <3>1. dir'[d][k] = dir[d][k]
      BY <1>4, <2>2
    <3>2. Has(d, k)
      BY <3>1 DEF Has
    <3> QED
      BY <3>1, <3>2 DEF ArchiveInv, TypeOK
  <2> QED
    BY <2>1, <2>2
<1>8. InOrder(t)'
  <2>1. InOrder(t)
    BY <1>1, DaysOfInv
  <2> QED
    BY <1>1, <1>2, <1>4, <1>5, <1>6, <2>1 DEF InOrder, Has
<1>9. ASSUME NEW d \in Day
      PROVE  InOrder(d)' /\ (d \notin shared' \cup cleaned' => Kept(d)')
  <2>1. CASE d = t
    BY <1>6, <1>8, <2>1, LogIsKept
  <2>2. CASE d # t
    BY <1>1, <1>4, <2>2, DaysOfInv, SameDay
  <2> QED
    BY <2>1, <2>2
<1>10. ASSUME NEW w \in Worker, worker'[w].d \notin shared' \cup cleaned'
       PROVE  StepIsSafe(w)'
  <2>1. CASE worker[w].at = "idle"
    BY <2>1, IdleIsSafeNext
  <2>2. CASE worker[w].at # "idle" /\ worker[w].d # t
    BY <1>1, <1>4, <1>10, <2>2, WorkerDay, DaysOfInv, SameStep
  <2>3. CASE worker[w].at # "idle" /\ worker[w].d = t
    <3>1. StepIsSafe(w)
      BY <1>1, <1>10, DaysOfInv
    <3> QED
      BY <1>1, <1>5, <1>6, <2>3, <3>1 DEF StepIsSafe, Readable, Has
  <2> QED
    BY <2>1, <2>2, <2>3
<1>11. ASSUME NEW d \in Day, Any(d)
       PROVE  Any(d)'
  <2>1. CASE d = t
    BY <1>6, <1>8, <2>1, LogIsKept
  <2>2. CASE d # t
    BY <1>4, <1>11, <2>2 DEF Any, Has
  <2> QED
    BY <2>1, <2>2
<1> QED
  BY <1>4, <1>7, <1>9, <1>10, <1>11, DaysToInv

\* The directory and the goroutines are as they were, and notes are only added.
LEMMA NothingTouched ==
  ASSUME ArchiveInv, UNCHANGED <<zip, key, dir, worker>>,
         lossy \subseteq lossy', fellBack \subseteq fellBack', stuck \subseteq stuck',
         shared \subseteq shared', cleaned \subseteq cleaned'
  PROVE  LogGoesLast' /\ ContentIsKept'
<1>1. ASSUME NEW d \in Day
      PROVE  InOrder(d)' /\ (d \notin shared' \cup cleaned' => Kept(d)')
  BY DaysOfInv, SameDay
<1>2. ASSUME NEW w \in Worker, worker'[w].d \notin shared' \cup cleaned'
      PROVE  StepIsSafe(w)'
  <2>1. CASE worker[w].at = "idle"
    BY <2>1, IdleIsSafeNext
  <2>2. CASE worker[w].at # "idle"
    BY <1>2, <2>2, WorkerDay, DaysOfInv, SameStep
  <2> QED
    BY <2>1, <2>2
<1> QED
  BY <1>1, <1>2, DaysToInv

\* Whether a file is opened or not.
LEMMA OpenedOrNot ==
  ASSUME ArchiveInv, Opened \/ NotOpened
  PROVE  /\ dir' = [dir EXCEPT ![today]["log"] = File(TRUE)] \/ dir' = dir
         /\ empty' \subseteq Day
         /\ \A d \in Day \ {today} : d \in empty' <=> d \in empty
  BY ArchiveTypes DEF Opened, NotOpened

LEMMA NewWriterInv ==
  ASSUME ArchiveInv, newAsyncWriter
  PROVE  ArchiveInv'
<1>1. /\ TypeOK /\ WhoArchives /\ SharedIsNoted /\ SharedAfterFailure
      /\ today \in Nat /\ today \in Day /\ 1 <= today /\ faults \in Nat /\ dir \in DirType
  BY ArchiveTypes DEF ArchiveInv
<1>2. /\ process = "down" /\ process' = "start" /\ archiveCh = <<>> /\ archiveCh' = archiveCh
      /\ \A w \in Worker : worker[w] = Idle
      /\ UNCHANGED <<zip, key, today, worker, lossy, shared, fellBack, stuck, cleaned>>
      /\ UNCHANGED <<zip, key, history, worker>>
  BY WhoIsIdle DEF newAsyncWriter, mode, history
<1>3. /\ dir' = [dir EXCEPT ![today]["log"] = File(TRUE)] \/ dir' = dir
      /\ empty' \subseteq Day
  BY OpenedOrNot DEF newAsyncWriter
<1>4. /\ dir' \in DirType /\ \A d \in Day \ {today} : dir'[d] = dir[d]
      /\ \A d \in Day, k \in Kind : Has(d, k)' => dir'[d][k].made \in d..today
      /\ LogGoesLast' /\ ContentIsKept'
  <2>1. CASE dir' = [dir EXCEPT ![today]["log"] = File(TRUE)]
    <3>1. PICK t : t = today
      OBVIOUS
    <3>2. dir' = [dir EXCEPT ![t]["log"] = File(TRUE)]
      BY <2>1, <3>1
    <3> QED
      BY <1>2, <3>1, <3>2, LogOpened
  <2>2. CASE dir' = dir
    <3>1. LogGoesLast' /\ ContentIsKept'
      BY <1>2, <2>2, NothingTouched
    <3>2. \A d \in Day, k \in Kind : Has(d, k)' => dir'[d][k].made \in d..today
      BY <1>1, <2>2 DEF TypeOK, Has
    <3> QED
      BY <1>1, <2>2, <3>1, <3>2
  <2> QED
    BY <1>3, <2>1, <2>2
<1>5. Logs \subseteq 1..today
  <2> SUFFICES ASSUME NEW d \in Day, Has(d, "log") PROVE d \in 1..today
    BY DEF Logs
  <2>1. dir[d]["log"].made \in d..today /\ d \in Nat /\ 1 <= d
    BY <1>1, Days DEF TypeOK, Kind, Day
  <2> QED
    BY <1>1, <2>1
<1>6. /\ current' \in {today, NoDay} /\ todo' \in {Logs \ {today}, {}}
      /\ \/ current' = today /\ todo' = Logs \ {today} /\ faults' = faults /\ failedStart' = FALSE
         \/ faults' = faults + 1 /\ failedStart' = TRUE
  BY DEF newAsyncWriter, Opened, Fails
<1>7. TypeOK'
  <2>1. current' \in 0..today /\ todo' \subseteq 1..today /\ faults' \in Nat
    BY <1>1, <1>5, <1>6 DEF NoDay
  <2>3. failedStart' \in BOOLEAN
    BY <1>6
  <2>2. process' \in {"down", "start", "clean", "up"}
    BY <1>2
  <2> QED
    BY <1>1, <1>2, <1>3, <1>4, <2>1, <2>2, <2>3 DEF TypeOK, DirType
<1>8. WhoArchives' /\ SharedIsNoted'
  <2>1. WhoArchives'
    BY <1>1, <1>2, IdleWorker DEF WhoArchives, Idle, NoDay
  <2> QED
    BY <1>1, <1>2, <2>1 DEF SharedIsNoted
<1>9. SharedAfterFailure'
  <2>1. faults' = 0 => faults = 0 /\ current' = today /\ current' # NoDay
    BY <1>1, <1>6 DEF NoDay
  <2> QED
    BY <1>1, <1>2, <2>1 DEF SharedAfterFailure, NoDay
<1>10. StartHasAll'
  <2> SUFFICES ASSUME ~failedStart'
               PROVE  /\ current' = today
                      /\ \A d \in 1..(today - 1) : Has(d, "log")' => d \in todo'
    BY <1>2 DEF StartHasAll
  <2>1. ASSUME NEW d \in 1..(today - 1), Has(d, "log")'
        PROVE  d \in Logs \ {today}
    <3>1. d \in Day /\ d # today
      BY <1>1, Days DEF Day
    <3> QED
      BY <1>4, <2>1, <3>1 DEF Logs, Has
  <2> QED
    BY <1>6, <2>1
<1> QED
  BY <1>4, <1>7, <1>8, <1>9, <1>10 DEF ArchiveInv

\* A goroutine takes a file to archive.
LEMMA ArchiveStartInv ==
  ASSUME ArchiveInv, NEW w \in Worker, NEW d \in 1..today, worker[w] = Idle,
         process = (IF w = Main THEN "start" ELSE "up"), ArchiveStart(w, d),
         UNCHANGED <<mode, today, process, current, dir, empty, faults, lossy, fellBack, stuck,
                     cleaned, failedStart>>,
         todo' \subseteq todo, archiveCh' \in Seq(1..today), Len(archiveCh') <= ArchiveQueue,
         process = "up" \/ archiveCh' = <<>>
  PROVE  /\ TypeOK' /\ WhoArchives' /\ SharedIsNoted' /\ LogGoesLast' /\ ContentIsKept'
         /\ \A v \in Worker : worker'[v].d = worker[v].d \/ worker'[v].d = d
         /\ shared' = shared \/ \E v \in Worker : worker[v].d = d
         /\ zip \/ key => worker'[w].d = d
<1>1. /\ TypeOK /\ WhoArchives /\ SharedIsNoted /\ UNCHANGED <<zip, key>>
      /\ today \in Nat /\ today \in Day /\ 1 <= today /\ worker \in [Worker -> StepType]
      /\ d \in Nat /\ d # 0 /\ d \in Day /\ shared \subseteq shared'
  <2>1. d \in Nat /\ d # 0 /\ d \in Day
    BY ArchiveTypes, Days DEF Day
  <2> QED
    BY <2>1, ArchiveTypes DEF ArchiveInv, ArchiveStart, mode
<1>2. CASE ~(zip \/ key)
  <2>1. UNCHANGED <<worker, shared>>
    BY <1>2 DEF ArchiveStart
  <2>2. LogGoesLast' /\ ContentIsKept'
    BY <1>1, <2>1, NothingTouched
  <2>3. TypeOK' /\ WhoArchives' /\ SharedIsNoted'
    BY <1>1, <2>1 DEF TypeOK, WhoArchives, SharedIsNoted, Has, Idle
  <2> QED
    BY <1>2, <2>1, <2>2, <2>3
<1>3. CASE zip \/ key
  <2> DEFINE at == IF zip THEN "open" ELSE "read"
  <2>1. PICK new : /\ new = [Idle EXCEPT !.at = at, !.d = d]
                   /\ worker' = [worker EXCEPT ![w] = new]
    BY <1>3 DEF ArchiveStart
  <2>2. /\ new \in StepType /\ new.at = at /\ new.d = d
        /\ worker' \in [Worker -> StepType] /\ worker'[w] = new
        /\ \A v \in Worker \ {w} : worker'[v] = worker[v]
    <3>1. new = [at |-> at, d |-> d, data |-> None]
      BY <2>1 DEF Idle
    <3>2. new \in StepType /\ new.at = at /\ new.d = d
      BY <1>1, <3>1 DEF StepType, Steps
    <3> QED
      BY <1>1, <2>1, <3>2
  <2>3. shared' = IF \E v \in Worker : worker[v].d = d THEN shared \cup {d} ELSE shared
    BY <1>3 DEF ArchiveStart
  <2>4. TypeOK'
    BY <1>1, <2>2 DEF TypeOK, Has, StepType
  <2>5. WhoArchives'
    <3>1. ASSUME NEW v \in Worker
          PROVE  /\ worker'[v].at = "idle" <=> worker'[v] = Idle
                 /\ worker'[v].at = "idle" <=> worker'[v].d = NoDay
                 /\ worker'[v].at \in {"open", "create", "copy", "removeGz"} => zip
                 /\ worker'[v].at \in {"read", "write", "removeGz"} => key
                 /\ worker'[v].at = "write" => worker'[v].data # None
                 /\ process = (IF v = Main THEN "start" ELSE "up") \/ worker'[v] = Idle
      <4>1. CASE v = w
        BY <1>1, <1>3, <2>2, <4>1, IdleWorker
      <4>2. CASE v # w
        BY <1>1, <2>2, <4>2 DEF WhoArchives
      <4> QED
        BY <4>1, <4>2
    <3>2. Idle' = Idle /\ NoDay' = NoDay
      BY DEF Idle, NoDay
    <3> QED
      BY <1>1, <3>1, <3>2 DEF WhoArchives
  <2>6. SharedIsNoted'
    BY <1>1, <2>2, <2>3 DEF SharedIsNoted, NoDay
  <2>7. ASSUME NEW e \in Day
        PROVE  InOrder(e)' /\ (e \notin shared' \cup cleaned' => Kept(e)')
    BY <1>1, DaysOfInv, SameDay
  <2>8. ASSUME NEW v \in Worker, worker'[v].d \notin shared' \cup cleaned'
        PROVE  StepIsSafe(v)'
    <3>1. CASE v = w
      BY <1>1, <2>2, <3>1 DEF StepIsSafe
    <3>2. CASE v # w /\ worker[v].at = "idle"
      BY <2>2, <3>2, IdleIsSafeNext
    <3>3. CASE v # w /\ worker[v].at # "idle"
      BY <1>1, <2>2, <2>8, <3>3, WorkerDay, DaysOfInv, SameStep
    <3> QED
      BY <3>1, <3>2, <3>3
  <2>9. LogGoesLast' /\ ContentIsKept'
    BY <2>7, <2>8, DaysToInv
  <2>10. shared' = shared \/ \E v \in Worker : worker[v].d = d
    BY <2>3
  <2>11. \A v \in Worker : worker'[v].d = worker[v].d \/ worker'[v].d = d
    BY <2>2
  <2> QED
    BY <2>2, <2>4, <2>5, <2>6, <2>9, <2>10, <2>11
<1> QED
  BY <1>2, <1>3

LEMMA ArchiveOldInv ==
  ASSUME ArchiveInv, archiveOldLogs
  PROVE  ArchiveInv'
<1>1. /\ TypeOK /\ WhoArchives /\ SharedIsNoted /\ SharedAfterFailure /\ StartHasAll
      /\ today \in Nat /\ 1 <= today /\ dir \in DirType
  BY ArchiveTypes DEF ArchiveInv
<1>2. /\ process = "start" /\ archiveCh = <<>> /\ archiveCh' = archiveCh
      /\ \A w \in Worker : worker[w] = Idle
      /\ Main \in Worker
      /\ UNCHANGED <<mode, today, current, dir, empty, faults, lossy, fellBack, stuck, cleaned,
                     failedStart>>
      /\ UNCHANGED <<zip, key>>
  BY WhoIsIdle DEF archiveOldLogs, mode
<1>3. CASE todo = {}
  <2>1. process' = "clean" /\ UNCHANGED <<todo, worker, shared>>
    BY <1>3 DEF archiveOldLogs
  <2>2. LogGoesLast' /\ ContentIsKept'
    BY <1>2, <2>1, NothingTouched
  <2>3. TypeOK'
    BY <1>1, <1>2, <2>1 DEF TypeOK, Has
  <2>4. WhoArchives' /\ SharedIsNoted'
    BY <1>1, <1>2, <2>1 DEF WhoArchives, SharedIsNoted, Idle
  <2>5. SharedAfterFailure' /\ StartHasAll'
    BY <1>1, <1>2, <2>1 DEF SharedAfterFailure, StartHasAll, HoldsNothing
  <2> QED
    BY <2>2, <2>3, <2>4, <2>5 DEF ArchiveInv
<1>4. ASSUME NEW d \in todo, todo' = todo \ {d}, ArchiveStart(Main, d), UNCHANGED process
      PROVE  ArchiveInv'
  <2>1. d \in 1..today
    BY <1>1 DEF TypeOK
  <2>2. archiveCh' \in Seq(1..today) /\ Len(archiveCh') <= ArchiveQueue
    BY <1>1, <1>2 DEF TypeOK
  <2>3. /\ TypeOK' /\ WhoArchives' /\ SharedIsNoted' /\ LogGoesLast' /\ ContentIsKept'
        /\ shared' = shared \/ \E v \in Worker : worker[v].d = d
        /\ zip \/ key => worker'[Main].d = d
    BY <1>2, <1>4, <2>1, <2>2, ArchiveStartInv
  <2>4. shared' = shared
    BY <1>1, <1>2, <2>1, <2>3, IdleWorker
  <2>5. SharedAfterFailure'
    BY <1>1, <1>2, <1>4, <2>4 DEF SharedAfterFailure
  <2>6. StartHasAll'
    <3> SUFFICES ASSUME ~failedStart
                 PROVE  /\ current = today
                        /\ zip \/ key => \A e \in 1..(today - 1) :
                             Has(e, "log") => \/ e \in todo' \cup {worker'[Main].d}
                                              \/ HoldsNothing(e)
      BY <1>2 DEF StartHasAll, Has, HoldsNothing
    <3>1. worker[Main].d = 0
      BY <1>2, IdleWorker
    <3> QED
      BY <1>1, <1>2, <1>4, <2>3, <3>1 DEF StartHasAll
  <2> QED
    BY <2>3, <2>5, <2>6 DEF ArchiveInv
<1> QED
  BY <1>3, <1>4 DEF archiveOldLogs

LEMMA ArchiveWorkerInv ==
  ASSUME ArchiveInv, NEW w \in ArchiveWorker, archiveWorker(w)
  PROVE  ArchiveInv'
<1> DEFINE d == Head(archiveCh)
<1>1. /\ TypeOK /\ SharedAfterFailure /\ today \in Nat /\ archiveCh \in Seq(1..today)
      /\ Len(archiveCh) <= ArchiveQueue /\ current \in Nat
  <2>1. TypeOK /\ SharedAfterFailure /\ today \in Nat
    BY ArchiveTypes DEF ArchiveInv
  <2> QED
    BY <2>1 DEF TypeOK
<1>2. /\ process = "up" /\ worker[w] = Idle /\ archiveCh # <<>> /\ ArchiveStart(w, d)
      /\ archiveCh' = Tail(archiveCh) /\ w \in Worker /\ w # Main
      /\ UNCHANGED <<mode, today, process, current, todo, dir, empty, faults, lossy, fellBack,
                     stuck, cleaned, failedStart>>
  BY ArchiveAssumption DEF archiveWorker, Worker
<1>3. /\ archiveCh' \in Seq(1..today) /\ Len(archiveCh') = Len(archiveCh) - 1
      /\ \A i \in DOMAIN archiveCh' : i + 1 \in DOMAIN archiveCh /\ archiveCh'[i] = archiveCh[i + 1]
      /\ d = archiveCh[1] /\ 1 \in DOMAIN archiveCh /\ Len(archiveCh) \in Nat
      /\ \A i \in DOMAIN archiveCh' : i \in Nat /\ i # 0
  <2>1. /\ archiveCh' \in Seq(1..today) /\ Len(archiveCh') = Len(archiveCh) - 1
        /\ \A i \in 1..Len(archiveCh') : archiveCh'[i] = archiveCh[i + 1]
        /\ d = archiveCh[1] /\ Len(archiveCh) \in Nat /\ Len(archiveCh) # 0
    BY <1>1, <1>2, HeadTailProperties, EmptySeq, LenProperties
  <2>2. DOMAIN archiveCh = 1..Len(archiveCh) /\ DOMAIN archiveCh' = 1..Len(archiveCh')
    BY <1>1, <2>1, LenProperties
  <2> QED
    BY <2>1, <2>2
<1>4. d \in 1..today
  BY <1>3, QueueDays
<1>5. Len(archiveCh') <= ArchiveQueue
  BY <1>1, <1>3, ArchiveAssumption
<1> HIDE DEF d
<1>6. /\ TypeOK' /\ WhoArchives' /\ SharedIsNoted' /\ LogGoesLast' /\ ContentIsKept'
      /\ \A v \in Worker : worker'[v].d = worker[v].d \/ worker'[v].d = d
      /\ shared' = shared \/ \E v \in Worker : worker[v].d = d
  BY <1>2, <1>3, <1>4, <1>5, ArchiveStartInv
<1>7. SharedAfterFailure'
  <2> SUFFICES ASSUME faults = 0
               PROVE  /\ shared' = {}
                      /\ current # NoDay
                      /\ \A i \in DOMAIN archiveCh' :
                           /\ archiveCh'[i] < current
                           /\ \A j \in DOMAIN archiveCh' : archiveCh'[i] = archiveCh'[j] => i = j
                           /\ \A v \in Worker : worker'[v].d # archiveCh'[i]
                      /\ \A v \in Worker : worker'[v].d < current
    BY <1>2 DEF SharedAfterFailure, NoDay
  <2>1. /\ shared = {} /\ current # NoDay
        /\ \A i \in DOMAIN archiveCh :
             /\ archiveCh[i] < current
             /\ \A j \in DOMAIN archiveCh : archiveCh[i] = archiveCh[j] => i = j
             /\ \A v \in Worker : worker[v].d # archiveCh[i]
        /\ \A v \in Worker : worker[v].d < current
    BY <1>1, <1>2 DEF SharedAfterFailure
  <2>2. shared' = {} /\ d < current
    BY <1>3, <1>6, <2>1
  <2>3. ASSUME NEW i \in DOMAIN archiveCh'
        PROVE  /\ archiveCh'[i] < current
               /\ \A j \in DOMAIN archiveCh' : archiveCh'[i] = archiveCh'[j] => i = j
               /\ \A v \in Worker : worker'[v].d # archiveCh'[i]
    <3>1. /\ i + 1 \in DOMAIN archiveCh /\ archiveCh'[i] = archiveCh[i + 1] /\ i \in Nat
          /\ i + 1 # 1
      BY <1>3
    <3>2. d # archiveCh[i + 1]
      BY <1>3, <2>1, <3>1
    <3>3. ASSUME NEW j \in DOMAIN archiveCh', archiveCh'[i] = archiveCh'[j]
          PROVE  i = j
      <4>1. j + 1 \in DOMAIN archiveCh /\ archiveCh'[j] = archiveCh[j + 1] /\ j \in Nat
        BY <1>3
      <4>2. i + 1 = j + 1
        BY <2>1, <3>1, <3>3, <4>1
      <4> QED
        BY <3>1, <4>1, <4>2
    <3>4. \A v \in Worker : worker'[v].d # archiveCh'[i]
      BY <1>6, <2>1, <3>1, <3>2
    <3> QED
      BY <2>1, <3>1, <3>3, <3>4
  <2> QED
    BY <1>6, <2>1, <2>2, <2>3
<1>8. StartHasAll'
  BY <1>2 DEF StartHasAll
<1> QED
  BY <1>6, <1>7, <1>8 DEF ArchiveInv

LEMMA FlushBufInv ==
  ASSUME ArchiveInv, flushBuf
  PROVE  ArchiveInv'
<1>1. /\ TypeOK /\ WhoArchives /\ SharedIsNoted /\ SharedAfterFailure
  BY DEF ArchiveInv
<1>2. /\ process = "up" /\ empty' \subseteq empty
      /\ UNCHANGED <<zip, key, today, process, current, todo, archiveCh, dir, worker, faults>>
      /\ UNCHANGED <<lossy, shared, fellBack, stuck, cleaned, failedStart>>
  BY DEF flushBuf, mode, queue, history
<1>3. LogGoesLast' /\ ContentIsKept'
  BY <1>2, NothingTouched
<1>4. TypeOK'
  BY <1>1, <1>2 DEF TypeOK, Has
<1>5. WhoArchives' /\ SharedIsNoted'
  BY <1>1, <1>2 DEF WhoArchives, SharedIsNoted, Idle, NoDay
<1>6. SharedAfterFailure' /\ StartHasAll'
  BY <1>1, <1>2 DEF SharedAfterFailure, StartHasAll
<1> QED
  BY <1>3, <1>4, <1>5, <1>6 DEF ArchiveInv

LEMMA RotateInv ==
  ASSUME ArchiveInv, Rotate
  PROVE  ArchiveInv'
<1>1. /\ TypeOK /\ WhoArchives /\ SharedIsNoted /\ SharedAfterFailure
      /\ today \in Nat /\ 1 <= today /\ dir \in DirType /\ faults \in Nat
      /\ current \in 0..today /\ archiveCh \in Seq(1..today) /\ Len(archiveCh) <= ArchiveQueue
  <2>1. /\ TypeOK /\ WhoArchives /\ SharedIsNoted /\ SharedAfterFailure
        /\ today \in Nat /\ 1 <= today /\ dir \in DirType /\ faults \in Nat
    BY ArchiveTypes DEF ArchiveInv
  <2> QED
    BY <2>1 DEF TypeOK
<1>2. /\ process = "up" /\ current # 0 /\ current # today
      /\ UNCHANGED <<zip, key, today, process, todo, worker, shared, lossy, fellBack, stuck, cleaned>>
      /\ UNCHANGED <<zip, key, history, worker>>
  BY DEF Rotate, mode, history, NoDay
<1>3. current \in 1..today /\ current < today
  BY <1>1, <1>2
<1>4. \/ archiveCh' = archiveCh
      \/ archiveCh' = Append(archiveCh, current) /\ Len(archiveCh) < ArchiveQueue
  BY DEF Rotate
<1>5. \/ /\ current' = today /\ dir' = [dir EXCEPT ![today]["log"] = File(TRUE)]
         /\ UNCHANGED <<faults, failedStart>>
      \/ UNCHANGED <<current, dir>> /\ faults' = faults + 1 /\ failedStart' = TRUE
  BY DEF Rotate, Opened, NotOpened, Works, Fails
<1>o. empty' \subseteq Day
  BY OpenedOrNot DEF Rotate
<1>n. Len(archiveCh) \in Nat /\ DOMAIN archiveCh = 1..Len(archiveCh)
  BY <1>1, LenProperties
<1>a. ASSUME archiveCh' = Append(archiveCh, current)
      PROVE  /\ archiveCh' \in Seq(1..today) /\ Len(archiveCh') = Len(archiveCh) + 1
             /\ \A i \in 1..Len(archiveCh) : archiveCh'[i] = archiveCh[i]
             /\ archiveCh'[Len(archiveCh) + 1] = current
             /\ DOMAIN archiveCh' = 1..(Len(archiveCh) + 1)
  <2>1. /\ archiveCh' \in Seq(1..today) /\ Len(archiveCh') = Len(archiveCh) + 1
        /\ \A i \in 1..Len(archiveCh) : archiveCh'[i] = archiveCh[i]
        /\ archiveCh'[Len(archiveCh) + 1] = current
    BY <1>1, <1>3, <1>a, AppendProperties
  <2>2. DOMAIN archiveCh' = 1..(Len(archiveCh) + 1)
    BY <2>1, LenProperties
  <2> QED
    BY <2>1, <2>2
<1>6. archiveCh' \in Seq(1..today) /\ Len(archiveCh') <= ArchiveQueue
  <2>1. CASE archiveCh' = archiveCh
    BY <1>1, <2>1
  <2>2. CASE archiveCh' = Append(archiveCh, current) /\ Len(archiveCh) < ArchiveQueue
    BY <1>a, <1>n, <2>2, ArchiveAssumption
  <2> QED
    BY <1>4, <2>1, <2>2
<1>e. ASSUME NEW i \in DOMAIN archiveCh'
      PROVE  \/ i \in DOMAIN archiveCh /\ archiveCh'[i] = archiveCh[i]
             \/ i = Len(archiveCh) + 1 /\ archiveCh'[i] = current
  <2>1. CASE archiveCh' = archiveCh
    <3>1. i \in DOMAIN archiveCh
      BY <1>e, <2>1, Zenon
    <3>2. archiveCh'[i] = archiveCh[i]
      BY <2>1, Zenon
    <3> QED
      BY <3>1, <3>2
  <2>2. CASE archiveCh' = Append(archiveCh, current)
    <3>1. i \in 1..(Len(archiveCh) + 1)
      BY <1>a, <1>e, <2>2, Zenon
    <3>2. i \in 1..Len(archiveCh) \/ i = Len(archiveCh) + 1
      BY <1>n, <3>1
    <3>3. CASE i \in 1..Len(archiveCh)
      <4>1. archiveCh'[i] = archiveCh[i]
        BY <1>a, <2>2, <3>3
      <4> QED
        BY <1>n, <3>3, <4>1, Zenon
    <3>4. CASE i = Len(archiveCh) + 1
      BY <1>a, <2>2, <3>4, Zenon
    <3> QED
      BY <3>2, <3>3, <3>4
  <2> QED
    BY <1>4, <2>1, <2>2
<1>7. /\ dir' \in DirType
      /\ \A d \in Day, k \in Kind : Has(d, k)' => dir'[d][k].made \in d..today
      /\ LogGoesLast' /\ ContentIsKept'
  <2>1. CASE dir' = [dir EXCEPT ![today]["log"] = File(TRUE)]
    <3>1. PICK t : t = today
      OBVIOUS
    <3>2. dir' = [dir EXCEPT ![t]["log"] = File(TRUE)]
      BY <2>1, <3>1
    <3> QED
      BY <1>2, <3>1, <3>2, LogOpened
  <2>2. CASE dir' = dir
    <3>1. LogGoesLast' /\ ContentIsKept'
      BY <1>2, <2>2, NothingTouched
    <3>2. \A d \in Day, k \in Kind : Has(d, k)' => dir'[d][k].made \in d..today
      BY <1>1, <2>2 DEF TypeOK, Has
    <3> QED
      BY <1>1, <2>2, <3>1, <3>2
  <2> QED
    BY <1>5, <2>1, <2>2
<1>8. TypeOK'
  <2>1. current' \in 0..today /\ faults' \in Nat
    <3>1. (current' = today \/ current' = current) /\ (faults' = faults \/ faults' = faults + 1)
      BY <1>5
    <3> QED
      BY <1>1, <3>1
  <2>2. failedStart' \in BOOLEAN
    BY <1>1, <1>5 DEF TypeOK
  <2> QED
    BY <1>1, <1>2, <1>o, <1>6, <1>7, <2>1, <2>2 DEF TypeOK, DirType
<1>9. WhoArchives' /\ SharedIsNoted'
  BY <1>1, <1>2 DEF WhoArchives, SharedIsNoted, Idle, NoDay
<1>10. SharedAfterFailure'
  <2> SUFFICES ASSUME faults' = 0
               PROVE  /\ shared = {}
                      /\ current' # 0
                      /\ \A i \in DOMAIN archiveCh' :
                           /\ archiveCh'[i] < current'
                           /\ \A j \in DOMAIN archiveCh' : archiveCh'[i] = archiveCh'[j] => i = j
                           /\ \A v \in Worker : worker[v].d # archiveCh'[i]
                      /\ \A v \in Worker : worker[v].d < current'
    BY <1>2 DEF SharedAfterFailure, NoDay
  <2>1. faults = 0 /\ current' = today
    <3>1. (current' = today /\ faults' = faults) \/ faults' = faults + 1
      BY <1>5
    <3> QED
      BY <1>1, <3>1
  <2>2. /\ shared = {}
        /\ \A i \in DOMAIN archiveCh :
             /\ archiveCh[i] < current
             /\ \A j \in DOMAIN archiveCh : archiveCh[i] = archiveCh[j] => i = j
             /\ \A v \in Worker : worker[v].d # archiveCh[i]
        /\ \A v \in Worker : worker[v].d < current
    BY <1>1, <1>2, <2>1 DEF SharedAfterFailure
  <2>3. \A v \in Worker : worker[v].d \in Nat
    BY <1>1 DEF TypeOK
  <2>4. \A i \in DOMAIN archiveCh : archiveCh[i] \in Nat /\ archiveCh[i] # current
    BY <1>1, <2>2, QueueDays
  <2>5. \A v \in Worker : worker[v].d # current /\ worker[v].d < today
    BY <1>1, <1>3, <2>2, <2>3
  <2>6. \A i \in DOMAIN archiveCh : archiveCh[i] < today
    BY <1>1, <1>3, <2>2, <2>4
  <2>7. ASSUME NEW i \in DOMAIN archiveCh'
        PROVE  /\ archiveCh'[i] < today
               /\ \A j \in DOMAIN archiveCh' : archiveCh'[i] = archiveCh'[j] => i = j
               /\ \A v \in Worker : worker[v].d # archiveCh'[i]
    BY <1>3, <1>e, <1>n, <2>2, <2>4, <2>5, <2>6
  <2> QED
    BY <1>1, <2>1, <2>2, <2>5, <2>7
<1>11. StartHasAll'
  BY <1>2 DEF StartHasAll
<1> QED
  BY <1>7, <1>8, <1>9, <1>10, <1>11 DEF ArchiveInv

\* What a cleanup removes.
LEMMA CleanupFacts ==
  ASSUME ArchiveInv, cleanup
  PROVE  /\ dir' \in DirType /\ cleaned \subseteq cleaned'
         /\ \A d \in Day, k \in Kind : dir'[d][k] = dir[d][k] \/ (dir'[d][k] = None /\ d \in cleaned')
         /\ \A d \in Day \ cleaned' : dir'[d] = dir[d]
         /\ \A d \in cleaned' \ cleaned : d + MaxAge <= today
         /\ \/ UNCHANGED <<faults, failedStart>>
            \/ faults' = faults + 1 /\ failedStart' = TRUE
<1>1. PICK sharp \in BOOLEAN :
        LET age == IF sharp THEN MaxAge ELSE MaxAge + 1
            old == {f \in Day \X Kind : Has(f[1], f[2]) /\ dir[f[1]][f[2]].made + age <= today}
        IN \E gone \in SUBSET old :
             /\ dir' = [d \in Day |-> [k \in Kind |-> IF <<d, k>> \in gone THEN None ELSE dir[d][k]]]
             /\ cleaned' = cleaned \cup {f[1] : f \in gone}
             /\ IF gone = old THEN Works ELSE Fails
  BY DEF cleanup
<1> DEFINE age == IF sharp THEN MaxAge ELSE MaxAge + 1
           old == {f \in Day \X Kind : Has(f[1], f[2]) /\ dir[f[1]][f[2]].made + age <= today}
<1>2. PICK gone \in SUBSET old :
        /\ dir' = [d \in Day |-> [k \in Kind |-> IF <<d, k>> \in gone THEN None ELSE dir[d][k]]]
        /\ cleaned' = cleaned \cup {f[1] : f \in gone}
        /\ IF gone = old THEN Works ELSE Fails
  BY <1>1
<1>3. /\ dir \in DirType /\ today \in Nat /\ MaxAge \in Nat /\ age \in Nat /\ MaxAge <= age
  BY ArchiveTypes, Days
<1> HIDE DEF age
<1>4. \A d \in Day, k \in Kind :
        /\ dir'[d][k] = IF <<d, k>> \in gone THEN None ELSE dir[d][k]
        /\ <<d, k>> \in gone => d \in cleaned'
  <2> SUFFICES ASSUME NEW d \in Day, NEW k \in Kind
               PROVE  /\ dir'[d][k] = IF <<d, k>> \in gone THEN None ELSE dir[d][k]
                      /\ <<d, k>> \in gone => d \in cleaned'
    OBVIOUS
  <2>1. <<d, k>>[1] = d
    OBVIOUS
  <2>2. <<d, k>> \in gone => d \in {f[1] : f \in gone}
    BY <2>1, Zenon
  <2> QED
    BY <1>2, <2>2
<1>5. dir' \in DirType
  BY <1>2, <1>3 DEF DirType
<1>6. ASSUME NEW d \in Day \ cleaned'
      PROVE  dir'[d] = dir[d]
  <2>1. \A k \in Kind : dir'[d][k] = dir[d][k]
    BY <1>4
  <2>2. dir'[d] \in [Kind -> FileType \cup {None}] /\ dir[d] \in [Kind -> FileType \cup {None}]
    BY <1>3, <1>5 DEF DirType
  <2> QED
    BY <2>1, <2>2
<1>7. ASSUME NEW d \in cleaned' \ cleaned
      PROVE  d + MaxAge <= today
  <2>1. PICK f \in gone : f[1] = d
    BY <1>2, <1>7
  <2>2. /\ f \in Day \X Kind /\ Has(f[1], f[2]) /\ dir[f[1]][f[2]].made + age <= today
    BY <1>2, <2>1
  <2>3. PICK k \in Kind : f = <<d, k>>
    BY <2>1, <2>2
  <2>4. d \in Day /\ Has(d, k) /\ dir[d][k].made + age <= today
    BY <2>2, <2>3
  <2>5. dir[d][k].made \in d..today
    BY <2>4 DEF ArchiveInv, TypeOK
  <2>6. d \in Nat
    BY <2>4, Days DEF Day
  <2> QED
    BY <1>3, <2>4, <2>5, <2>6
<1>8. \/ UNCHANGED <<faults, failedStart>>
      \/ faults' = faults + 1 /\ failedStart' = TRUE
  BY <1>2 DEF Works, Fails
<1> QED
  BY <1>2, <1>4, <1>5, <1>6, <1>7, <1>8

LEMMA CleanupInv ==
  ASSUME ArchiveInv, cleanup
  PROVE  ArchiveInv'
<1>1. /\ TypeOK /\ WhoArchives /\ SharedIsNoted /\ SharedAfterFailure
      /\ today \in Nat /\ 1 <= today /\ dir \in DirType /\ faults \in Nat /\ current \in Nat
  BY ArchiveTypes DEF ArchiveInv, TypeOK
<1>2. /\ process = "clean" /\ process' = "up" /\ archiveCh = <<>>
      /\ \A w \in Worker : worker[w] = Idle
      /\ UNCHANGED <<zip, key, today, current, todo, archiveCh, empty, worker>>
      /\ UNCHANGED <<lossy, shared, fellBack, stuck>>
  BY WhoIsIdle DEF cleanup, mode, queue
<1>3. /\ dir' \in DirType /\ cleaned \subseteq cleaned'
      /\ \A d \in Day, k \in Kind : dir'[d][k] = dir[d][k] \/ (dir'[d][k] = None /\ d \in cleaned')
      /\ \A d \in Day \ cleaned' : dir'[d] = dir[d]
  BY CleanupFacts
<1>4. \/ UNCHANGED <<faults, failedStart>>
      \/ faults' = faults + 1 /\ failedStart' = TRUE
  BY CleanupFacts
<1>5. TypeOK'
  <2>1. faults' \in Nat
    <3>1. faults' = faults \/ faults' = faults + 1
      BY <1>4
    <3> QED
      BY <1>1, <3>1
  <2>2. failedStart' \in BOOLEAN
    BY <1>1, <1>4 DEF TypeOK
  <2>3. \A d \in Day, k \in Kind : Has(d, k)' => dir'[d][k].made \in d..today
    BY <1>1, <1>3 DEF TypeOK, Has
  <2>4. process' \in {"down", "start", "clean", "up"}
    BY <1>2
  <2> QED
    BY <1>1, <1>2, <1>3, <2>1, <2>2, <2>3, <2>4 DEF TypeOK, DirType
<1>6. WhoArchives' /\ SharedIsNoted'
  <2>1. WhoArchives'
    BY <1>1, <1>2, IdleWorker DEF WhoArchives, Idle, NoDay
  <2> QED
    BY <1>1, <1>2, <2>1 DEF SharedIsNoted, NoDay
<1>7. LogGoesLast' /\ ContentIsKept'
  <2>1. ASSUME NEW d \in Day
        PROVE  InOrder(d)' /\ (d \notin shared' \cup cleaned' => Kept(d)')
    <3>1. CASE d \in cleaned'
      <4>1. InOrder(d) /\ "log" \in Kind /\ "gz" \in Kind
        BY DaysOfInv DEF Kind
      <4> QED
        BY <1>2, <1>3, <3>1, <4>1 DEF InOrder, Has
    <3>2. CASE d \notin cleaned'
      BY <1>2, <1>3, <3>2, DaysOfInv, SameDay
    <3> QED
      BY <3>1, <3>2
  <2>2. \A w \in Worker : StepIsSafe(w)'
    <3>1. \A w \in Worker : worker'[w].at = "idle"
      BY <1>2, IdleWorker
    <3> QED
      BY <3>1, IdleIsSafeNext
  <2> QED
    BY <2>1, <2>2, DaysToInv
<1>8. SharedAfterFailure'
  <2> SUFFICES ASSUME faults' = 0
               PROVE  /\ shared = {} /\ current # 0
                      /\ \A i \in DOMAIN archiveCh : FALSE
                      /\ \A w \in Worker : worker[w].d < current
    BY <1>2 DEF SharedAfterFailure, NoDay
  <2>1. faults = 0
    <3>1. faults' = faults \/ faults' = faults + 1
      BY <1>4
    <3> QED
      BY <1>1, <3>1
  <2>2. shared = {} /\ current # 0
    BY <1>1, <1>2, <2>1 DEF SharedAfterFailure, NoDay
  <2>3. \A i \in DOMAIN archiveCh : FALSE
    BY <1>2
  <2>4. \A w \in Worker : worker[w].d = 0
    BY <1>2, IdleWorker
  <2> QED
    BY <1>1, <2>2, <2>3, <2>4
<1>9. StartHasAll'
  BY <1>2 DEF StartHasAll
<1> QED
  BY <1>5, <1>6, <1>7, <1>8, <1>9 DEF ArchiveInv

LEMMA ExitInv ==
  ASSUME ArchiveInv, Exit
  PROVE  ArchiveInv'
<1>1. /\ TypeOK /\ WhoArchives /\ SharedIsNoted /\ SharedAfterFailure
      /\ today \in Nat /\ 1 <= today /\ worker \in [Worker -> StepType]
  BY ArchiveTypes DEF ArchiveInv
<1>2. /\ process # "down" /\ process' = "down" /\ current' = 0 /\ todo' = {} /\ archiveCh' = <<>>
      /\ worker' = [w \in Worker |-> Idle]
      /\ UNCHANGED <<zip, key, today, dir, empty, faults, failedStart>>
      /\ UNCHANGED <<lossy, shared, fellBack, stuck, cleaned>>
  BY DEF Exit, mode, history, NoDay
<1>3. Idle \in StepType
  BY <1>1 DEF StepType, Idle, Steps, NoDay
<1>4. TypeOK'
  <2>1. current' \in 0..today /\ process' \in {"down", "start", "clean", "up"}
        /\ todo' \subseteq 1..today /\ worker' \in [Worker -> StepType]
    BY <1>1, <1>2, <1>3
  <2>2. archiveCh' \in Seq(1..today) /\ Len(archiveCh') <= ArchiveQueue
    BY <1>2, ArchiveAssumption, EmptySeq
  <2> QED
    BY <1>1, <1>2, <2>1, <2>2 DEF TypeOK, StepType, Has
<1>5. \A w \in Worker : worker'[w] = Idle /\ Idle.at = "idle" /\ Idle.d = 0
  BY <1>2, IdleWorker
<1>6. WhoArchives' /\ SharedIsNoted'
  <2>1. Idle' = Idle /\ NoDay' = 0 /\ NoDay = 0
    BY DEF Idle, NoDay
  <2> QED
    BY <1>2, <1>5, <2>1 DEF WhoArchives, SharedIsNoted
<1>7. LogGoesLast' /\ ContentIsKept'
  <2>1. \A d \in Day : InOrder(d)' /\ (d \notin shared' \cup cleaned' => Kept(d)')
    BY <1>2, DaysOfInv, SameDay
  <2>2. \A w \in Worker : StepIsSafe(w)'
    <3>1. \A w \in Worker : worker'[w].at = "idle"
      BY <1>5
    <3> QED
      BY <3>1, IdleIsSafeNext
  <2> QED
    BY <2>1, <2>2, DaysToInv
<1>8. SharedAfterFailure' /\ StartHasAll'
  <2>1. \A i \in DOMAIN archiveCh' : FALSE
    BY <1>2
  <2> QED
    BY <1>1, <1>2, <2>1 DEF SharedAfterFailure, StartHasAll
<1> QED
  BY <1>4, <1>6, <1>7, <1>8 DEF ArchiveInv

LEMMA NewDayInv ==
  ASSUME ArchiveInv, NewDay
  PROVE  ArchiveInv'
<1>1. /\ TypeOK /\ WhoArchives /\ SharedIsNoted /\ SharedAfterFailure
      /\ today \in Nat /\ 1 <= today
  BY ArchiveTypes DEF ArchiveInv
<1>2. /\ process \in {"down", "up"} /\ today < MaxDay /\ today' = today + 1
      /\ UNCHANGED <<zip, key, process, current, todo, archiveCh, dir, empty, worker, faults,
                     failedStart>>
      /\ UNCHANGED <<lossy, shared, fellBack, stuck, cleaned>>
  BY DEF NewDay, mode, queue, history
<1>3. /\ today' \in Day /\ 0..today \subseteq 0..today' /\ 1..today \subseteq 1..today'
      /\ \A d \in Day : d..today \subseteq d..today'
  BY <1>1, <1>2, Days DEF Day
<1>4. TypeOK'
  <2>1. /\ current \in 0..today' /\ todo \subseteq 1..today'
        /\ \A d \in Day, k \in Kind : Has(d, k)' => dir'[d][k].made \in d..today'
    BY <1>1, <1>2, <1>3 DEF TypeOK, Has
  <2>2. archiveCh \in Seq(1..today')
    BY <1>3, QueueDays, SeqMonotonic
  <2>3. worker \in [Worker -> [at : Steps, d : 0..today', data : FileType \cup {None}]]
    BY <1>1, <1>3 DEF TypeOK
  <2> QED
    BY <1>1, <1>2, <1>3, <2>1, <2>2, <2>3 DEF TypeOK
<1>5. WhoArchives' /\ SharedIsNoted'
  BY <1>1, <1>2 DEF WhoArchives, SharedIsNoted, Idle, NoDay
<1>6. LogGoesLast' /\ ContentIsKept'
  BY <1>2, NothingTouched
<1>7. SharedAfterFailure' /\ StartHasAll'
  BY <1>1, <1>2 DEF SharedAfterFailure, StartHasAll, NoDay
<1> QED
  BY <1>4, <1>5, <1>6, <1>7 DEF ArchiveInv

\* Every day's log survives every failure and crash as it was written or
\* archived, but for what lossy, shared and cleaned name; no goroutine relies
\* on a file another removes; and two take one file only after a failure.
THEOREM LogsAreKept == Spec => []ArchiveInv
<1>1. Init => ArchiveInv
  <2> SUFFICES ASSUME Init PROVE ArchiveInv
    OBVIOUS
  <2>1. /\ today = 1 /\ process = "down" /\ current = 0 /\ todo = {} /\ archiveCh = <<>>
        /\ worker = [w \in Worker |-> Idle] /\ faults = 0 /\ failedStart = FALSE
        /\ zip \in BOOLEAN /\ key \in BOOLEAN /\ shared = {}
        /\ dir = [d \in Day |-> [k \in Kind |-> None]] /\ empty = {}
        /\ Idle \in StepType /\ Idle.at = "idle" /\ Idle.d = 0 /\ NoDay = 0
    BY DEF Init, NoDay, Idle, StepType, Steps
  <2>2. \A d \in Day, k \in Kind : ~Has(d, k)
    BY <2>1 DEF Has
  <2>3. TypeOK
    <3>1. today \in Day /\ dir \in [Day -> [Kind -> FileType \cup {None}]]
      BY <2>1, Days DEF Day
    <3>2. archiveCh \in Seq(1..today) /\ Len(archiveCh) <= ArchiveQueue
      BY <2>1, ArchiveAssumption, EmptySeq
    <3>3. worker \in [Worker -> StepType]
      BY <2>1
    <3> QED
      BY <2>1, <2>2, <3>1, <3>2, <3>3 DEF TypeOK, StepType
  <2>4. WhoArchives /\ SharedIsNoted
    BY <2>1 DEF WhoArchives, SharedIsNoted
  <2>5. "log" \in Kind /\ "gz" \in Kind
    BY DEF Kind
  <2>6. LogGoesLast /\ ContentIsKept
    BY <2>1, <2>2, <2>5 DEF LogGoesLast, ContentIsKept, StepIsSafe
  <2>7. SharedAfterFailure /\ StartHasAll
    BY <2>1 DEF SharedAfterFailure, StartHasAll
  <2> QED
    BY <2>3, <2>4, <2>6, <2>7 DEF ArchiveInv
<1>2. ArchiveInv /\ [Next]_vars => ArchiveInv'
  <2> SUFFICES ASSUME ArchiveInv, [Next]_vars PROVE ArchiveInv'
    OBVIOUS
  <2>1. CASE UNCHANGED vars
    <3>1. /\ UNCHANGED <<zip, key, today, process, current, todo, archiveCh, dir, empty, worker>>
          /\ UNCHANGED faults
          /\ UNCHANGED <<lossy, shared, fellBack, stuck, cleaned, failedStart>>
      BY <2>1 DEF vars, mode, queue, history
    <3>2. LogGoesLast' /\ ContentIsKept'
      BY <3>1, NothingTouched
    <3> QED
      BY <3>1, <3>2 DEF ArchiveInv, TypeOK, WhoArchives, SharedIsNoted, SharedAfterFailure,
                        StartHasAll, Has, HoldsNothing, Idle, NoDay
  <2> QED
    BY <2>1, NewWriterInv, ArchiveOldInv, CleanupInv, FlushBufInv, RotateInv, ExitInv, NewDayInv,
       ArchiveWorkerInv, ArchiveFileInv DEF Next
<1> QED
  BY <1>1, <1>2, PTL DEF Spec

\* No step loses a day at once, whatever fails: a file of it is followed by a
\* file of it, and cleanup takes nothing younger than MaxAge days.
THEOREM NothingIsLostAtOnce == Spec => NothingVanishes
<1> DEFINE Vanish == /\ \A d \in Day \ (shared \cup cleaned') :
                          (\E k \in Kind : Has(d, k)) => \E k \in Kind : dir'[d][k] # None
                     /\ \A d \in cleaned' \ cleaned : d + MaxAge <= today
<1>1. ArchiveInv /\ [Next]_vars => [Vanish]_vars
  <2> SUFFICES ASSUME ArchiveInv, Next PROVE Vanish
    OBVIOUS
  <2>1. ASSUME cleaned' = cleaned,
               \A d \in Day \ (shared \cup cleaned) : Any(d) => Any(d)'
        PROVE  Vanish
    BY <2>1 DEF Any, Has
  <2>2. CASE UNCHANGED <<dir, cleaned>>
    BY <2>2 DEF Has
  <2>3. CASE newAsyncWriter \/ Rotate
    <3>1. UNCHANGED <<zip, key, history, worker, cleaned>>
      BY <2>3 DEF newAsyncWriter, Rotate, mode, history
    <3>2. PICK t : t = today
      OBVIOUS
    <3>3. dir' = [dir EXCEPT ![t]["log"] = File(TRUE)] \/ dir' = dir
      BY <2>3, <3>2, OpenedOrNot DEF newAsyncWriter, Rotate
    <3>4. CASE dir' = [dir EXCEPT ![t]["log"] = File(TRUE)]
      <4>1. \A d \in Day : Any(d) => Any(d)'
        BY <3>1, <3>2, <3>4, LogOpened
      <4> QED
        BY <2>1, <3>1, <4>1
    <3> QED
      BY <2>2, <3>1, <3>3, <3>4
  <2>4. CASE cleanup
    <3>1. /\ \A d \in Day \ cleaned' : dir'[d] = dir[d]
          /\ \A d \in cleaned' \ cleaned : d + MaxAge <= today
      BY <2>4, CleanupFacts
    <3> QED
      BY <3>1 DEF Has
  <2>5. ASSUME NEW w \in Worker, archiveFile(w)
        PROVE  Vanish
    <3>1. cleaned' = cleaned
      BY <2>5 DEF archiveFile, compressAndEncrypt, encryptFile, openLog, createGz, copyGz,
                  readPlain, writeEnc, removePlain, Remove, aside
    <3>2. Keeps
      BY <2>5, ArchiveFileInv
    <3> QED
      BY <2>1, <3>1, <3>2 DEF Keeps
  <2>6. ASSUME NEW w \in ArchiveWorker, archiveWorker(w)
        PROVE  Vanish
    BY <2>2, <2>6 DEF archiveWorker
  <2>7. CASE archiveOldLogs \/ flushBuf \/ Exit \/ NewDay
    BY <2>2, <2>7 DEF archiveOldLogs, flushBuf, Exit, NewDay, history
  <2> QED
    BY <2>3, <2>4, <2>5, <2>6, <2>7 DEF Next
<1> QED
  BY <1>1, LogsAreKept, PTL DEF Spec, NothingVanishes

\* A start during which nothing fails leaves no plain log of a past day but one
\* to encrypt that holds no line, and with a key no gzip file, whatever the
\* processes before it left half done.
THEOREM StartFinishesAll == Spec => StartFinishes
<1> DEFINE Finish == process = "start" /\ process' = "clean" /\ ~failedStart /\ (zip \/ key) =>
                       \A d \in 1..(current - 1) :
                         /\ ~Has(d, "log") \/ HoldsNothing(d)
                         /\ key => ~Has(d, "gz") \/ d \in fellBack \cup stuck \cup cleaned \cup shared
<1>1. ArchiveInv /\ [Next]_vars => [Finish]_vars
  <2> SUFFICES ASSUME ArchiveInv, Next, process = "start", process' = "clean", ~failedStart,
                      zip \/ key, NEW d \in 1..(current - 1)
               PROVE  /\ ~Has(d, "log") \/ HoldsNothing(d)
                      /\ key => ~Has(d, "gz") \/ d \in fellBack \cup stuck \cup cleaned \cup shared
    OBVIOUS
  <2>1. archiveOldLogs
    <3>1. \A w \in Worker : ~archiveFile(w)
      BY StepFacts
    <3>2. \A w \in ArchiveWorker : ~archiveWorker(w)
      BY DEF archiveWorker
    <3>3. ~newAsyncWriter /\ ~cleanup /\ ~flushBuf /\ ~Rotate /\ ~Exit /\ ~NewDay
      BY DEF newAsyncWriter, cleanup, flushBuf, Rotate, Exit, NewDay
    <3> QED
      BY <3>1, <3>2, <3>3 DEF Next
  <2>2. todo = {} /\ worker[Main] = Idle
    BY <2>1 DEF archiveOldLogs
  <2>3. current = today /\ today \in Nat /\ today <= MaxDay /\ StartHasAll /\ LogGoesLast
    BY ArchiveTypes DEF ArchiveInv, StartHasAll
  <2>4. d \in Day /\ d # 0 /\ d \in 1..(today - 1)
    BY <2>3, Days DEF Day
  <2>5. ~Has(d, "log") \/ HoldsNothing(d)
    BY <2>2, <2>3, <2>4, IdleWorker DEF StartHasAll
  <2> QED
    BY <2>3, <2>4, <2>5 DEF LogGoesLast, HoldsNothing
<1> QED
  BY <1>1, LogsAreKept, PTL DEF Spec, StartFinishes
==============================================================================
