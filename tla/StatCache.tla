------------------------------- MODULE StatCache -------------------------------
(***************************************************************************)
(* The two caches of statistics: tjHMap, which TaskHour empties, and       *)
(* tjMap, which TaskDay empties and PostServerDomain keeps its retry       *)
(* records in.  A request looks its answer up, asks the database on a      *)
(* miss, and stores what it got, each under the lock but the query, so a   *)
(* task may empty the cache between any two of them.                       *)
(*                                                                         *)
(* An entry is told by the period the database was asked in: of "hour" a   *)
(* period ends when ServerStatTjHour has computed, of "day" at midnight.   *)
(* Within a period the answer goes on changing (GetServerStatsByDay counts *)
(* what CreateServerStat has stored up to now) and an entry does not       *)
(* follow: the code has it stand for the whole of its period.  One key of  *)
(* each cache is followed.                                                 *)
(***************************************************************************)
EXTENDS Naturals

CONSTANTS
  Req,         \* requests that read statistics
  Prov,        \* requests of PostServerDomain
  None,        \* no entry
  MaxPeriod    \* bound: periods of each cache

CacheAssumption == MaxPeriod \in Nat

Cache == {"hour", "day"}

VARIABLES
  cached,   \* the entry of each cache: the period the database was asked in
  period,   \* the period it is
  reader,   \* the requests
  task,     \* TaskHour and TaskDay
  prov,     \* PostServerDomain: in the map or not
  fatal     \* the runtime has found two accesses to one map at once

vars == <<cached, period, reader, task, prov, fatal>>

Idle == [at |-> "idle", c |-> "hour", v |-> 0]

Init ==
  /\ cached = [c \in Cache |-> None]
  /\ period = [c \in Cache |-> 0]
  /\ reader = [r \in Req |-> Idle]
  /\ task = [c \in Cache |-> "idle"]
  /\ prov = [p \in Prov |-> "idle"]
  /\ fatal = FALSE
------------------------------------------------------------------------------
(***************************************************************************)
(* Locks.  tjHMu and tjMu guard the caches; PostServerDomain goes to tjMap *)
(* under domainMu, which is another lock.                                  *)
(***************************************************************************)
Reading(c) == {r \in Req : reader[r].at = "lookup" /\ reader[r].c = c}
Storing(c) == {r \in Req : reader[r].at = "store" /\ reader[r].c = c}
Clearing(c) == task[c] = "clear"
Cleared == {c \in Cache : Clearing(c)}
InMap == {p \in Prov : prov[p] = "in"}

CanRead(c) == Storing(c) = {} /\ ~Clearing(c)
CanWrite(c) == CanRead(c) /\ Reading(c) = {}
Unlocked == InMap = {}

\* Two accesses at once of which one writes: the runtime may end the process.
Races(c) ==
  LET writers == {<<"store", r>> : r \in Storing(c)} \cup {<<"clear", t>> : t \in {c} \cap Cleared}
                   \cup {<<"domain", p>> : p \in IF c = "day" THEN InMap ELSE {}}
  IN \E w \in writers : writers # {w} \/ Reading(c) # {}

Detected == fatal' \in IF \E c \in Cache : Races(c)' THEN BOOLEAN ELSE {FALSE}
------------------------------------------------------------------------------
(***************************************************************************)
(* GetMaxOnUserByTime, GetOnUserByTime (tjHMap), GetServerStatsByDay       *)
(* (tjMap).                                                                *)
(***************************************************************************)
Becomes(r, at) == reader' = [reader EXCEPT ![r].at = at]

Lookup(r, c) ==
  /\ reader[r] = Idle /\ CanRead(c)
  /\ reader' = [reader EXCEPT ![r] = [at |-> "lookup", c |-> c, v |-> 0]]
  /\ UNCHANGED <<cached, period, task, prov>>
  /\ Detected

LookedUp(r) ==
  /\ reader[r].at = "lookup"
  /\ IF cached[reader[r].c] # None THEN reader' = [reader EXCEPT ![r] = Idle]
                                   ELSE Becomes(r, "query")
  /\ UNCHANGED <<cached, period, task, prov, fatal>>

\* An error is returned and not stored.
Query(r) ==
  /\ reader[r].at = "query"
  /\ \/ reader' = [reader EXCEPT ![r].at = "answered", ![r].v = period[reader[r].c]]
     \/ reader' = [reader EXCEPT ![r] = Idle]
  /\ UNCHANGED <<cached, period, task, prov, fatal>>

Store(r) ==
  /\ reader[r].at = "answered" /\ CanWrite(reader[r].c) /\ Becomes(r, "store")
  /\ UNCHANGED <<cached, period, task, prov>>
  /\ Detected

\* lag is how many periods the request was at it.
Stored(r) ==
  LET c == reader[r].c IN
  /\ reader[r].at = "store"
  /\ cached' = [cached EXCEPT ![c] = [v |-> reader[r].v, lag |-> period[c] - reader[r].v]]
  /\ reader' = [reader EXCEPT ![r] = Idle]
  /\ UNCHANGED <<period, task, prov, fatal>>

\* GetServerStatsByAppDay looks up a key nobody stores.
GetServerStatsByAppDay(r) ==
  /\ reader[r].at = "lookup" /\ reader[r].c = "day"
  /\ reader' = [reader EXCEPT ![r] = Idle]
  /\ UNCHANGED <<cached, period, task, prov, fatal>>
------------------------------------------------------------------------------
(***************************************************************************)
(* The tasks; each is skipped while it still runs.                         *)
(***************************************************************************)
ClearOf(c) ==
  /\ task[c] = "idle" /\ CanWrite(c)
  /\ task' = [task EXCEPT ![c] = "clear"]
  /\ UNCHANGED <<cached, period, reader, prov>>
  /\ Detected

TaskHourKeeps ==
  /\ task["hour"] = "clear"
  /\ task' = [task EXCEPT !["hour"] = "delete"]
  /\ UNCHANGED <<cached, period, reader, prov, fatal>>

\* TaskHour empties its cache first; then it deletes old rows, and an error
\* of that ends it; ServerStatTjHour comes last.
TaskHourEmpties ==
  /\ task["hour"] = "clear"
  /\ task' = [task EXCEPT !["hour"] = "delete"]
  /\ cached' = [cached EXCEPT !["hour"] = None]
  /\ UNCHANGED <<period, reader, prov, fatal>>

TaskHourDeletes ==
  /\ task["hour"] = "delete"
  /\ task' \in {[task EXCEPT !["hour"] = "compute"], [task EXCEPT !["hour"] = "idle"]}
  /\ UNCHANGED <<cached, period, reader, prov, fatal>>

ServerStatTjHour ==
  /\ task["hour"] = "compute" /\ period["hour"] < MaxPeriod
  /\ task' = [task EXCEPT !["hour"] = "idle"]
  /\ period' \in {period, [period EXCEPT !["hour"] = @ + 1]}
  /\ UNCHANGED <<cached, reader, prov, fatal>>

TaskHour == ClearOf("hour") \/ TaskHourEmpties \/ TaskHourDeletes \/ ServerStatTjHour

\* TaskDay, at five each day, before the date changes again.
TaskDayEmpties ==
  /\ task["day"] = "clear"
  /\ task' = [task EXCEPT !["day"] = "done"]
  /\ cached' = [cached EXCEPT !["day"] = None]
  /\ UNCHANGED <<period, reader, prov, fatal>>

TaskDay == ClearOf("day") \/ TaskDayEmpties

NewDay ==
  /\ task["day"] = "done" /\ period["day"] < MaxPeriod
  /\ task' = [task EXCEPT !["day"] = "idle"]
  /\ period' = [period EXCEPT !["day"] = @ + 1]
  /\ UNCHANGED <<cached, reader, prov, fatal>>

\* PostServerDomain reads, writes or deletes its record of a domain.
PostServerDomain(p) ==
  \/ /\ prov[p] = "idle" /\ Unlocked
     /\ prov' = [prov EXCEPT ![p] = "in"]
     /\ UNCHANGED <<cached, period, reader, task>>
     /\ Detected
  \/ /\ prov[p] = "in"
     /\ prov' = [prov EXCEPT ![p] = "idle"]
     /\ UNCHANGED <<cached, period, reader, task, fatal>>

Next ==
  /\ ~fatal
  /\ \/ \E r \in Req : \/ \E c \in Cache : Lookup(r, c)
                       \/ LookedUp(r) \/ Query(r) \/ Store(r) \/ Stored(r)
                       \/ GetServerStatsByAppDay(r)
     \/ TaskHour \/ TaskDay \/ NewDay
     \/ \E p \in Prov : PostServerDomain(p)

Spec == Init /\ [][Next]_vars
------------------------------------------------------------------------------
(***************************************************************************)
(* Properties.                                                             *)
(***************************************************************************)

\* The types; no entry, and no answer on its way, is of a period to come.
TypeOK ==
  /\ period \in [Cache -> 0..MaxPeriod]
  /\ cached \in [Cache -> [v : 0..MaxPeriod, lag : 0..MaxPeriod] \cup {None}]
  /\ reader \in [Req -> [at : {"idle", "lookup", "query", "answered", "store"},
                         c : Cache, v : 0..MaxPeriod]]
  /\ task \in [Cache -> {"idle", "clear", "delete", "compute", "done"}]
  /\ prov \in [Prov -> {"idle", "in"}] /\ fatal \in BOOLEAN
  /\ \A c \in Cache : cached[c] # None => cached[c].v + cached[c].lag <= period[c]
  /\ \A r \in Req : reader[r].v <= period[reader[r].c]

\* An entry is of the period it was stored in and of the one after at most:
\* what a task's clearing leaves behind, or a slow request stores after it,
\* goes at the next clearing.  (The cache of the hour is cleared before the
\* computation, and can be filled with what that replaces.)
GoneByTheNextClearing ==
  \A c \in Cache : cached[c] # None =>
    \/ period[c] = cached[c].v + cached[c].lag
    \/ period[c] = cached[c].v + cached[c].lag + 1 /\ task[c] \in {"idle", "clear"}

\* The maps are guarded from all but PostServerDomain: no two requests or
\* tasks are in one map at once with one of them writing.
RacesOnlyWithProvisioning ==
  \A c \in Cache :
    /\ Races(c) => c = "day" /\ InMap # {}
    /\ Storing(c) # {} => Reading(c) = {} /\ ~Clearing(c)
    /\ Clearing(c) => Reading(c) = {}
    /\ \A r, s \in Storing(c) : r = s

\* What every moment's caches are.
Inv == TypeOK /\ GoneByTheNextClearing /\ RacesOnlyWithProvisioning
==============================================================================
