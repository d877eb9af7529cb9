------------------------------- MODULE UrlWatch -------------------------------
(***************************************************************************)
(* The monitored URLs: the table server_urls that operators edit, the      *)
(* dictionary table server_dicts whose deletion also touches it, and the   *)
(* seven-minute check ApiNelNet with its counters errUrlMap                *)
(* (services/other_service.go, repositories/                               *)
(* server_urlandhost_repository.go).  A handler is one statement of the    *)
(* database; ApiNelNet is the query of its rows and, probes later, one     *)
(* section under errIpMu.                                                  *)
(***************************************************************************)
EXTENDS Integers, FiniteSets

CONSTANTS
  Id,          \* primary keys, in either table: both take the client's
  Dict,        \* those a dictionary entry may be given
  Down,        \* environment: URLs that never answer
  AlertAfter,  \* 3 in the code: alert when the counter is greater
  CountCap     \* bound: counters are told apart up to here

ASSUME WatchAssumption ==
  /\ Dict \subseteq Id
  /\ Down \subseteq Id
  /\ AlertAfter \in Nat \ {0}
  /\ CountCap \in Nat /\ CountCap > AlertAfter

VARIABLES
  server_urls,   \* ids of the table's rows
  server_dicts,  \* ids of the table's rows
  errUrlMap,     \* the counters, 0 for an id the map does not hold
  urls,          \* rows ApiNelNet has read and is probing; {} when idle
  msg            \* ids in the message it composed last

VARIABLES
  since,     \* history: failed probes since one of that URL last succeeded
  late,      \* history: alerts about a URL since its row was deleted
  dictGone   \* history: entries whose deletion was answered with success,
             \* and that were not written since

tables == <<server_urls, server_dicts, dictGone>>
watch == <<errUrlMap, urls, msg, since>>
vars == <<tables, watch, late>>

NoCounts == [i \in Id |-> 0]
Bump(n) == IF n < CountCap THEN n + 1 ELSE n

\* The tables outlive the process, the counters do not.
Init ==
  /\ server_urls \in SUBSET Id
  /\ server_dicts \in SUBSET Dict
  /\ errUrlMap = NoCounts
  /\ urls = {}
  /\ msg = {}
  /\ since = NoCounts
  /\ late = NoCounts
  /\ dictGone = {}
------------------------------------------------------------------------------
(***************************************************************************)
(* The handlers.                                                           *)
(***************************************************************************)

\* Save inserts the row or overwrites it; the counters know nothing of it.
PostServerUrl(i) ==
  /\ server_urls' = server_urls \cup {i}
  /\ late' = [late EXCEPT ![i] = 0]
  /\ UNCHANGED <<server_dicts, dictGone, watch>>

ServerUrlDel(i) ==
  /\ server_urls' = server_urls \ {i}
  /\ UNCHANGED <<server_dicts, dictGone, watch, late>>

PostServerDicts(i) ==
  /\ server_dicts' = server_dicts \cup {i}
  /\ dictGone' = dictGone \ {i}
  /\ UNCHANGED <<server_urls, watch, late>>

\* Its statement, too, reads DELETE FROM server_urls.
ServerDictsDel(i) ==
  /\ server_urls' = server_urls \ {i}
  /\ dictGone' = dictGone \cup {i}
  /\ UNCHANGED <<server_dicts, watch, late>>
------------------------------------------------------------------------------
(***************************************************************************)
(* ApiNelNet.  SkipIfStillRunning: one at a time.                          *)
(***************************************************************************)

\* The query; with no rows the check returns, and the counters stay.
ReadUrls ==
  /\ urls = {} /\ server_urls # {}
  /\ urls' = server_urls
  /\ msg' = {}
  /\ UNCHANGED <<tables, errUrlMap, since, late>>

\* The check ends with a message about the URLs of alerts, if there are any.
Report(failed, alerts) ==
  /\ since' = [i \in Id |-> IF i \in failed THEN Bump(since[i])
                            ELSE IF i \in urls THEN 0 ELSE since[i]]
  /\ late' = [i \in Id |-> IF i \in alerts \ server_urls THEN late[i] + 1
                           ELSE late[i]]
  /\ msg' = alerts
  /\ urls' = {}
  /\ UNCHANGED tables

FoldForgettingFirst(failed) ==
  /\ errUrlMap' = [i \in Id |-> IF i \in failed /\ errUrlMap[i] > 0
                                THEN Bump(errUrlMap[i]) ELSE 0]
  /\ Report(failed, {i \in failed : errUrlMap'[i] > AlertAfter})

FoldKeepingAbsent(failed) ==
  /\ errUrlMap' = [i \in Id |-> IF i \in failed THEN Bump(errUrlMap[i])
                                ELSE IF i \in urls THEN 0 ELSE errUrlMap[i]]
  /\ Report(failed, {i \in Id : errUrlMap'[i] > AlertAfter})

FoldKeepingAnswered(failed) ==
  /\ errUrlMap' = [i \in Id |-> IF i \in failed THEN Bump(errUrlMap[i])
                                ELSE errUrlMap[i]]
  /\ Report(failed, {i \in failed : errUrlMap'[i] > AlertAfter})

\* The loop over the results: a new map of the rows that failed, counted on
\* from the old one, takes its place.  Those counted beyond AlertAfter make
\* the message.
Fold(failed) ==
  /\ errUrlMap' = [i \in Id |-> IF i \in failed THEN Bump(errUrlMap[i]) ELSE 0]
  /\ Report(failed, {i \in failed : errUrlMap'[i] > AlertAfter})

ProbeUrls ==
  /\ urls # {}
  /\ \E failed \in SUBSET urls : urls \cap Down \subseteq failed /\ Fold(failed)

ApiNelNet == ReadUrls \/ ProbeUrls

Next ==
  \/ \E i \in Id : PostServerUrl(i) \/ ServerUrlDel(i)
  \/ \E i \in Dict : PostServerDicts(i) \/ ServerDictsDel(i)
  \/ ApiNelNet

Spec == Init /\ [][Next]_vars

\* Cron keeps ticking, and probes time out.
FairSpec == Spec /\ WF_vars(ApiNelNet)
------------------------------------------------------------------------------
(***************************************************************************)
(* Properties.                                                             *)
(***************************************************************************)

\* The types; a message is only ever about rows the check had read.
TypeOK ==
  /\ server_urls \subseteq Id
  /\ server_dicts \subseteq Dict
  /\ errUrlMap \in [Id -> 0 .. CountCap]
  /\ urls \subseteq Id
  /\ msg \subseteq Id
  /\ since \in [Id -> 0 .. CountCap]
  /\ late \in [Id -> Nat]
  /\ dictGone \subseteq Dict

\* A URL is written into an alert only when more than AlertAfter probes of it
\* failed since one last succeeded, whatever rows come, go and come back, and
\* whichever checks found the table empty (other_service.go:379-401).
AlertsAreEarned == \A i \in msg : since[i] > AlertAfter

\* A deleted URL is alerted about at most once more, by the check that was
\* probing it when its row went: the counter it leaves behind dies with the
\* next map (other_service.go:352, 401).
OneLateAlert == \A i \in Id : late[i] <= 1

\* A URL that is down and stays in the table is reported again and again,
\* whatever happens to other rows.
DownIsReported ==
  \A i \in Down : <>[](i \in server_urls) => []<>(i \in msg)

\* What the handler of DELETE /ServerDictsDel answers, that the entry was
\* deleted, is so (controllers/other_controller.go:29-32).
DeletedDictIsGone == dictGone \cap server_dicts = {}

\* The inductive strengthening.
CountsFresh == \A i \in Id : errUrlMap[i] <= since[i]
LateIsOver == \A i \in Id : late[i] > 0 => i \notin server_urls \cup urls

\* Alerts are earned and a deleted URL has one more at most; inductive.
IInv == TypeOK /\ AlertsAreEarned /\ OneLateAlert /\ CountsFresh /\ LateIsOver
==============================================================================
