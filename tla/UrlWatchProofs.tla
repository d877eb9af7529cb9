---------------------------- MODULE UrlWatchProofs ----------------------------
(***************************************************************************)
(* Theorems about the URL check for any tables and any threshold.          *)
(***************************************************************************)
EXTENDS UrlWatch, TLAPS

Count0 == 0 .. CountCap

\* Two counters bumped together stay in their order and below the cap.
LEMMA BumpFacts ==
  ASSUME NEW m \in Count0, NEW n \in Count0, m <= n
  PROVE  Bump(m) \in Count0 /\ Bump(n) \in Count0 /\ Bump(m) <= Bump(n)
  BY WatchAssumption DEF Count0, Bump

LEMMA InitInv == Init => IInv
<1> SUFFICES ASSUME Init PROVE IInv
  OBVIOUS
<1>1. \A i \in Id : errUrlMap[i] = 0 /\ since[i] = 0 /\ late[i] = 0
  BY DEF Init, NoCounts
<1>2. TypeOK
  BY WatchAssumption DEF Init, NoCounts, TypeOK
<1>3. AlertsAreEarned
  BY DEF Init, AlertsAreEarned
<1> QED
  BY <1>1, <1>2, <1>3 DEF IInv, OneLateAlert, CountsFresh, LateIsOver

LEMMA PostInv == \A i \in Id : IInv /\ PostServerUrl(i) => IInv'
<1> SUFFICES ASSUME NEW i \in Id, IInv, PostServerUrl(i) PROVE IInv'
  OBVIOUS
<1> USE DEF IInv, watch
<1>1. /\ server_urls' = server_urls \cup {i} /\ late' = [late EXCEPT ![i] = 0]
      /\ UNCHANGED <<server_dicts, dictGone, errUrlMap, urls, msg, since>>
  BY DEF PostServerUrl
<1>2. \A j \in Id : late'[j] = IF j = i THEN 0 ELSE late[j]
  BY <1>1 DEF TypeOK
<1>3. TypeOK'
  BY <1>1 DEF TypeOK
<1>4. OneLateAlert' /\ LateIsOver'
  BY <1>1, <1>2 DEF OneLateAlert, LateIsOver
<1>5. AlertsAreEarned' /\ CountsFresh'
  BY <1>1 DEF AlertsAreEarned, CountsFresh
<1> QED
  BY <1>3, <1>4, <1>5

\* The deletions only take rows away, and entries touch no counter.
LEMMA TableInv ==
  ASSUME IInv, UNCHANGED <<watch, late>>, server_urls' \subseteq server_urls,
         server_dicts' \subseteq Dict, dictGone' \subseteq Dict
  PROVE  IInv'
<1> USE DEF IInv, watch
<1>1. TypeOK'
  BY DEF TypeOK
<1>2. OneLateAlert' /\ LateIsOver' /\ AlertsAreEarned' /\ CountsFresh'
  BY DEF OneLateAlert, LateIsOver, AlertsAreEarned, CountsFresh
<1> QED
  BY <1>1, <1>2

LEMMA ReadInv == IInv /\ ReadUrls => IInv'
<1> SUFFICES ASSUME IInv, ReadUrls PROVE IInv'
  OBVIOUS
<1> USE DEF IInv, ReadUrls, tables
<1>1. TypeOK'
  BY DEF TypeOK
<1>2. OneLateAlert' /\ LateIsOver' /\ AlertsAreEarned' /\ CountsFresh'
  BY DEF OneLateAlert, LateIsOver, AlertsAreEarned, CountsFresh
<1> QED
  BY <1>1, <1>2

LEMMA ProbeInv == IInv /\ ProbeUrls => IInv'
<1> SUFFICES ASSUME NEW failed \in SUBSET urls, IInv, Fold(failed) PROVE IInv'
  BY DEF ProbeUrls
<1> DEFINE alerts == {i \in failed : errUrlMap'[i] > AlertAfter}
<1>0. failed \subseteq urls /\ urls \subseteq Id
  BY DEF IInv, TypeOK
<1>1. /\ errUrlMap' = [i \in Id |-> IF i \in failed THEN Bump(errUrlMap[i]) ELSE 0]
      /\ since' = [i \in Id |-> IF i \in failed THEN Bump(since[i])
                                ELSE IF i \in urls THEN 0 ELSE since[i]]
      /\ late' = [i \in Id |-> IF i \in alerts \ server_urls THEN late[i] + 1
                               ELSE late[i]]
      /\ msg' = alerts /\ urls' = {} /\ UNCHANGED tables
  BY DEF Fold, Report
<1>2. \A i \in Id : /\ errUrlMap[i] \in Count0 /\ since[i] \in Count0
                    /\ errUrlMap[i] <= since[i] /\ late[i] \in Nat
  BY DEF IInv, TypeOK, CountsFresh, Count0
<1>3. \A i \in Id : /\ errUrlMap'[i] \in Count0 /\ since'[i] \in Count0
                    /\ errUrlMap'[i] <= since'[i]
  <2> SUFFICES ASSUME NEW i \in Id
               PROVE  /\ errUrlMap'[i] \in Count0 /\ since'[i] \in Count0
                      /\ errUrlMap'[i] <= since'[i]
    OBVIOUS
  <2>1. CASE i \in failed
    BY <1>1, <1>2, <2>1, BumpFacts
  <2>2. CASE i \notin failed
    <3>1. errUrlMap'[i] = 0 /\ since'[i] \in {0, since[i]}
      BY <1>1, <2>2
    <3>2. 0 \in Count0 /\ \A n \in Count0 : 0 <= n
      BY WatchAssumption DEF Count0
    <3> QED
      BY <1>2, <3>1, <3>2
  <2> QED
    BY <2>1, <2>2
<1>4. \A i \in Id : late'[i] \in Nat
  BY <1>1, <1>2
<1>5. TypeOK'
  <2>1. errUrlMap' \in [Id -> Count0] /\ since' \in [Id -> Count0]
    BY <1>1, <1>3
  <2>2. late' \in [Id -> Nat]
    BY <1>1, <1>4
  <2> QED
    BY <1>0, <1>1, <2>1, <2>2 DEF IInv, TypeOK, tables, Count0
<1>6. CountsFresh'
  BY <1>3 DEF CountsFresh
<1>7. AlertsAreEarned'
  <2> SUFFICES ASSUME NEW i \in alerts PROVE since'[i] > AlertAfter
    BY <1>1 DEF AlertsAreEarned
  <2>1. i \in Id /\ errUrlMap'[i] > AlertAfter
    BY <1>0
  <2> QED
    BY <1>3, <2>1, WatchAssumption DEF Count0
<1>8. \A i \in Id : i \in alerts \ server_urls => late[i] = 0
  BY <1>0, <1>2 DEF IInv, LateIsOver
<1>9. OneLateAlert'
  <2> SUFFICES ASSUME NEW i \in Id PROVE late'[i] <= 1
    BY DEF OneLateAlert
  <2>1. late'[i] = IF i \in alerts \ server_urls THEN late[i] + 1 ELSE late[i]
    BY <1>1
  <2>2. late[i] <= 1
    BY DEF IInv, OneLateAlert
  <2> QED
    BY <1>8, <2>1, <2>2
<1>10. LateIsOver'
  <2> SUFFICES ASSUME NEW i \in Id, late'[i] > 0 PROVE i \notin server_urls
    BY <1>1 DEF LateIsOver, tables
  <2>1. CASE i \in alerts \ server_urls
    BY <2>1
  <2>2. CASE i \notin alerts \ server_urls
    <3>1. late'[i] = late[i]
      BY <1>1, <2>2
    <3> QED
      BY <3>1 DEF IInv, LateIsOver
  <2> QED
    BY <2>1, <2>2
<1> QED
  BY <1>5, <1>6, <1>7, <1>9, <1>10 DEF IInv

LEMMA NextInv == IInv /\ [Next]_vars => IInv'
<1> SUFFICES ASSUME IInv, [Next]_vars PROVE IInv'
  OBVIOUS
<1>0. server_dicts \subseteq Dict /\ dictGone \subseteq Dict
  BY DEF IInv, TypeOK
<1>1. ASSUME NEW i \in Id, ServerUrlDel(i) PROVE IInv'
  BY <1>0, <1>1, TableInv DEF ServerUrlDel
<1>2. ASSUME NEW i \in Dict, PostServerDicts(i) PROVE IInv'
  BY <1>0, <1>2, TableInv DEF PostServerDicts
<1>3. ASSUME NEW i \in Dict, ServerDictsDel(i) PROVE IInv'
  BY <1>0, <1>3, TableInv DEF ServerDictsDel
<1>4. CASE UNCHANGED vars
  BY <1>0, <1>4, TableInv DEF vars, tables
<1> QED
  BY <1>1, <1>2, <1>3, <1>4, PostInv, ReadInv, ProbeInv DEF Next, ApiNelNet
------------------------------------------------------------------------------
\* Alerts of ApiNelNet are earned, whatever becomes of the tables meanwhile:
\* IInv is an invariant.
THEOREM Invariance == Spec => []IInv
  BY InitInv, NextInv, PTL DEF Spec

\* Every variable keeps its type, counters stay below the cap of the model.
THEOREM TypeCorrect == Spec => []TypeOK
<1>1. IInv => TypeOK
  BY DEF IInv
<1> QED
  BY <1>1, Invariance, PTL

\* ApiNelNet never alerts about a URL that did not fail more than AlertAfter
\* probes since it last answered, however the table is edited meanwhile.
THEOREM NoEarlyAlert == Spec => []AlertsAreEarned
<1>1. IInv => AlertsAreEarned
  BY DEF IInv
<1> QED
  BY <1>1, Invariance, PTL

\* A deleted URL is alerted about at most once more.
THEOREM AtMostOneLateAlert == Spec => []OneLateAlert
<1>1. IInv => OneLateAlert
  BY DEF IInv
<1> QED
  BY <1>1, Invariance, PTL
==============================================================================
