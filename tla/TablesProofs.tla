------------------------------ MODULE TablesProofs ------------------------------
(***************************************************************************)
(* Theorems about the tables servers and server_hosts, for any apps, nodes *)
(* and domains, any number of requests, and numbers of any width.          *)
(***************************************************************************)
EXTENDS Tables, TLAPS

LEMMA Bounds == Minutes10 \in Nat /\ Minutes60 \in Nat
  BY RegistryAssumption
------------------------------------------------------------------------------
(***************************************************************************)
(* The table servers (ServerRegistry).                                     *)
(***************************************************************************)
LEMMA IdleRep == Idle.at = "idle"
  BY DEF Idle

LEMMA RegistryInit == Init => RegistryInv
<1> SUFFICES ASSUME Init PROVE RegistryInv
  OBVIOUS
<1>1. /\ Written = {} /\ clock = 0 /\ swept = 0
      /\ \A p \in Rep : rep[p] = Idle
      /\ \A a \in App : latest[a].nodes = {}
  BY DEF Init, Written
<1>2. TypeOK
  BY <1>1 DEF Init, TypeOK
<1>3. OverlapIsNoted /\ NoLeftovers
  BY <1>1, IdleRep DEF OverlapIsNoted, NoLeftovers
<1>4. LatestIsListed
  BY <1>1 DEF LatestIsListed
<1> QED
  BY <1>2, <1>3, <1>4 DEF RegistryInv

\* A report under way is a record with all its fields.
LEMMA RepFields ==
  ASSUME TypeOK, NEW p \in Rep, rep[p].at # "idle"
  PROVE  /\ rep[p] \in RepType
         /\ rep[p].at \in {"upsert", "delete", "done"} /\ rep[p].app \in App
         /\ rep[p].nodes \subseteq Node /\ rep[p].now \in 1..clock
         /\ clock \in Nat
<1>1. rep[p] \in RepType
  BY IdleRep DEF TypeOK
<1> QED
  BY <1>1 DEF RepType, TypeOK

LEMMA RowFields ==
  ASSUME TypeOK, NEW i \in Written
  PROVE  /\ rows[i] \in RowType /\ i \in Numbers
         /\ rows[i].app \in App /\ rows[i].node \in Node
         /\ rows[i].at \in 1..clock /\ clock \in Nat
<1>1. rows[i] \in RowType /\ i \in Numbers
  BY DEF TypeOK, Written
<1> QED
  BY <1>1 DEF RowType, TypeOK

LEMMA TypesGrow ==
  ASSUME clock \in Nat, clock' \in Nat, clock <= clock'
  PROVE  /\ RowType \subseteq RowType' /\ RepType \subseteq RepType'
         /\ 0..clock \subseteq 0..clock'
<1>1. 0..clock \subseteq 0..clock' /\ 1..clock \subseteq 1..clock'
  OBVIOUS
<1> QED
  BY <1>1 DEF RowType, RepType

\* A report ends where it stands.
LEMMA EndsInv ==
  ASSUME RegistryInv, NEW p \in Rep, rep[p].at # "idle",
         rep' = [rep EXCEPT ![p] = Idle], UNCHANGED <<rows, clock, latest, swept>>
  PROVE  RegistryInv'
<1> USE DEF RegistryInv
<1>1. /\ rep'[p].at = "idle"
      /\ \A q \in Rep \ {p} : rep'[q] = rep[q]
  BY DEF TypeOK, Idle
<1>2. TypeOK'
  BY DEF TypeOK, RowType, RepType, Written
<1>3. OverlapIsNoted'
  BY <1>1 DEF OverlapIsNoted, Underway
<1>4. NoLeftovers'
  BY <1>1 DEF NoLeftovers, Of, Written
<1>5. LatestIsListed'
  BY DEF LatestIsListed, Of, Written
<1> QED
  BY <1>2, <1>3, <1>4, <1>5

\* A report begins.
LEMMA CreateInv ==
  ASSUME RegistryInv, NEW p \in Rep, NEW app \in App, NEW nodes \in SUBSET Node,
         CreateServers(p, app, nodes)
  PROVE  RegistryInv'
<1> USE DEF RegistryInv
<1> DEFINE others == Underway(app)
<1>1. /\ rep[p].at = "idle" /\ clock \in Nat /\ clock' = clock + 1
      /\ UNCHANGED <<rows, latest, swept>>
      /\ p \notin others
  <2>1. rep[p] = Idle /\ clock' = clock + 1 /\ UNCHANGED <<rows, latest, swept>>
    BY DEF CreateServers
  <2>2. p \notin others
    BY <2>1, IdleRep DEF Underway
  <2> QED
    BY <2>1, <2>2, IdleRep DEF TypeOK
<1>2. rep' = [q \in Rep |->
       IF q = p THEN [at |-> "upsert", app |-> app, nodes |-> nodes,
                      now |-> clock', alone |-> others = {}]
       ELSE IF q \in others THEN [rep[q] EXCEPT !.alone = FALSE] ELSE rep[q]]
  BY DEF CreateServers
<1>3. /\ rep'[p].at = "upsert" /\ rep'[p].app = app /\ rep'[p].now = clock + 1
      /\ rep'[p].alone = (others = {})
  BY <1>1, <1>2
<1>4. ASSUME NEW q \in Rep, q # p
      PROVE  /\ rep'[q].at = rep[q].at
             /\ rep[q].at # "idle" =>
                  /\ rep'[q].app = rep[q].app /\ rep'[q].now = rep[q].now
                  /\ rep'[q].nodes = rep[q].nodes
                  /\ rep'[q].alone => rep[q].alone /\ rep[q].app # app
  <2>1. CASE q \in others
    <3>1. rep'[q] = [rep[q] EXCEPT !.alone = FALSE] /\ rep[q] \in RepType
      BY <1>2, <1>4, <2>1, RepFields DEF Underway
    <3> QED
      BY <3>1 DEF RepType
  <2>2. CASE q \notin others
    BY <1>2, <1>4, <2>2 DEF Underway
  <2> QED
    BY <2>1, <2>2
<1>5. RowType \subseteq RowType' /\ RepType \subseteq RepType' /\ 0..clock \subseteq 0..clock'
  BY <1>1, TypesGrow
<1>6. TypeOK'
  <2>1. rep' \in [Rep -> RepType' \cup {Idle}]
    <3>1. rep'[p] \in RepType'
      <4>1. clock' \in 1..clock'
        BY <1>1
      <4>2. (others = {}) \in BOOLEAN
        OBVIOUS
      <4> QED
        BY <1>2, <4>1, <4>2 DEF RepType
    <3>2. ASSUME NEW q \in Rep, q # p
          PROVE  rep'[q] \in RepType' \cup {Idle}
      <4>1. CASE q \in others
        <5>1. rep'[q] = [rep[q] EXCEPT !.alone = FALSE] /\ rep[q] \in RepType
          BY <1>2, <3>2, <4>1, RepFields DEF Underway
        <5>2. rep'[q] \in RepType
          BY <5>1 DEF RepType
        <5> QED
          BY <1>5, <5>2
      <4>2. CASE q \notin others
        BY <1>2, <1>5, <3>2, <4>2 DEF TypeOK
      <4> QED
        BY <4>1, <4>2
    <3> QED
      BY <1>2, <3>1, <3>2
  <2>2. rows' \in [Numbers -> RowType' \cup {NoRow}]
    BY <1>1, <1>5 DEF TypeOK
  <2>3. latest' \in [App -> [now : 0..clock', nodes : SUBSET Node]]
    <3>1. [now : 0..clock, nodes : SUBSET Node] \subseteq [now : 0..clock', nodes : SUBSET Node]
      BY <1>5
    <3> QED
      BY <1>1, <3>1 DEF TypeOK
  <2>4. clock' \in Nat /\ swept' \in 0..clock'
    BY <1>1 DEF TypeOK
  <2> QED
    BY <1>1, <2>1, <2>2, <2>3, <2>4 DEF TypeOK, Written
<1>7. OverlapIsNoted'
  <2> SUFFICES ASSUME NEW q \in Rep, rep'[q].at # "idle", NEW b, b = rep'[q].app
               PROVE  /\ rep'[q].alone => Underway(b)' = {q}
                      /\ rep'[q].at \in {"delete", "done"} => rep'[q].now <= latest[b].now
    BY <1>1 DEF OverlapIsNoted, Underway
  <2>1. CASE q = p
    <3>1. others = {} => Underway(app)' = {p}
      BY <1>3, <1>4 DEF Underway
    <3> QED
      BY <1>3, <2>1, <3>1
  <2>2. CASE q # p
    <3>1. /\ rep[q].at # "idle" /\ rep'[q].at = rep[q].at /\ b = rep[q].app
          /\ rep'[q].now = rep[q].now
          /\ rep'[q].alone => rep[q].alone /\ b # app
      BY <1>4, <2>2
    <3>2. rep'[q].alone => Underway(b)' = Underway(b)
      BY <1>1, <1>3, <1>4, <3>1 DEF Underway
    <3> QED
      BY <3>1, <3>2 DEF OverlapIsNoted
  <2> QED
    BY <2>1, <2>2
<1>8. LatestIsListed'
  BY <1>1 DEF LatestIsListed, Of, Written
<1>9. NoLeftovers'
  <2> SUFFICES ASSUME NEW q \in Rep, rep'[q].at # "idle", rep'[q].alone,
                      NEW i \in Of(rep'[q].app)
               PROVE  \/ rep'[q].at \in {"delete", "done"} /\ rows[i].node \in rep'[q].nodes
                      \/ rep'[q].at \in {"upsert", "delete"} /\ rows[i].at < rep'[q].now
    BY <1>1 DEF NoLeftovers, Of, Written
  <2>1. CASE q = p
    <3>1. rows[i].at \in 1..clock
      BY RowFields DEF Of
    <3> QED
      BY <1>1, <1>3, <2>1, <3>1
  <2>2. CASE q # p
    BY <1>4, <2>2 DEF NoLeftovers
  <2> QED
    BY <2>1, <2>2
<1> QED
  BY <1>6, <1>7, <1>8, <1>9

\* What the statement leaves under a number: a row of the report, as new as it
\* and as any row that was there, or what was there.
LEMMA UpsertRows ==
  ASSUME TypeOK, NEW p \in Rep, rep[p].at = "upsert", Accepted(rep[p].app, rep[p].nodes),
         rows' = [i \in Numbers |->
             IF \E n \in rep[p].nodes : NumberOf(rep[p].app, n) = i
             THEN [app |-> rep[p].app,
                   node |-> CHOOSE n \in rep[p].nodes : NumberOf(rep[p].app, n) = i,
                   at |-> IF rows[i] = NoRow THEN rep[p].now ELSE clock]
             ELSE rows[i]],
         NEW i \in Numbers
  PROVE  \/ /\ rows'[i] \in RowType /\ i \in Written'
            /\ rows'[i].app = rep[p].app /\ rows'[i].node \in rep[p].nodes
            /\ NumberOf(rep[p].app, rows'[i].node) = i /\ i < Word \div 2
            /\ rows'[i].at >= rep[p].now
            /\ i \in Written => rows'[i].at >= rows[i].at
         \/ /\ rows'[i] = rows[i]
            /\ \A n \in rep[p].nodes : NumberOf(rep[p].app, n) # i
<1> DEFINE a == rep[p].app  ns == rep[p].nodes
<1>1. a \in App /\ ns \subseteq Node /\ rep[p].now \in 1..clock /\ clock \in Nat
  BY RepFields
<1>2. CASE \E n \in ns : NumberOf(a, n) = i
  <2> DEFINE m == CHOOSE n \in ns : NumberOf(a, n) = i
             t == IF rows[i] = NoRow THEN rep[p].now ELSE clock
  <2>1. m \in ns /\ NumberOf(a, m) = i
    BY <1>2
  <2>2. i < Word \div 2
    BY <2>1 DEF Accepted
  <2>3. /\ t \in 1..clock /\ t >= rep[p].now
        /\ i \in Written => t >= rows[i].at
    <3>1. i \in Written => rows[i] # NoRow /\ rows[i].at \in 1..clock
      BY RowFields DEF Written
    <3> QED
      BY <1>1, <3>1
  <2>4. rows'[i] = [app |-> a, node |-> m, at |-> t]
    BY <1>2
  <2> HIDE DEF m, t
  <2>5. rows'[i] \in RowType
    BY <1>1, <2>1, <2>3, <2>4 DEF RowType
  <2>6. rows'[i] # NoRow
    <3>1. rows'[i].at = t
      BY <2>4
    <3>2. NoRow.at = 0
      BY DEF NoRow
    <3>3. t # 0
      BY <1>1, <2>3
    <3> QED
      BY <3>1, <3>2, <3>3
  <2> QED
    BY <2>1, <2>2, <2>3, <2>4, <2>5, <2>6 DEF Written
<1>3. CASE ~\E n \in ns : NumberOf(a, n) = i
  BY <1>3
<1> QED
  BY <1>2, <1>3

\* The statement of a report is accepted.
LEMMA UpsertInv ==
  ASSUME RegistryInv, NEW p \in Rep, Upsert(p), rep' # [rep EXCEPT ![p] = Idle]
  PROVE  RegistryInv'
<1> USE DEF RegistryInv
<1> DEFINE a == rep[p].app  ns == rep[p].nodes  now == rep[p].now
<1>1. /\ rep[p].at = "upsert" /\ Accepted(a, ns) /\ UNCHANGED <<clock, swept>>
      /\ rep' = [rep EXCEPT ![p].at = "delete"]
      /\ latest' = IF now > latest[a].now
                   THEN [latest EXCEPT ![a] = [now |-> now, nodes |-> ns]]
                   ELSE latest
  BY DEF Upsert
<1>2. /\ rep[p] \in RepType /\ a \in App /\ ns \subseteq Node /\ now \in 1..clock
      /\ clock \in Nat
  BY <1>1, RepFields
<1>3. ASSUME NEW i \in Numbers
      PROVE  \/ /\ rows'[i] \in RowType /\ i \in Written'
                /\ rows'[i].app = a /\ rows'[i].node \in ns
                /\ NumberOf(a, rows'[i].node) = i /\ i < Word \div 2
                /\ rows'[i].at >= now
                /\ i \in Written => rows'[i].at >= rows[i].at
             \/ /\ rows'[i] = rows[i]
                /\ \A n \in ns : NumberOf(a, n) # i
  BY <1>1, UpsertRows DEF Upsert
<1>4. /\ rep' \in [Rep -> RepType \cup {Idle}]
      /\ rep'[p].at = "delete" /\ rep'[p].app = a /\ rep'[p].nodes = ns
      /\ rep'[p].now = now /\ rep'[p].alone = rep[p].alone
      /\ \A q \in Rep \ {p} : rep'[q] = rep[q]
  <2>1. [rep[p] EXCEPT !.at = "delete"] \in RepType
    BY <1>2 DEF RepType
  <2>2. rep' = [rep EXCEPT ![p] = [rep[p] EXCEPT !.at = "delete"]]
    BY <1>1
  <2> QED
    BY <1>2, <2>1, <2>2 DEF TypeOK, RepType
<1>5. /\ latest' \in [App -> [now : 0..clock, nodes : SUBSET Node]]
      /\ \A b \in App : latest'[b] = latest[b] \/ (b = a /\ latest'[b] = [now |-> now, nodes |-> ns])
      /\ \A b \in App : latest'[b].now >= latest[b].now
      /\ latest'[a].now >= now
  <2>1. latest \in [App -> [now : 0..clock, nodes : SUBSET Node]]
    BY DEF TypeOK
  <2>2. [now |-> now, nodes |-> ns] \in [now : 0..clock, nodes : SUBSET Node]
    BY <1>2
  <2>3. \A b \in App : latest[b].now \in Nat
    BY <1>2, <2>1
  <2>4. latest' \in [App -> [now : 0..clock, nodes : SUBSET Node]]
    BY <1>1, <1>2, <2>1, <2>2
  <2>5. \A b \in App : /\ latest'[b] = latest[b] \/ (b = a /\ latest'[b] = [now |-> now, nodes |-> ns])
                      /\ latest'[b].now >= latest[b].now
    <3> SUFFICES ASSUME NEW b \in App
                 PROVE  /\ latest'[b] = latest[b] \/ (b = a /\ latest'[b] = [now |-> now, nodes |-> ns])
                        /\ latest'[b].now >= latest[b].now
      OBVIOUS
    <3>0. latest[b].now \in Nat
      BY <2>3
    <3>1. CASE latest'[b] = latest[b]
      <4>1. latest'[b].now = latest[b].now
        BY <3>1
      <4> QED
        BY <3>0, <3>1, <4>1
    <3>2. CASE now > latest[a].now /\ b = a /\ latest'[b] = [now |-> now, nodes |-> ns]
      BY <1>2, <2>3, <3>2
    <3> QED
      BY <1>1, <2>1, <3>1, <3>2
  <2>6. latest'[a].now >= now
    BY <1>1, <1>2, <2>1, <2>3
  <2> QED
    BY <2>4, <2>5, <2>6
<1>6. TypeOK'
  <2>1. rows' \in [Numbers -> RowType \cup {NoRow}]
    <3>1. \A i \in Numbers : rows'[i] \in RowType \cup {NoRow}
      BY <1>3 DEF TypeOK
    <3>2. rows' = [i \in Numbers |-> rows'[i]]
      BY <1>1 DEF Upsert
    <3> QED
      BY <3>1, <3>2
  <2>2. \A i \in Written' : NumberOf(rows'[i].app, rows'[i].node) = i /\ i < Word \div 2
    BY <1>3 DEF TypeOK, Written
  <2>3. RowType' = RowType /\ RepType' = RepType
    BY <1>1 DEF RowType, RepType
  <2> QED
    <3>1. clock' = clock /\ clock \in Nat /\ swept' \in 0..clock
      BY <1>1 DEF TypeOK
    <3>2. rep' \in [Rep -> RepType' \cup {Idle}]
      BY <1>4, <2>3
    <3>3. rows' \in [Numbers -> RowType' \cup {NoRow}]
      BY <2>1, <2>3
    <3>4. latest' \in [App -> [now : 0..clock', nodes : SUBSET Node]]
      BY <1>5, <3>1
    <3> QED
      BY <2>2, <3>1, <3>2, <3>3, <3>4 DEF TypeOK
<1>7. OverlapIsNoted'
  <2>1. \A b : Underway(b)' = Underway(b)
    BY <1>1, <1>4 DEF Underway
  <2> SUFFICES ASSUME NEW q \in Rep, rep'[q].at # "idle"
               PROVE  /\ rep'[q].alone => Underway(rep'[q].app) = {q}
                      /\ rep'[q].at \in {"delete", "done"} =>
                           rep'[q].now <= latest'[rep'[q].app].now
    BY <2>1 DEF OverlapIsNoted
  <2>2. CASE q = p
    BY <1>1, <1>2, <1>4, <1>5, <2>2 DEF OverlapIsNoted
  <2>3. CASE q # p
    <3>1. rep[q].at # "idle" /\ rep'[q] = rep[q]
      BY <1>4, <2>3
    <3>2. rep[q].app \in App /\ rep[q].now \in Nat
      BY <3>1, RepFields
    <3>3. latest'[rep[q].app].now \in Nat /\ latest[rep[q].app].now \in Nat
      BY <1>2, <1>5, <3>2 DEF TypeOK
    <3> QED
      BY <1>5, <3>1, <3>2, <3>3 DEF OverlapIsNoted
  <2> QED
    BY <2>2, <2>3
<1>8. LatestIsListed'
  <2> SUFFICES ASSUME NEW b \in App, latest'[b].now >= swept,
                      NEW n \in latest'[b].nodes, ~Clash(b, n)
               PROVE  /\ NumberOf(b, n) \in Of(b)'
                      /\ rows'[NumberOf(b, n)].at >= latest'[b].now
    BY <1>1 DEF LatestIsListed, Clash
  <2> DEFINE i == NumberOf(b, n)
  <2>1. n \in Node
    BY <1>5
  <2>2. i \in Numbers
    BY <2>1 DEF Numbers
  <2>3. CASE latest'[b] = latest[b]
    <3>1. i \in Of(b) /\ rows[i].at >= latest[b].now
      BY <1>1, <2>3 DEF LatestIsListed
    <3>2. rows[i].at \in Nat /\ latest[b].now \in Nat
      BY <3>1, RowFields, <1>2 DEF Of, TypeOK
    <3>3. CASE rows'[i] = rows[i]
      BY <2>3, <3>1, <3>3 DEF Of, Written
    <3>4. CASE /\ rows'[i] \in RowType /\ i \in Written'
               /\ rows'[i].app = a /\ rows'[i].node \in ns
               /\ NumberOf(a, rows'[i].node) = i
               /\ i \in Written => rows'[i].at >= rows[i].at
      <4>1. a = b
        BY <1>2, <3>4 DEF Clash
      <4>2. rows'[i].at >= rows[i].at /\ rows'[i].at \in Nat
        BY <1>2, <3>1, <3>4 DEF Of, RowType
      <4> QED
        BY <2>3, <3>1, <3>2, <3>4, <4>1, <4>2 DEF Of
    <3> QED
      BY <1>3, <2>2, <3>3, <3>4
  <2>4. CASE b = a /\ latest'[b] = [now |-> now, nodes |-> ns]
    <3>1. n \in ns
      BY <2>4
    <3>2. /\ i \in Written' /\ rows'[i].app = a /\ rows'[i].at >= now
      BY <1>3, <2>2, <2>4, <3>1
    <3> QED
      BY <2>4, <3>2 DEF Of
  <2> QED
    BY <1>5, <2>3, <2>4
<1>9. NoLeftovers'
  <2> SUFFICES ASSUME NEW q \in Rep, rep'[q].at # "idle", rep'[q].alone,
                      NEW i \in Written', rows'[i].app = rep'[q].app
               PROVE  \/ rep'[q].at \in {"delete", "done"} /\ rows'[i].node \in rep'[q].nodes
                      \/ rep'[q].at \in {"upsert", "delete"} /\ rows'[i].at < rep'[q].now
    BY DEF NoLeftovers, Of
  <2>1. i \in Numbers /\ rows'[i] # NoRow /\ rows'[i].app = rep'[q].app
    BY DEF Written
  <2>2. CASE rows'[i] = rows[i]
    <3>1. i \in Of(rep[q].app) /\ rep[q].at # "idle" /\ rep[q].alone
      BY <1>1, <1>4, <2>1, <2>2 DEF Of, Written
    <3> QED
      BY <1>1, <1>4, <2>2, <3>1 DEF NoLeftovers
  <2>3. CASE rows'[i].app = a /\ rows'[i].node \in ns
    <3>1. CASE q = p
      BY <1>4, <2>3, <3>1
    <3>2. CASE q # p
      <4>1. rep[q].app = a /\ rep[q].alone /\ rep[q].at # "idle"
        BY <1>4, <2>1, <2>3, <3>2
      <4>2. p \in Underway(a) /\ Underway(a) = {q}
        BY <1>1, <4>1 DEF Underway, OverlapIsNoted
      <4> QED
        BY <3>2, <4>2
    <3> QED
      BY <3>1, <3>2
  <2> QED
    BY <1>3, <2>1, <2>2, <2>3
<1> QED
  BY <1>6, <1>7, <1>8, <1>9

\* Rows go, none of those that the latest report of an app relies on.
LEMMA GoneInv ==
  ASSUME RegistryInv, NEW ids, rows' = Without(ids),
         UNCHANGED <<clock, rep, latest>>, swept' \in swept..clock,
         \A b \in App : latest[b].now >= swept' =>
           \A i \in Of(b) \cap ids : rows[i].at < latest[b].now
  PROVE  RegistryInv'
<1> USE DEF RegistryInv
<1>1. /\ \A i \in Numbers : rows'[i] = IF i \in ids THEN NoRow ELSE rows[i]
      /\ rows' \in [Numbers -> RowType \cup {NoRow}]
  BY DEF Without, TypeOK
<1>2. /\ \A i \in Written' : i \in Written /\ rows'[i] = rows[i]
      /\ \A b : Of(b)' \subseteq Of(b)
      /\ \A b : Of(b) \ ids \subseteq Of(b)'
  BY <1>1 DEF Written, Of
<1>3. TypeOK'
  <2>1. clock \in Nat /\ swept' \in 0..clock
    BY DEF TypeOK
  <2> QED
    BY <1>1, <1>2, <2>1 DEF TypeOK, RowType, RepType
<1>4. OverlapIsNoted'
  BY DEF OverlapIsNoted, Underway
<1>5. NoLeftovers'
  BY <1>2 DEF NoLeftovers, Of
<1>6. LatestIsListed'
  <2> SUFFICES ASSUME NEW b \in App, latest[b].now >= swept',
                      NEW n \in latest[b].nodes, ~Clash(b, n)
               PROVE  /\ NumberOf(b, n) \in Of(b)'
                      /\ rows'[NumberOf(b, n)].at >= latest[b].now
    BY DEF LatestIsListed, Clash
  <2> DEFINE i == NumberOf(b, n)
  <2>1. swept \in Nat /\ clock \in Nat /\ latest[b].now \in Nat
    BY DEF TypeOK
  <2>2. i \in Of(b) /\ rows[i].at >= latest[b].now
    BY <2>1 DEF LatestIsListed
  <2>3. rows[i].at \in Nat
    BY <2>2, RowFields DEF Of
  <2>4. i \notin ids
    BY <2>1, <2>2, <2>3
  <2> HIDE DEF i
  <2>5. i \in Of(b)' /\ rows'[i] = rows[i]
    BY <1>2, <2>2, <2>4 DEF Of
  <2> QED
    BY <2>2, <2>5 DEF i
<1> QED
  BY <1>3, <1>4, <1>5, <1>6

\* A report deletes what is older, and ends when nothing is.
LEMMA DeletesInv ==
  ASSUME RegistryInv, NEW p \in Rep, ServerDeletes(p)
  PROVE  RegistryInv'
<1> USE DEF RegistryInv
<1> DEFINE a == rep[p].app  now == rep[p].now  old == Older(now) \cap Of(a)
<1>1. rep[p].at = "delete" /\ UNCHANGED <<clock, latest, swept>>
  BY DEF ServerDeletes
<1>2. /\ rep[p] \in RepType /\ a \in App /\ now \in 1..clock /\ clock \in Nat
      /\ now <= latest[a].now
  BY <1>1, RepFields DEF OverlapIsNoted
<1>3. CASE rows' = Without(old) /\ rep' = rep
  <2>1. ASSUME NEW b \in App, NEW i \in Of(b) \cap old
        PROVE  rows[i].at < latest[b].now
    <3>1. b = a /\ rows[i].at < now
      BY DEF Of, Older
    <3>2. rows[i].at \in Nat /\ latest[a].now \in Nat
      BY <1>2, <2>1, RowFields DEF Of, TypeOK
    <3> QED
      BY <1>2, <3>1, <3>2
  <2>2. swept' \in swept..clock
    BY <1>1 DEF TypeOK
  <2> HIDE DEF old
  <2> QED
    BY <1>1, <1>3, <2>1, <2>2, GoneInv
<1>4. CASE old = {} /\ rep' = [rep EXCEPT ![p].at = "done"] /\ rows' = rows
  <2>1. [rep[p] EXCEPT !.at = "done"] \in RepType
    BY <1>2 DEF RepType
  <2>2. /\ rep' \in [Rep -> RepType \cup {Idle}]
        /\ rep'[p].at = "done" /\ rep'[p].app = a /\ rep'[p].nodes = rep[p].nodes
        /\ rep'[p].now = now /\ rep'[p].alone = rep[p].alone
        /\ \A q \in Rep \ {p} : rep'[q] = rep[q]
    <3>1. rep' = [rep EXCEPT ![p] = [rep[p] EXCEPT !.at = "done"]]
      BY <1>4
    <3> QED
      BY <1>2, <2>1, <3>1 DEF TypeOK, RepType
  <2>3. TypeOK'
    BY <1>1, <1>4, <2>2 DEF TypeOK, RowType, RepType, Written
  <2>4. OverlapIsNoted'
    BY <1>1, <2>2 DEF OverlapIsNoted, Underway
  <2>5. LatestIsListed'
    BY <1>1, <1>4 DEF LatestIsListed, Of, Written
  <2>6. NoLeftovers'
    <3> SUFFICES ASSUME NEW q \in Rep, rep'[q].at # "idle", rep'[q].alone,
                        NEW i \in Of(rep'[q].app)
                 PROVE  \/ rep'[q].at \in {"delete", "done"} /\ rows[i].node \in rep'[q].nodes
                        \/ rep'[q].at \in {"upsert", "delete"} /\ rows[i].at < rep'[q].now
      BY <1>4 DEF NoLeftovers, Of, Written
    <3>1. CASE q = p
      <4>1. i \in Of(a) /\ ~(rows[i].at < now)
        BY <1>4, <2>2, <3>1 DEF Older, Of
      <4> QED
        BY <1>1, <2>2, <3>1, <4>1 DEF NoLeftovers
    <3>2. CASE q # p
      BY <2>2, <3>2 DEF NoLeftovers
    <3> QED
      BY <3>1, <3>2
  <2> QED
    BY <2>3, <2>4, <2>5, <2>6
<1>5. CASE rep' = [rep EXCEPT ![p] = Idle] /\ rows' = rows
  BY <1>1, <1>5, EndsInv
<1> QED
  BY <1>3, <1>4, <1>5 DEF ServerDeletes

\* A task deletes by age alone.
LEMMA SweepInv ==
  ASSUME RegistryInv, NEW age \in Nat, Sweep(age)
  PROVE  RegistryInv'
<1> DEFINE t == clock - age
<1>1. /\ clock > age /\ rows' = Without(Older(t)) /\ UNCHANGED <<clock, rep, latest>>
      /\ swept' = IF t > swept THEN t ELSE swept
  BY DEF Sweep
<1>2. clock \in Nat /\ swept \in 0..clock
  BY DEF RegistryInv, TypeOK
<1>3. t \in Nat /\ swept' \in swept..clock /\ swept' >= t
  BY <1>1, <1>2
<1> HIDE DEF t
<1>4. ASSUME NEW b \in App, latest[b].now >= swept', NEW i \in Of(b) \cap Older(t)
      PROVE  rows[i].at < latest[b].now
  <2>1. rows[i].at < t /\ rows[i].at \in Nat /\ latest[b].now \in Nat
    BY <1>2, <1>4, RowFields DEF Older, Of, RegistryInv, TypeOK
  <2> QED
    BY <1>2, <1>3, <1>4, <2>1
<1> QED
  BY <1>1, <1>3, <1>4, GoneInv

LEMMA TickInv == RegistryInv /\ Tick => RegistryInv'
<1> SUFFICES ASSUME RegistryInv, Tick PROVE RegistryInv'
  OBVIOUS
<1> USE DEF RegistryInv
<1>1. clock \in Nat /\ clock' = clock + 1 /\ UNCHANGED <<rows, rep, latest, swept>>
  BY DEF Tick, TypeOK
<1>2. RowType \subseteq RowType' /\ RepType \subseteq RepType' /\ 0..clock \subseteq 0..clock'
  BY <1>1, TypesGrow
<1>3. TypeOK'
  <2>1. [now : 0..clock, nodes : SUBSET Node] \subseteq [now : 0..clock', nodes : SUBSET Node]
    BY <1>2
  <2>2. /\ rows' \in [Numbers -> RowType' \cup {NoRow}]
        /\ rep' \in [Rep -> RepType' \cup {Idle}]
        /\ latest' \in [App -> [now : 0..clock', nodes : SUBSET Node]]
    BY <1>1, <1>2, <2>1 DEF TypeOK
  <2> QED
    BY <1>1, <2>2 DEF TypeOK, Written
<1>4. OverlapIsNoted' /\ LatestIsListed' /\ NoLeftovers'
  BY <1>1 DEF OverlapIsNoted, LatestIsListed, NoLeftovers, Underway, Of, Written
<1> QED
  BY <1>3, <1>4

\* Whatever reports overlap, of whatever apps: the latest report written of an
\* app has its nodes in the table until it is too old, and a report that had
\* the app to itself leaves nothing else of it (CreateServers, TaskHour,
\* TaskDay).
THEOREM LatestReportIsListed == Spec => []RegistryInv
<1>1. RegistryInv /\ [Next]_vars => RegistryInv'
  <2> SUFFICES ASSUME RegistryInv, [Next]_vars PROVE RegistryInv'
    OBVIOUS
  <2>1. CASE UNCHANGED vars
    BY <2>1 DEF vars, RegistryInv, TypeOK, OverlapIsNoted, LatestIsListed, NoLeftovers,
                RowType, RepType, Underway, Of, Written
  <2>2. ASSUME NEW p \in Rep, Upsert(p)
        PROVE  RegistryInv'
    <3>1. CASE rep' = [rep EXCEPT ![p] = Idle] /\ UNCHANGED <<rows, latest>>
      BY <2>2, <3>1, EndsInv DEF Upsert
    <3>2. CASE rep' # [rep EXCEPT ![p] = Idle]
      BY <2>2, <3>2, UpsertInv
    <3>3. rep' = [rep EXCEPT ![p].at = "delete"] => rep' # [rep EXCEPT ![p] = Idle]
      <4>1. rep[p].at = "upsert" /\ rep \in [Rep -> RepType \cup {Idle}]
        BY <2>2 DEF Upsert, RegistryInv, TypeOK
      <4>2. rep[p] \in RepType
        BY <4>1, RepFields DEF RegistryInv
      <4>3. rep' = [rep EXCEPT ![p].at = "delete"] => rep'[p].at = "delete"
        BY <4>1, <4>2 DEF RepType
      <4> QED
        BY <4>1, <4>3, IdleRep
    <3> QED
      BY <2>2, <3>1, <3>2, <3>3 DEF Upsert
  <2>3. ASSUME NEW p \in Rep, Answered(p)
        PROVE  RegistryInv'
    BY <2>3, EndsInv DEF Answered
  <2> QED
    BY <2>1, <2>2, <2>3, CreateInv, DeletesInv, SweepInv, TickInv, Bounds
       DEF Next, TaskHour, TaskDay
<1> QED
  BY <1>1, RegistryInit, PTL DEF Spec
------------------------------------------------------------------------------
(***************************************************************************)
(* The table server_hosts (HostTable).                                     *)
(***************************************************************************)
LEMMA NoDomain == "" \notin Domain
  BY TablesAssumption DEF Host!HostAssumption

LEMMA MaxIdNat == MaxId \in Nat
  BY TablesAssumption DEF Host!HostAssumption

LEMMA LastIdNat == Host!TypeOK => lastId \in Nat /\ lastId \in 0..MaxId
<1>1. Host!TypeOK => lastId \in 0..MaxId
  BY DEF Host!TypeOK
<1> QED
  BY <1>1, MaxIdNat

LEMMA HostIdle ==
  /\ Host!Idle.at = "idle" /\ Host!Idle.id = 0 /\ Host!Idle.row = Host!NoRow
  /\ Host!Idle.alone = TRUE /\ Host!Idle.old = FALSE
  BY DEF Host!Idle

LEMMA HostRow ==
  ASSUME Host!TypeOK, NEW i \in Host!There
  PROVE  /\ i \in Host!Id /\ i \in 1..lastId /\ lastId \in Nat
         /\ hosts[i] \in Host!RowType /\ hosts[i].domain \in Domain
         /\ hosts[i].parent \in 0..lastId /\ hosts[i].parent < i
<1>1. i \in Host!Id /\ hosts[i] \in Host!RowType /\ i <= lastId /\ hosts[i].parent < i
  BY DEF Host!TypeOK, Host!There
<1>2. lastId \in Nat /\ i \in 1..lastId
  BY <1>1, LastIdNat, MaxIdNat DEF Host!Id
<1> QED
  BY <1>1, <1>2 DEF Host!RowType

LEMMA RowIsThere ==
  ASSUME NEW r \in Host!RowType
  PROVE  r # Host!NoRow
<1>1. r.domain \in Domain
  BY DEF Host!RowType
<1>2. Host!NoRow.domain = ""
  BY DEF Host!NoRow
<1> QED
  BY <1>1, <1>2, NoDomain

LEMMA HostReqFields ==
  ASSUME Host!TypeOK, NEW p \in HostReq
  PROVE  /\ hostReq[p] \in Host!ReqType /\ hostReq[p].id \in 0..lastId
         /\ hostReq[p].at \in {"idle", "page", "save", "done", "parents", "used"}
         /\ Host!Posts(p) =>
              /\ hostReq[p].row \in Host!RowType
              /\ hostReq[p].row.parent \in 0..lastId /\ hostReq[p].row.domain \in Domain
              /\ hostReq[p].id # 0 => hostReq[p].row.parent < hostReq[p].id
         /\ lastId \in Nat
<1>1. hostReq[p] \in Host!ReqType
  BY DEF Host!TypeOK
<1>2. /\ hostReq[p].id \in 0..lastId
      /\ hostReq[p].at \in {"idle", "page", "save", "done", "parents", "used"}
  BY <1>1 DEF Host!ReqType
<1>3. lastId \in Nat
  BY LastIdNat
<1> QED
  BY <1>1, <1>2, <1>3 DEF Host!TypeOK, Host!RowType

LEMMA HostTypesGrow ==
  ASSUME lastId \in Nat, lastId' \in Nat, lastId <= lastId'
  PROVE  Host!RowType \subseteq Host!RowType' /\ Host!ReqType \subseteq Host!ReqType'
<1>1. 0..lastId \subseteq 0..lastId'
  OBVIOUS
<1>2. Host!RowType \subseteq Host!RowType'
  BY <1>1 DEF Host!RowType
<1> QED
  BY <1>1, <1>2 DEF Host!ReqType

\* What a request that writes does to the others: they are not alone, and the
\* page of each may be old.
LEMMA HostAfter ==
  ASSUME Host!TypeOK, NEW p \in HostReq, NEW step,
         NEW deleted \in BOOLEAN, hostReq' = Host!After(p, step, deleted)
  PROVE  /\ hostReq' = [q \in HostReq |-> hostReq'[q]] /\ hostReq'[p] = step
         /\ step \in Host!ReqType => hostReq' \in [HostReq -> Host!ReqType]
         /\ \A q \in HostReq \ {p} :
              /\ hostReq'[q] \in Host!ReqType
              /\ hostReq'[q].at = hostReq[q].at /\ hostReq'[q].id = hostReq[q].id
              /\ hostReq'[q].row = hostReq[q].row
              /\ hostReq'[q].alone => hostReq[q].at \in {"idle", "page"}
              /\ hostReq'[q].old = (hostReq[q].old \/ (deleted /\ Host!Posts(q)))
<1>1. ASSUME NEW q \in HostReq, q # p
      PROVE  /\ hostReq'[q] \in Host!ReqType
             /\ hostReq'[q].at = hostReq[q].at /\ hostReq'[q].id = hostReq[q].id
             /\ hostReq'[q].row = hostReq[q].row
             /\ hostReq'[q].alone => hostReq[q].at \in {"idle", "page"}
             /\ hostReq'[q].old = (hostReq[q].old \/ (deleted /\ Host!Posts(q)))
  <2>1. hostReq[q] \in Host!ReqType
    BY DEF Host!TypeOK
  <2>2. CASE hostReq[q] = Host!Idle
    <3>1. hostReq'[q] = Host!Idle
      BY <1>1, <2>2 DEF Host!After
    <3> QED
      BY <2>1, <2>2, <3>1, HostIdle DEF Host!Posts
  <2>3. CASE hostReq[q] # Host!Idle
    <3> DEFINE old == hostReq[q].old \/ (deleted /\ Host!Posts(q))
               alone == hostReq[q].at = "page"
               next == [hostReq[q] EXCEPT !.alone = alone, !.old = old]
    <3>1. hostReq'[q] = next
      BY <1>1, <2>3 DEF Host!After, Host!Posts
    <3>2. old \in BOOLEAN /\ alone \in BOOLEAN
      BY <2>1 DEF Host!ReqType, Host!Posts
    <3>3. next \in Host!ReqType
      BY <2>1, <3>2 DEF Host!ReqType
    <3>4. /\ next.at = hostReq[q].at /\ next.id = hostReq[q].id
          /\ next.row = hostReq[q].row /\ next.alone = alone /\ next.old = old
      BY <2>1 DEF Host!ReqType
    <3> QED
      BY <3>1, <3>3, <3>4
  <2> QED
    BY <2>2, <2>3
<1>2. hostReq'[p] = step
  BY DEF Host!After
<1>3. hostReq' = [q \in HostReq |-> hostReq'[q]]
  BY DEF Host!After
<1>4. ASSUME step \in Host!ReqType
      PROVE  hostReq' \in [HostReq -> Host!ReqType]
  <2>1. \A q \in HostReq : hostReq'[q] \in Host!ReqType
    BY <1>1, <1>2, <1>4
  <2> QED
    BY <1>3, <2>1
<1> QED
  BY <1>1, <1>2, <1>3, <1>4

LEMMA InParents ==
  ASSUME NEW i, NEW t
  PROVE  /\ t \in Host!Parents(i) <=>
              \/ i \in Host!There /\ hosts[i].parent = t
              \/ \E p \in HostReq : Host!Posts(p) /\ hostReq[p].id = i /\ hostReq[p].row.parent = t
         /\ t \in Host!Parents(i)' <=>
              \/ i \in Host!There' /\ hosts'[i].parent = t
              \/ \E p \in HostReq : Host!Posts(p)' /\ hostReq'[p].id = i /\ hostReq'[p].row.parent = t
  BY DEF Host!Parents

LEMMA ParentsAreIds ==
  ASSUME Host!TypeOK, NEW i, NEW t, t \in Host!Parents(i)
  PROVE  i \in 0..lastId /\ t \in 0..lastId
<1>1. CASE i \in Host!There /\ hosts[i].parent = t
  BY <1>1, HostRow
<1>2. CASE \E p \in HostReq : Host!Posts(p) /\ hostReq[p].id = i /\ hostReq[p].row.parent = t
  BY <1>2, HostReqFields
<1> QED
  BY <1>1, <1>2, InParents

LEMMA ParentsShrink ==
  ASSUME Host!ParentsStay, \A i : Host!Parents(i)' \subseteq Host!Parents(i)
  PROVE  Host!ParentsStay'
<1>1. \A i \in Host!Id : \A t, u \in Host!Parents(i)' : t = u
  BY DEF Host!ParentsStay
<1>2. ASSUME NEW i \in 0..MaxId, NEW t \in Host!Parents(i)' \ {0}
      PROVE  Host!Parents(t)' \subseteq {0}
  <2>1. t \in Host!Parents(i) \ {0} /\ Host!Parents(t) \subseteq {0}
    BY <1>2 DEF Host!ParentsStay
  <2> QED
    BY <2>1
<1> QED
  BY <1>1, <1>2 DEF Host!ParentsStay

\* The table keeps its rows with their domains and parents; a request ends its
\* post, goes on with it, or sets what it asks for.
LEMMA HostQuietInv ==
  ASSUME HostInv, NEW p \in HostReq, NEW step \in Host!ReqType,
         hostReq' \in [HostReq -> Host!ReqType], hostReq'[p] = step,
         \A q \in HostReq \ {p} :
           /\ hostReq'[q].at = hostReq[q].at /\ hostReq'[q].id = hostReq[q].id
           /\ hostReq'[q].row = hostReq[q].row /\ hostReq'[q].old = hostReq[q].old
           /\ hostReq'[q].alone =>
                \/ hostReq[q].at \in {"idle", "page"}
                \/ hostReq[q].alone /\ hosts' = hosts,
         DOMAIN hosts' = Host!Id, hosts' = [i \in DOMAIN hosts' |-> hosts'[i]],
         \A i \in Host!Id :
           \/ hosts'[i] = hosts[i]
           \/ /\ i \in Host!There /\ hosts'[i] \in Host!RowType
              /\ hosts'[i].domain = hosts[i].domain /\ hosts'[i].parent = hosts[i].parent,
         lastId' \in lastId..MaxId, UNCHANGED <<erased, orphaned>>,
         step.at \in {"page", "save"} =>
           /\ Host!Posts(p) /\ step.id = hostReq[p].id
           /\ step.row = hostReq[p].row /\ step.old = hostReq[p].old,
         step.at \in {"save", "done"} /\ step.alone =>
           \A c \in Host!ChildrenOf(step.id) : hosts'[c].status = step.row.status,
         step.at \in {"parents", "used"} /\ step.alone =>
           \A i \in Host!WithDomain({step.row.domain}) :
             /\ hosts'[i].use = 1
             /\ step.at = "used" /\ hosts[i].parent \in Host!There =>
                  hosts'[hosts[i].parent].use = 1
  PROVE  HostInv'
<1> USE DEF HostInv, Host!Inv
<1>1. /\ Host!There' = Host!There
      /\ \A i \in Host!There : /\ hosts'[i].domain = hosts[i].domain
                               /\ hosts'[i].parent = hosts[i].parent
  BY RowIsThere DEF Host!There
<1>2. /\ \A id : Host!ChildrenOf(id)' = Host!ChildrenOf(id)
      /\ \A ds : Host!WithDomain(ds)' = Host!WithDomain(ds)
  BY <1>1 DEF Host!ChildrenOf, Host!WithDomain
<1>3. \A q \in HostReq : Host!Posts(q)' =>
        /\ Host!Posts(q) /\ hostReq'[q].id = hostReq[q].id
        /\ hostReq'[q].row = hostReq[q].row /\ hostReq'[q].old = hostReq[q].old
  BY DEF Host!Posts
<1>4. Host!TypeOK'
  <2>1. /\ lastId \in Nat /\ lastId' \in Nat /\ lastId <= lastId' /\ lastId' \in 0..MaxId
        /\ 1..lastId \subseteq 1..lastId'
    BY LastIdNat, MaxIdNat
  <2>2. Host!RowType \subseteq Host!RowType' /\ Host!ReqType \subseteq Host!ReqType'
    BY <2>1, HostTypesGrow
  <2>3. erased' \subseteq 1..lastId' /\ orphaned' \subseteq 1..lastId'
    BY <2>1 DEF Host!TypeOK
  <2>4. hosts' \in [Host!Id -> Host!RowType' \cup {Host!NoRow}]
    <3>1. \A i \in Host!Id : hosts'[i] \in Host!RowType' \cup {Host!NoRow}
      BY <2>2 DEF Host!TypeOK
    <3> QED
      BY <3>1
  <2>5. hostReq' \in [HostReq -> Host!ReqType']
    BY <2>2
  <2>6. \A i \in Host!There' : i <= lastId' /\ hosts'[i].parent < i
    <3> SUFFICES ASSUME NEW i \in Host!There PROVE i <= lastId' /\ hosts[i].parent < i
      BY <1>1
    <3>1. i \in 1..lastId /\ hosts[i].parent < i
      BY HostRow
    <3> QED
      BY <2>1, <3>1
  <2>7. \A i, j \in Host!There' : hosts'[i].domain = hosts'[j].domain => i = j
    BY <1>1 DEF Host!TypeOK
  <2>8. \A q \in HostReq : Host!Posts(q)' =>
          /\ hostReq'[q].row \in Host!RowType'
          /\ hostReq'[q].id # 0 => hostReq'[q].row.parent < hostReq'[q].id
    BY <1>3, <2>2 DEF Host!TypeOK
  <2> QED
    BY <2>1, <2>3, <2>4, <2>5, <2>6, <2>7, <2>8 DEF Host!TypeOK
<1>5. Host!ParentsStay'
  <2>1. \A i : Host!Parents(i)' \subseteq Host!Parents(i)
    BY <1>1, <1>3, InParents
  <2> QED
    BY <2>1, ParentsShrink
<1>6. Host!OrphansAreStale'
  BY <1>1, <1>3 DEF Host!OrphansAreStale, Host!Gone
<1>7. Host!ChildrenFollow'
  <2> SUFFICES ASSUME NEW q \in HostReq, hostReq'[q].at \in {"save", "done"},
                      hostReq'[q].alone, NEW id, id = hostReq'[q].id,
                      NEW c \in Host!ChildrenOf(id)
               PROVE  hosts'[c].status = hostReq'[q].row.status
    BY <1>2 DEF Host!ChildrenFollow
  <2>1. CASE q = p
    BY <2>1
  <2>2. CASE q # p
    BY <2>2 DEF Host!ChildrenFollow
  <2> QED
    BY <2>1, <2>2
<1>8. Host!ParentsAreUsed'
  <2> SUFFICES ASSUME NEW q \in HostReq, hostReq'[q].at \in {"parents", "used"},
                      hostReq'[q].alone, NEW ds, ds = {hostReq'[q].row.domain},
                      NEW i \in Host!WithDomain(ds)
               PROVE  /\ hosts'[i].use = 1
                      /\ hostReq'[q].at = "used" /\ hosts'[i].parent \in Host!There' =>
                           hosts'[hosts'[i].parent].use = 1
    BY <1>2 DEF Host!ParentsAreUsed
  <2>1. hosts'[i].parent = hosts[i].parent
    BY <1>1 DEF Host!WithDomain
  <2>2. CASE q = p
    BY <1>1, <2>1, <2>2
  <2>3. CASE q # p
    BY <1>1, <2>1, <2>3 DEF Host!ParentsAreUsed
  <2> QED
    BY <2>2, <2>3
<1> QED
  BY <1>4, <1>5, <1>6, <1>7, <1>8

LEMMA IdleHostReq ==
  ASSUME Host!TypeOK
  PROVE  Host!Idle \in Host!ReqType
<1>1. 0 \in 0..lastId
  BY LastIdNat
<1> QED
  BY <1>1 DEF Host!Idle, Host!ReqType, Host!NoRow

\* A request is at its end, or fails; an insert that fails has used its id up.
LEMMA HostEndsInv ==
  ASSUME HostInv, NEW p \in HostReq, hostReq' = [hostReq EXCEPT ![p] = Host!Idle],
         UNCHANGED <<hosts, erased, orphaned>>, lastId' \in lastId..MaxId
  PROVE  HostInv'
<1>1. /\ Host!TypeOK /\ hosts \in [Host!Id -> Host!RowType \cup {Host!NoRow}]
      /\ hostReq \in [HostReq -> Host!ReqType]
  BY DEF HostInv, Host!Inv, Host!TypeOK
<1>2. /\ Host!Idle \in Host!ReqType /\ Host!Idle.at = "idle"
  BY <1>1, IdleHostReq, HostIdle
<1>3. /\ hostReq' \in [HostReq -> Host!ReqType] /\ hostReq'[p] = Host!Idle
      /\ \A q \in HostReq \ {p} : hostReq'[q] = hostReq[q]
  BY <1>1, <1>2
<1>4. DOMAIN hosts' = Host!Id /\ hosts' = [i \in DOMAIN hosts' |-> hosts'[i]]
  BY <1>1
<1> QED
  BY <1>2, <1>3, <1>4, HostQuietInv

\* A column of some rows is set by a request that goes on.
LEMMA HostSetsInv ==
  ASSUME HostInv, NEW p \in HostReq, NEW step \in Host!ReqType, NEW ids,
         ids \cap Host!Id \subseteq Host!There,
         \/ \E st \in {0, 1} : hosts' = [i \in Host!Id |->
               IF i \in ids THEN [hosts[i] EXCEPT !.status = st] ELSE hosts[i]]
         \/ hosts' = [i \in Host!Id |->
               IF i \in ids THEN [hosts[i] EXCEPT !.use = 1] ELSE hosts[i]],
         hostReq' = Host!After(p, step, FALSE), UNCHANGED <<lastId, erased, orphaned>>,
         step.at \in {"page", "save"} =>
           /\ Host!Posts(p) /\ step.id = hostReq[p].id
           /\ step.row = hostReq[p].row /\ step.old = hostReq[p].old,
         step.at \in {"save", "done"} /\ step.alone =>
           \A c \in Host!ChildrenOf(step.id) : hosts'[c].status = step.row.status,
         step.at \in {"parents", "used"} /\ step.alone =>
           \A i \in Host!WithDomain({step.row.domain}) :
             /\ hosts'[i].use = 1
             /\ step.at = "used" /\ hosts[i].parent \in Host!There =>
                  hosts'[hosts[i].parent].use = 1
  PROVE  HostInv'
<1>1. /\ Host!TypeOK /\ hosts \in [Host!Id -> Host!RowType \cup {Host!NoRow}]
  BY DEF HostInv, Host!Inv, Host!TypeOK
<1>2. /\ hostReq' \in [HostReq -> Host!ReqType] /\ hostReq'[p] = step
      /\ \A q \in HostReq \ {p} :
           /\ hostReq'[q].at = hostReq[q].at /\ hostReq'[q].id = hostReq[q].id
           /\ hostReq'[q].row = hostReq[q].row
           /\ hostReq'[q].alone => hostReq[q].at \in {"idle", "page"}
           /\ hostReq'[q].old = (hostReq[q].old \/ (FALSE /\ Host!Posts(q)))
  BY <1>1, HostAfter
<1>3. \A q \in HostReq \ {p} : hostReq'[q].old = hostReq[q].old
  <2>1. \A q \in HostReq : hostReq[q].old \in BOOLEAN
    BY <1>1 DEF Host!TypeOK, Host!ReqType
  <2> QED
    BY <1>2, <2>1
<1>4. ASSUME NEW i \in Host!Id
      PROVE  \/ hosts'[i] = hosts[i]
             \/ /\ i \in Host!There /\ hosts'[i] \in Host!RowType
                /\ hosts'[i].domain = hosts[i].domain /\ hosts'[i].parent = hosts[i].parent
  <2>1. CASE i \in ids
    <3>1. i \in Host!There /\ hosts[i] \in Host!RowType
      BY <1>1, <2>1, HostRow
    <3>2. \/ \E st \in {0, 1} : hosts'[i] = [hosts[i] EXCEPT !.status = st]
          \/ hosts'[i] = [hosts[i] EXCEPT !.use = 1]
      BY <2>1
    <3> QED
      BY <3>1, <3>2 DEF Host!RowType
  <2>2. CASE i \notin ids
    BY <2>2
  <2> QED
    BY <2>1, <2>2
<1>5. DOMAIN hosts' = Host!Id /\ hosts' = [i \in DOMAIN hosts' |-> hosts'[i]]
  OBVIOUS
<1>6. lastId' \in lastId..MaxId
  BY <1>1, LastIdNat, MaxIdNat
<1>7. \A q \in HostReq \ {p} :
        /\ hostReq'[q].at = hostReq[q].at /\ hostReq'[q].id = hostReq[q].id
        /\ hostReq'[q].row = hostReq[q].row /\ hostReq'[q].old = hostReq[q].old
        /\ hostReq'[q].alone =>
             \/ hostReq[q].at \in {"idle", "page"}
             \/ hostReq[q].alone /\ hosts' = hosts
  BY <1>2, <1>3
<1>8. UNCHANGED <<erased, orphaned>>
  OBVIOUS
<1>9. /\ hostReq' \in [HostReq -> Host!ReqType] /\ hostReq'[p] = step
  BY <1>2
<1> HIDE <1>2
<1> QED
  BY <1>4, <1>5, <1>6, <1>7, <1>8, <1>9, HostQuietInv

LEMMA HostChildrenInv ==
  ASSUME HostInv, NEW p \in HostReq, Host!StatusOfChildren(p)
  PROVE  HostInv'
<1> DEFINE r == hostReq[p]  st == r.row.status
           step == [r EXCEPT !.at = "save", !.alone = TRUE]
           ids == Host!ChildrenOf(r.id)
<1>1. Host!TypeOK /\ r.at = "page" /\ UNCHANGED <<lastId, erased, orphaned>>
  BY DEF HostInv, Host!Inv, Host!StatusOfChildren
<1>2. r \in Host!ReqType /\ r.row \in Host!RowType
  BY <1>1, HostReqFields DEF Host!Posts
<1>3. /\ step \in Host!ReqType /\ step.at = "save" /\ step.id = r.id
      /\ step.row = r.row /\ step.old = r.old
  BY <1>2 DEF Host!ReqType
<1>4. st \in {0, 1}
  BY <1>2 DEF Host!RowType
<1>5. CASE hosts' = hosts /\ hostReq' = [hostReq EXCEPT ![p] = Host!Idle]
  <2>1. lastId' \in lastId..MaxId
    BY <1>1, LastIdNat, MaxIdNat
  <2> QED
    BY <1>1, <1>5, <2>1, HostEndsInv
<1>6. CASE Host!SetStatus(ids, st) /\ hostReq' = Host!After(p, step, FALSE)
  <2>1. ids \subseteq Host!There /\ Host!There \subseteq Host!Id
    BY DEF Host!ChildrenOf, Host!There
  <2>2. hosts' = [i \in Host!Id |->
               IF i \in ids THEN [hosts[i] EXCEPT !.status = st] ELSE hosts[i]]
    BY <1>6 DEF Host!SetStatus
  <2>3. \A c \in ids : hosts'[c].status = st
    <3> SUFFICES ASSUME NEW c \in ids PROVE hosts'[c].status = st
      OBVIOUS
    <3>1. hosts'[c] = [hosts[c] EXCEPT !.status = st] /\ hosts[c] \in Host!RowType
      BY <1>1, <2>1, <2>2, HostRow
    <3> QED
      BY <3>1 DEF Host!RowType
  <2>4. Host!Posts(p)
    BY <1>1 DEF Host!Posts
  <2>5. \A c \in Host!ChildrenOf(step.id) : hosts'[c].status = step.row.status
    BY <1>3, <2>3
  <2>6. \E s \in {0, 1} : hosts' = [i \in Host!Id |->
               IF i \in ids THEN [hosts[i] EXCEPT !.status = s] ELSE hosts[i]]
    BY <1>4, <2>2
  <2>7. ids \cap Host!Id \subseteq Host!There
    BY <2>1
  <2> HIDE DEF step, ids, st
  <2> QED
    BY <1>1, <1>3, <1>6, <2>4, <2>5, <2>6, <2>7, HostSetsInv
<1> QED
  BY <1>5, <1>6 DEF Host!StatusOfChildren

LEMMA HostUsedInv ==
  ASSUME HostInv, NEW p \in HostReq, Host!PutServerHostByDomain(p)
  PROVE  HostInv'
<1>1. Host!TypeOK /\ UNCHANGED <<lastId, erased, orphaned>>
  BY DEF HostInv, Host!Inv, Host!PutServerHostByDomain
<1>2. ASSUME NEW ids \in SUBSET Host!There, Host!Used(ids)
      PROVE  /\ hosts' = [i \in Host!Id |->
                   IF i \in ids THEN [hosts[i] EXCEPT !.use = 1] ELSE hosts[i]]
             /\ \A i \in ids : hosts'[i].use = 1
             /\ \A i \in Host!There : hosts[i].use = 1 => hosts'[i].use = 1
  <2>1. hosts' = [i \in Host!Id |->
                   IF i \in ids THEN [hosts[i] EXCEPT !.use = 1] ELSE hosts[i]]
    BY <1>2 DEF Host!Used
  <2>2. \A i \in Host!There : i \in Host!Id /\ hosts[i] \in Host!RowType
    BY <1>1, HostRow
  <2>3. \A i \in ids : hosts'[i].use = 1
    BY <2>1, <2>2 DEF Host!RowType
  <2>4. \A i \in Host!There : hosts[i].use = 1 => hosts'[i].use = 1
    BY <2>1, <2>2, <2>3
  <2> QED
    BY <2>1, <2>3, <2>4
<1>3. ASSUME NEW d \in Domain, hostReq[p] = Host!Idle,
             Host!Used(Host!WithDomain({d})),
             hostReq' = Host!After(p, [Host!Idle EXCEPT !.at = "parents", !.row.domain = d], FALSE)
      PROVE  HostInv'
  <2> DEFINE ids == Host!WithDomain({d})
             step == [Host!Idle EXCEPT !.at = "parents", !.row.domain = d]
  <2>1. ids \subseteq Host!There /\ ids \cap Host!Id \subseteq Host!There
    BY DEF Host!WithDomain
  <2>2. step \in Host!ReqType /\ step.at = "parents" /\ step.row.domain = d
    <3>1. 0 \in 0..lastId
      BY <1>1, LastIdNat
    <3> QED
      BY <3>1 DEF Host!Idle, Host!NoRow, Host!ReqType
  <2>3. /\ hosts' = [i \in Host!Id |->
               IF i \in ids THEN [hosts[i] EXCEPT !.use = 1] ELSE hosts[i]]
        /\ \A i \in ids : hosts'[i].use = 1
    BY <1>2, <1>3, <2>1
  <2>4. \A i \in Host!WithDomain({step.row.domain}) : hosts'[i].use = 1
    BY <2>2, <2>3
  <2> HIDE DEF step, ids
  <2> QED
    BY <1>1, <1>3, <2>1, <2>2, <2>3, <2>4, HostSetsInv DEF step
<1>4. ASSUME hostReq[p].at = "parents",
             Host!Used({hosts[i].parent : i \in Host!WithDomain({hostReq[p].row.domain})}
                         \cap Host!There),
             hostReq' = Host!After(p, [hostReq[p] EXCEPT !.at = "used"], FALSE)
      PROVE  HostInv'
  <2> DEFINE d == hostReq[p].row.domain
             ids == {hosts[i].parent : i \in Host!WithDomain({d})} \cap Host!There
             step == [hostReq[p] EXCEPT !.at = "used"]
  <2>1. ids \subseteq Host!There /\ ids \cap Host!Id \subseteq Host!There
    OBVIOUS
  <2>2. /\ step \in Host!ReqType /\ step.at = "used" /\ step.row.domain = d
        /\ step.alone = hostReq[p].alone
    <3>1. hostReq[p] \in Host!ReqType
      BY <1>1, HostReqFields
    <3> QED
      BY <3>1 DEF Host!ReqType
  <2>3. /\ hosts' = [i \in Host!Id |->
               IF i \in ids THEN [hosts[i] EXCEPT !.use = 1] ELSE hosts[i]]
        /\ \A i \in ids : hosts'[i].use = 1
        /\ \A i \in Host!There : hosts[i].use = 1 => hosts'[i].use = 1
    BY <1>2, <1>4, <2>1
  <2>4. step.alone =>
          \A i \in Host!WithDomain({d}) :
             /\ hosts'[i].use = 1
             /\ hosts[i].parent \in Host!There => hosts'[hosts[i].parent].use = 1
    <3> SUFFICES ASSUME step.alone, NEW i \in Host!WithDomain({d})
                 PROVE  /\ hosts'[i].use = 1
                        /\ hosts[i].parent \in Host!There => hosts'[hosts[i].parent].use = 1
      OBVIOUS
    <3>1. hosts[i].use = 1
      BY <1>4, <2>2 DEF HostInv, Host!Inv, Host!ParentsAreUsed
    <3>2. i \in Host!There
      BY DEF Host!WithDomain
    <3> QED
      BY <2>3, <3>1, <3>2
  <2> HIDE DEF step, ids
  <2> QED
    BY <1>1, <2>1, <2>2, <2>3, <2>4, <1>4, HostSetsInv DEF step
<1>5. CASE hosts' = hosts /\ hostReq' = [hostReq EXCEPT ![p] = Host!Idle]
  <2>1. lastId' \in lastId..MaxId
    BY <1>1, LastIdNat, MaxIdNat
  <2> QED
    BY <1>1, <1>5, <2>1, HostEndsInv
<1> QED
  BY <1>3, <1>4, <1>5 DEF Host!PutServerHostByDomain

\* A page of a row, or of none yet below a host that has no parent itself.
IsPage(page) ==
  /\ page.at = "page" /\ page.row \in Host!RowType /\ page.old = FALSE
  /\ \/ page.id \in Host!There /\ page.row.parent = hosts[page.id].parent
     \/ /\ page.id = 0
        /\ \/ page.row.parent = 0
           \/ page.row.parent \in Host!There /\ hosts[page.row.parent].parent = 0

LEMMA HostPageInv ==
  ASSUME HostInv, NEW p \in HostReq, Host!Page(p)
  PROVE  HostInv'
<1> USE DEF HostInv, Host!Inv
<1>1. /\ hostReq[p] = Host!Idle /\ UNCHANGED <<hosts, lastId, erased, orphaned>>
      /\ ~Host!Posts(p)
  BY HostIdle DEF Host!Page, Host!Posts
<1>2. PICK next \in Host!ReqType : hostReq' = [hostReq EXCEPT ![p] = next] /\ IsPage(next)
  <2>1. ASSUME NEW i \in Host!There, NEW st \in {0, 1},
               hostReq' = [hostReq EXCEPT ![p] =
                 [Host!Idle EXCEPT !.at = "page", !.id = i,
                                   !.row = [hosts[i] EXCEPT !.status = st]]]
        PROVE  \E next \in Host!ReqType :
                 hostReq' = [hostReq EXCEPT ![p] = next] /\ IsPage(next)
    <3> DEFINE row == [hosts[i] EXCEPT !.status = st]
               next == [Host!Idle EXCEPT !.at = "page", !.id = i, !.row = row]
    <3>1. row \in Host!RowType /\ row.parent = hosts[i].parent /\ i \in 0..lastId
      BY HostRow DEF Host!RowType
    <3> HIDE DEF row
    <3>2. /\ next \in Host!ReqType /\ next.at = "page" /\ next.id = i
          /\ next.row = row /\ next.old = FALSE
      <4>1. Host!Idle \in Host!ReqType /\ Host!Idle.id = 0 /\ Host!Idle.old = FALSE
        BY IdleHostReq, HostIdle
      <4> QED
        BY <3>1, <4>1 DEF Host!ReqType
    <3>3. IsPage(next)
      BY <3>1, <3>2 DEF IsPage
    <3> QED
      BY <2>1, <3>2, <3>3 DEF row
  <2>2. ASSUME NEW d \in Domain, NEW st \in {0, 1},
               NEW t \in {0} \cup {i \in Host!There : hosts[i].parent = 0},
               hostReq' = [hostReq EXCEPT ![p] =
                 [Host!Idle EXCEPT !.at = "page",
                    !.row = [domain |-> d, parent |-> t, status |-> st, use |-> 0]]]
        PROVE  \E next \in Host!ReqType :
                 hostReq' = [hostReq EXCEPT ![p] = next] /\ IsPage(next)
    <3> DEFINE row == [domain |-> d, parent |-> t, status |-> st, use |-> 0]
               next == [Host!Idle EXCEPT !.at = "page", !.row = row]
    <3>1. t \in 0..lastId /\ 0 \in 0..lastId
      BY LastIdNat, HostRow
    <3>2. row \in Host!RowType /\ row.parent = t
      BY <3>1 DEF Host!RowType
    <3> HIDE DEF row
    <3>3. /\ next \in Host!ReqType /\ next.at = "page" /\ next.id = 0
          /\ next.row = row /\ next.old = FALSE
      <4>1. Host!Idle \in Host!ReqType /\ Host!Idle.id = 0 /\ Host!Idle.old = FALSE
        BY IdleHostReq, HostIdle
      <4> QED
        BY <3>1, <3>2, <4>1 DEF Host!ReqType
    <3>4. IsPage(next)
      BY <3>2, <3>3 DEF IsPage
    <3> QED
      BY <2>2, <3>3, <3>4 DEF row
  <2> QED
    BY <2>1, <2>2 DEF Host!Page
<1>3. /\ hostReq' \in [HostReq -> Host!ReqType]
      /\ \A q \in HostReq : hostReq'[q] = IF q = p THEN next ELSE hostReq[q]
  BY <1>2 DEF Host!TypeOK
<1> USE DEF IsPage
<1>4. /\ Host!There' = Host!There
      /\ \A id : Host!ChildrenOf(id)' = Host!ChildrenOf(id)
      /\ \A ds : Host!WithDomain(ds)' = Host!WithDomain(ds)
  BY <1>1 DEF Host!There, Host!ChildrenOf, Host!WithDomain
<1>5. \A q \in HostReq : Host!Posts(q)' => q = p \/ (Host!Posts(q) /\ hostReq'[q] = hostReq[q])
  BY <1>3 DEF Host!Posts
<1>6. Host!TypeOK'
  <2>1. next.id # 0 => next.row.parent < next.id
    BY <1>2, HostRow
  <2>2. Host!RowType' = Host!RowType /\ Host!ReqType' = Host!ReqType
    BY <1>1 DEF Host!RowType, Host!ReqType
  <2>3. \A q \in HostReq : Host!Posts(q)' =>
          /\ hostReq'[q].row \in Host!RowType
          /\ hostReq'[q].id # 0 => hostReq'[q].row.parent < hostReq'[q].id
    BY <1>2, <1>3, <1>5, <2>1 DEF Host!TypeOK
  <2> QED
    BY <1>1, <1>3, <1>4, <2>2, <2>3 DEF Host!TypeOK
<1>7. Host!ParentsStay'
  <2> DEFINE t == next.row.parent
  <2>1. \A i : Host!Parents(i)' \subseteq Host!Parents(i) \cup (IF i = next.id THEN {t} ELSE {})
    BY <1>1, <1>3, <1>4, <1>5, InParents
  <2>2. CASE next.id \in Host!There /\ t = hosts[next.id].parent
    <3>1. t \in Host!Parents(next.id)
      BY <2>2, InParents
    <3>2. \A i : Host!Parents(i)' \subseteq Host!Parents(i)
      BY <2>1, <3>1
    <3> QED
      BY <3>2, ParentsShrink
  <2>3. CASE next.id = 0 /\ (t = 0 \/ (t \in Host!There /\ hosts[t].parent = 0))
    <3>1. 0 \notin Host!Id
      BY MaxIdNat DEF Host!Id
    <3>2. \A i \in Host!Id : Host!Parents(i)' \subseteq Host!Parents(i)
      BY <2>1, <2>3, <3>1
    <3>3. t # 0 => t \in Host!Id /\ Host!Parents(t) \subseteq {0}
      <4>1. t # 0 => t \in Host!Id /\ 0 \in Host!Parents(t)
        BY <2>3, HostRow, InParents
      <4> QED
        BY <4>1 DEF Host!ParentsStay
    <3>4. ASSUME NEW i \in 0..MaxId, NEW u \in Host!Parents(i)' \ {0}
          PROVE  Host!Parents(u)' \subseteq {0}
      <4>1. CASE u \in Host!Parents(i)
        <5>1. Host!Parents(u) \subseteq {0}
          BY <4>1, <3>4 DEF Host!ParentsStay
        <5>2. u # next.id
          BY <2>3, <3>4
        <5> QED
          BY <2>1, <5>1, <5>2
      <4>2. CASE u = t
        BY <3>2, <3>3, <3>4, <4>2
      <4> QED
        BY <2>1, <3>4, <4>1, <4>2
    <3>5. \A i \in Host!Id : \A u, v \in Host!Parents(i)' : u = v
      BY <3>2 DEF Host!ParentsStay
    <3> QED
      BY <3>4, <3>5 DEF Host!ParentsStay
  <2> QED
    BY <1>2, <2>2, <2>3
<1>8. Host!OrphansAreStale'
  <2>1. Host!Gone(next.row.parent) => next.id \in orphaned
    <3>1. 0 \notin erased
      BY LastIdNat DEF Host!TypeOK
    <3> QED
      BY <1>2, <3>1 DEF Host!OrphansAreStale, Host!Gone
  <2> QED
    BY <1>1, <1>3, <1>4, <1>5, <2>1 DEF Host!OrphansAreStale, Host!Gone
<1>9. Host!ChildrenFollow' /\ Host!ParentsAreUsed'
  <2>1. \A q \in HostReq : hostReq'[q].at # "page" => hostReq'[q] = hostReq[q]
    BY <1>2, <1>3
  <2>2. Host!ChildrenFollow'
    BY <1>1, <2>1 DEF Host!ChildrenFollow, Host!ChildrenOf, Host!There
  <2>3. Host!ParentsAreUsed'
    BY <1>1, <2>1 DEF Host!ParentsAreUsed, Host!WithDomain, Host!There
  <2> QED
    BY <2>2, <2>3
<1> QED
  BY <1>6, <1>7, <1>8, <1>9

\* A row is saved: an insert has the next id, of which no row or page knows.
LEMMA HostSavedInv ==
  ASSUME HostInv, NEW p \in HostReq, NEW r, r = hostReq[p], r.at = "save",
         NEW id \in Host!Id, id = (IF r.id = 0 THEN lastId + 1 ELSE r.id),
         Host!WithDomain({r.row.domain}) \subseteq {id},
         hosts' = [hosts EXCEPT ![id] = r.row],
         lastId' = IF r.id = 0 THEN id ELSE lastId,
         hostReq' = Host!After(p, [r EXCEPT !.at = "done", !.id = id, !.old = FALSE,
                                     !.row = [Host!NoRow EXCEPT !.status = r.row.status]], FALSE),
         orphaned' = IF r.old THEN orphaned \cup {id} ELSE orphaned,
         erased' = erased
  PROVE  HostInv'
<1> DEFINE row == [Host!NoRow EXCEPT !.status = r.row.status]
           step == [r EXCEPT !.at = "done", !.id = id, !.old = FALSE, !.row = row]
<1>1. /\ Host!TypeOK /\ Host!ParentsStay /\ Host!OrphansAreStale /\ Host!ChildrenFollow
      /\ hosts \in [Host!Id -> Host!RowType \cup {Host!NoRow}]
  BY DEF HostInv, Host!Inv, Host!TypeOK
<1>2. /\ Host!Posts(p) /\ r \in Host!ReqType /\ r.id \in 0..lastId /\ lastId \in Nat
      /\ r.row \in Host!RowType /\ r.row.parent \in 0..lastId
      /\ r.id # 0 => r.row.parent < r.id
  BY <1>1, HostReqFields DEF Host!Posts
<1>3. /\ lastId' \in Nat /\ lastId <= lastId' /\ lastId' \in 0..MaxId
      /\ id \in 1..lastId' /\ r.row.parent < id
      /\ r.id = 0 => id = lastId + 1
      /\ r.id # 0 => id = r.id
  BY <1>1, <1>2, LastIdNat, MaxIdNat DEF Host!Id
<1>4. Host!RowType \subseteq Host!RowType' /\ Host!ReqType \subseteq Host!ReqType'
  BY <1>2, <1>3, HostTypesGrow
<1>5. /\ step \in Host!ReqType' /\ step.at = "done" /\ step.id = id
      /\ step.row.status = r.row.status /\ step.alone = r.alone
  <2>1. r.row.status \in {0, 1}
    BY <1>2 DEF Host!RowType
  <2>2. /\ row \in [domain : Domain \cup {""}, parent : {0}, status : {0, 1}, use : {0}]
        /\ row.status = r.row.status
    BY <2>1 DEF Host!NoRow
  <2>3. id \in 0..lastId'
    BY <1>3
  <2> HIDE DEF row
  <2> QED
    BY <1>2, <2>2, <2>3 DEF Host!ReqType
<1> HIDE DEF step
<1>6. /\ hostReq' = [q \in HostReq |-> hostReq'[q]] /\ hostReq'[p] = step
      /\ \A q \in HostReq \ {p} :
           /\ hostReq'[q] \in Host!ReqType
           /\ hostReq'[q].at = hostReq[q].at /\ hostReq'[q].id = hostReq[q].id
           /\ hostReq'[q].row = hostReq[q].row
           /\ hostReq'[q].alone => hostReq[q].at \in {"idle", "page"}
           /\ hostReq'[q].old = (hostReq[q].old \/ (FALSE /\ Host!Posts(q)))
  <2>1. hostReq' = Host!After(p, step, FALSE)
    BY DEF step
  <2> QED
    BY <1>1, <2>1, HostAfter
<1>7. /\ Host!There' = Host!There \cup {id} /\ hosts'[id] = r.row
      /\ \A i \in Host!Id \ {id} : hosts'[i] = hosts[i]
  BY <1>1, <1>2, RowIsThere DEF Host!There
<1>8. \A q \in HostReq : Host!Posts(q)' =>
        /\ q # p /\ Host!Posts(q) /\ hostReq'[q].id = hostReq[q].id
        /\ hostReq'[q].row = hostReq[q].row
        /\ hostReq'[q].old = (hostReq[q].old \/ (FALSE /\ Host!Posts(q)))
  BY <1>5, <1>6 DEF Host!Posts
<1>9. Host!There \subseteq Host!Id
  BY DEF Host!There
<1>10. Host!TypeOK'
  <2>1. erased' \subseteq 1..lastId' /\ orphaned' \subseteq 1..lastId'
    <3>1. 1..lastId \subseteq 1..lastId'
      BY <1>2, <1>3
    <3>2. erased \subseteq 1..lastId /\ orphaned \subseteq 1..lastId
      BY <1>1 DEF Host!TypeOK
    <3> QED
      BY <1>3, <3>1, <3>2
  <2>2. hosts' \in [Host!Id -> Host!RowType' \cup {Host!NoRow}]
    BY <1>1, <1>2, <1>4
  <2>3. hostReq' \in [HostReq -> Host!ReqType']
    <3>1. \A q \in HostReq : hostReq'[q] \in Host!ReqType'
      BY <1>4, <1>5, <1>6
    <3> QED
      BY <1>6, <3>1
  <2>4. ASSUME NEW i \in Host!There'
        PROVE  i <= lastId' /\ hosts'[i].parent < i
    <3>1. CASE i = id
      BY <1>3, <1>7, <3>1
    <3>2. CASE i # id
      <4>1. i \in Host!There /\ hosts'[i] = hosts[i]
        BY <1>7, <1>9, <3>2
      <4>2. i \in 1..lastId /\ hosts[i].parent < i
        BY <1>1, <4>1, HostRow
      <4>3. i <= lastId'
        BY <1>2, <1>3, <4>2
      <4> QED
        BY <4>1, <4>2, <4>3
    <3> QED
      BY <3>1, <3>2
  <2>5. ASSUME NEW i \in Host!There', NEW j \in Host!There',
               hosts'[i].domain = hosts'[j].domain
        PROVE  i = j
    <3>1. \A k \in Host!There : hosts[k].domain = r.row.domain => k = id
      BY DEF Host!WithDomain
    <3> QED
      BY <1>1, <1>7, <1>9, <2>5, <3>1 DEF Host!TypeOK
  <2>6. \A q \in HostReq : Host!Posts(q)' =>
          /\ hostReq'[q].row \in Host!RowType'
          /\ hostReq'[q].id # 0 => hostReq'[q].row.parent < hostReq'[q].id
    BY <1>1, <1>4, <1>8 DEF Host!TypeOK
  <2> QED
    BY <1>3, <2>1, <2>2, <2>3, <2>4, <2>5, <2>6 DEF Host!TypeOK
<1>11. \A i, t : t \in Host!Parents(i)' =>
         t \in Host!Parents(i) \/ (i = id /\ t = r.row.parent)
  <2> SUFFICES ASSUME NEW i, NEW t, t \in Host!Parents(i)'
               PROVE  t \in Host!Parents(i) \/ (i = id /\ t = r.row.parent)
    OBVIOUS
  <2>1. CASE i \in Host!There' /\ hosts'[i].parent = t
    <3>1. i # id => i \in Host!There /\ hosts'[i] = hosts[i]
      BY <1>7, <1>9, <2>1
    <3> QED
      BY <1>7, <2>1, <3>1, InParents
  <2>2. CASE \E q \in HostReq : /\ Host!Posts(q)' /\ hostReq'[q].id = i
                                 /\ hostReq'[q].row.parent = t
    <3>1. \E q \in HostReq : /\ Host!Posts(q) /\ hostReq[q].id = i
                             /\ hostReq[q].row.parent = t
      BY ONLY <1>8, <2>2
    <3> QED
      BY <3>1, InParents
  <2> QED
    BY <2>1, <2>2, InParents
<1>12. r.row.parent \in Host!Parents(r.id)
  BY <1>2, InParents
<1>13. Host!ParentsStay'
  <2>1. CASE r.id # 0
    <3>1. \A i : Host!Parents(i)' \subseteq Host!Parents(i)
      BY <1>3, <1>11, <1>12, <2>1
    <3> QED
      BY <1>1, <3>1, ParentsShrink
  <2>2. CASE r.id = 0
    <3>1. \A i, t : t \in Host!Parents(i) => i \in 0..lastId /\ t \in 0..lastId
      BY <1>1, ParentsAreIds
    <3>2. id \notin 0..lastId
      BY <1>2, <1>3, <2>2
    <3>3. \A i \in Host!Id : \A t, u \in Host!Parents(i)' : t = u
      BY <1>1, <1>11, <3>1, <3>2 DEF Host!ParentsStay
    <3>4. ASSUME NEW i \in 0..MaxId, NEW t \in Host!Parents(i)' \ {0}
          PROVE  Host!Parents(t)' \subseteq {0}
      <4>1. 0 \in 0..MaxId
        BY MaxIdNat
      <4>2. t \in Host!Parents(i) \/ t \in Host!Parents(0)
        BY <1>11, <1>12, <2>2, <3>4
      <4>3. Host!Parents(t) \subseteq {0}
        BY <1>1, <3>4, <4>1, <4>2 DEF Host!ParentsStay
      <4>4. t # id
        BY <3>1, <3>2, <4>2
      <4> QED
        BY <1>11, <4>3, <4>4
    <3> QED
      BY <3>3, <3>4 DEF Host!ParentsStay
  <2> QED
    BY <2>1, <2>2
<1>14. Host!OrphansAreStale'
  <2>1. /\ \A x : Host!Gone(x)' => Host!Gone(x)
        /\ orphaned \subseteq orphaned' /\ 0 \notin orphaned
    <3>1. 0 \notin orphaned
      BY <1>1 DEF Host!TypeOK
    <3> QED
      BY <1>7, <3>1 DEF Host!Gone
  <2>2. Host!Gone(r.row.parent) => id \in orphaned'
    <3>1. CASE r.old
      BY <3>1
    <3>2. CASE ~r.old
      BY <1>1, <1>2, <1>3, <2>1, <3>2 DEF Host!OrphansAreStale
    <3> QED
      BY <3>1, <3>2
  <2>3. ASSUME NEW i \in Host!There', NEW x, x = hosts'[i].parent, Host!Gone(x)'
        PROVE  i \in orphaned'
    BY <1>1, <1>7, <1>9, <2>1, <2>2, <2>3 DEF Host!OrphansAreStale
  <2>4. ASSUME NEW q \in HostReq, Host!Posts(q)', ~hostReq'[q].old,
               NEW x, x = hostReq'[q].row.parent, Host!Gone(x)'
        PROVE  hostReq'[q].id \in orphaned'
    BY <1>1, <1>8, <2>1, <2>4 DEF Host!OrphansAreStale
  <2> QED
    BY <2>3, <2>4 DEF Host!OrphansAreStale
<1>15. Host!ChildrenFollow'
  <2>0. SUFFICES ASSUME NEW q \in HostReq, hostReq'[q].at \in {"save", "done"},
                        hostReq'[q].alone, NEW x, x = hostReq'[q].id,
                        NEW c \in Host!There', hosts'[c].parent = x
               PROVE  hosts'[c].status = hostReq'[q].row.status
    BY DEF Host!ChildrenFollow, Host!ChildrenOf
  <2>1. q = p
    BY <1>6, <2>0
  <2>2. x = id /\ r.alone
    BY <1>5, <1>6, <2>0, <2>1
  <2>3. c # id
    <3>1. r.row.parent # id
      BY <1>2, <1>3
    <3> QED
      BY <1>7, <2>0, <2>2, <3>1
  <2>4. c \in Host!There /\ hosts'[c] = hosts[c] /\ hosts[c].parent = id
    BY ONLY <1>7, <1>9, <2>0, <2>2, <2>3
  <2>5. r.id = id
    BY <1>1, <1>2, <1>3, <2>4, HostRow
  <2>6. hosts[c].status = r.row.status
    BY <1>1, <2>2, <2>4, <2>5 DEF Host!ChildrenFollow, Host!ChildrenOf
  <2> QED
    BY <1>5, <1>6, <2>0, <2>1, <2>4, <2>6
<1>16. Host!ParentsAreUsed'
  <2>1. \A q \in HostReq : ~(hostReq'[q].at \in {"parents", "used"} /\ hostReq'[q].alone)
    BY <1>5, <1>6
  <2> QED
    BY <2>1 DEF Host!ParentsAreUsed
<1> QED
  BY <1>10, <1>13, <1>14, <1>15, <1>16 DEF HostInv, Host!Inv

LEMMA HostSaveInv ==
  ASSUME HostInv, NEW p \in HostReq, Host!Save(p)
  PROVE  HostInv'
<1> DEFINE r == hostReq[p]
           id == IF r.id = 0 THEN lastId + 1 ELSE r.id
<1>1. r.at = "save" /\ id \in Host!Id /\ erased' = erased
  BY DEF Host!Save
<1>2. CASE hostReq' = [hostReq EXCEPT ![p] = Host!Idle] /\ UNCHANGED <<hosts, orphaned>>
           /\ (lastId' = lastId \/ lastId' = IF r.id = 0 THEN id ELSE lastId)
  <2>1. lastId' \in lastId..MaxId
    <3>1. lastId \in Nat /\ lastId \in 0..MaxId
      BY LastIdNat DEF HostInv, Host!Inv
    <3> QED
      BY <1>1, <1>2, <3>1, MaxIdNat DEF Host!Id
  <2> QED
    BY <1>1, <1>2, <2>1, HostEndsInv
<1>3. CASE /\ Host!WithDomain({r.row.domain}) \subseteq {id}
           /\ hosts' = [hosts EXCEPT ![id] = r.row]
           /\ lastId' = IF r.id = 0 THEN id ELSE lastId
           /\ hostReq' = Host!After(p, [r EXCEPT !.at = "done", !.id = id, !.old = FALSE,
                                       !.row = [Host!NoRow EXCEPT !.status = r.row.status]], FALSE)
           /\ orphaned' = IF r.old THEN orphaned \cup {id} ELSE orphaned
  BY <1>1, <1>3, HostSavedInv
<1> QED
  BY <1>2, <1>3 DEF Host!Save

\* The children go with their parent, and none of them is a parent itself.
LEMMA HostDelInv ==
  ASSUME HostInv, NEW p \in HostReq, Host!ServerHostDel(p)
  PROVE  HostInv'
<1>1. /\ Host!TypeOK /\ Host!ParentsStay /\ Host!OrphansAreStale
      /\ hosts \in [Host!Id -> Host!RowType \cup {Host!NoRow}]
  BY DEF HostInv, Host!Inv, Host!TypeOK
<1>2. PICK id \in Host!There :
        /\ hosts' = [i \in Host!Id |->
             IF i = id \/ i \in Host!ChildrenOf(id) THEN Host!NoRow ELSE hosts[i]]
        /\ erased' = erased \cup {id} /\ hostReq' = Host!After(p, Host!Idle, TRUE)
        /\ UNCHANGED <<lastId, orphaned>>
  BY DEF Host!ServerHostDel
<1>3. Host!Idle \in Host!ReqType /\ Host!Idle.at = "idle"
  BY <1>1, IdleHostReq, HostIdle
<1>4. /\ hostReq' \in [HostReq -> Host!ReqType] /\ hostReq'[p] = Host!Idle
      /\ \A q \in HostReq \ {p} :
           /\ hostReq'[q].at = hostReq[q].at /\ hostReq'[q].id = hostReq[q].id
           /\ hostReq'[q].row = hostReq[q].row
           /\ hostReq'[q].alone => hostReq[q].at \in {"idle", "page"}
           /\ hostReq'[q].old = (hostReq[q].old \/ (TRUE /\ Host!Posts(q)))
  BY <1>1, <1>2, <1>3, HostAfter
<1>5. \A i \in Host!There' : /\ i \in Host!There /\ hosts'[i] = hosts[i]
                              /\ i # id /\ hosts[i].parent # id
  BY <1>2 DEF Host!There, Host!ChildrenOf
<1>6. \A i \in Host!There : i = id \/ hosts[i].parent = id \/ i \in Host!There'
  BY <1>2 DEF Host!There, Host!ChildrenOf
<1>7. \A q \in HostReq : Host!Posts(q)' =>
        /\ q # p /\ Host!Posts(q) /\ hostReq'[q].id = hostReq[q].id
        /\ hostReq'[q].row = hostReq[q].row /\ hostReq'[q].old
  BY <1>3, <1>4 DEF Host!Posts
<1>8. Host!TypeOK'
  <2>1. id \in 1..lastId
    BY <1>1, HostRow
  <2>2. Host!RowType' = Host!RowType /\ Host!ReqType' = Host!ReqType
    BY <1>2 DEF Host!RowType, Host!ReqType
  <2>3. hosts' \in [Host!Id -> Host!RowType \cup {Host!NoRow}]
    BY <1>1, <1>2
  <2>4. \A q \in HostReq : Host!Posts(q)' =>
          /\ hostReq'[q].row \in Host!RowType
          /\ hostReq'[q].id # 0 => hostReq'[q].row.parent < hostReq'[q].id
    BY <1>1, <1>7 DEF Host!TypeOK
  <2>5. \A i \in Host!There' : i <= lastId /\ hosts'[i].parent < i
    BY <1>1, <1>5 DEF Host!TypeOK
  <2>6. \A i, j \in Host!There' : hosts'[i].domain = hosts'[j].domain => i = j
    BY <1>1, <1>5 DEF Host!TypeOK
  <2>7. /\ lastId' \in 0..MaxId /\ lastId' = lastId
        /\ erased' \subseteq 1..lastId /\ orphaned' \subseteq 1..lastId
    BY <1>1, <1>2, <2>1 DEF Host!TypeOK
  <2> QED
    BY <1>4, <2>2, <2>3, <2>4, <2>5, <2>6, <2>7 DEF Host!TypeOK
<1>9. Host!ParentsStay'
  <2>1. \A i : Host!Parents(i)' \subseteq Host!Parents(i)
    BY <1>5, <1>7, InParents
  <2> QED
    BY <1>1, <2>1, ParentsShrink
<1>10. Host!OrphansAreStale'
  <2>1. ASSUME NEW i \in Host!There', NEW x, x = hosts'[i].parent, Host!Gone(x)'
        PROVE  i \in orphaned'
    <3>1. i \in Host!There /\ x = hosts[i].parent /\ x # id
      BY <1>5, <2>1
    <3>2. x \in erased
      BY <1>2, <2>1, <3>1 DEF Host!Gone
    <3>3. x \notin Host!There
      <4> SUFFICES ASSUME x \in Host!There PROVE FALSE
        OBVIOUS
      <4>1. hosts[x].parent = id
        BY <1>6, <2>1, <3>1 DEF Host!Gone
      <4>2. /\ x \in Host!Parents(i) /\ id \in Host!Parents(x)
            /\ x # 0 /\ id # 0 /\ i \in 0..MaxId
        BY <1>1, <3>1, <4>1, InParents, HostRow, MaxIdNat DEF Host!Id
      <4> QED
        BY <1>1, <4>2 DEF Host!ParentsStay
    <3> QED
      BY <1>1, <1>2, <3>1, <3>2, <3>3 DEF Host!OrphansAreStale, Host!Gone
  <2>2. \A q \in HostReq : Host!Posts(q)' => hostReq'[q].old
    BY <1>7
  <2> QED
    BY <2>1, <2>2 DEF Host!OrphansAreStale
<1>11. Host!ChildrenFollow' /\ Host!ParentsAreUsed'
  <2>1. \A q \in HostReq : hostReq'[q].alone => hostReq'[q].at \in {"idle", "page"}
    BY <1>3, <1>4
  <2> QED
    BY <2>1 DEF Host!ChildrenFollow, Host!ParentsAreUsed
<1> QED
  BY <1>8, <1>9, <1>10, <1>11 DEF HostInv, Host!Inv

\* A domain has one row; a row never changes its parent, and no parent has one;
\* only a page older than a deletion leaves an orphan; a post or a marking that
\* nobody else's write came between has set what it says.
THEOREM HostTableIsKept == Host!Spec => []HostInv
<1>1. Host!Init => HostInv
  <2> SUFFICES ASSUME Host!Init PROVE HostInv
    OBVIOUS
  <2>1. /\ lastId = 0 /\ lastId \in 0..MaxId
        /\ hosts = [i \in Host!Id |-> Host!NoRow]
        /\ hostReq = [p \in HostReq |-> Host!Idle] /\ erased = {} /\ orphaned = {}
    BY MaxIdNat DEF Host!Init
  <2>2. Host!There = {} /\ \A p \in HostReq : hostReq[p].at = "idle" /\ ~Host!Posts(p)
    BY <2>1, HostIdle DEF Host!There, Host!Posts
  <2>3. Host!Idle \in Host!ReqType
    <3>1. 0 \in 0..lastId
      BY <2>1
    <3> QED
      BY <3>1 DEF Host!Idle, Host!ReqType, Host!NoRow
  <2>4. Host!TypeOK
    BY <2>1, <2>2, <2>3 DEF Host!TypeOK
  <2>5. \A i : Host!Parents(i) = {}
    BY <2>2 DEF Host!Parents
  <2> QED
    BY <2>1, <2>2, <2>4, <2>5 DEF HostInv, Host!Inv, Host!ParentsStay, Host!OrphansAreStale,
       Host!ChildrenFollow, Host!ParentsAreUsed
<1>2. HostInv /\ [Host!Next]_(Host!vars) => HostInv'
  <2> SUFFICES ASSUME HostInv, [Host!Next]_(Host!vars) PROVE HostInv'
    OBVIOUS
  <2>1. CASE UNCHANGED Host!vars
    <3>1. UNCHANGED <<hosts, lastId, hostReq, erased, orphaned>>
      BY <2>1 DEF Host!vars
    <3>2. /\ Host!There' = Host!There
          /\ \A id : Host!ChildrenOf(id)' = Host!ChildrenOf(id)
          /\ \A ds : Host!WithDomain(ds)' = Host!WithDomain(ds)
          /\ \A id : Host!Gone(id)' = Host!Gone(id)
          /\ \A p \in HostReq : Host!Posts(p)' = Host!Posts(p)
      BY <3>1 DEF Host!There, Host!ChildrenOf, Host!WithDomain, Host!Gone, Host!Posts
    <3>3. Host!TypeOK'
      BY <3>1, <3>2 DEF HostInv, Host!Inv, Host!TypeOK, Host!RowType, Host!ReqType
    <3>4. Host!ParentsStay'
      <4>1. \A i : Host!Parents(i)' \subseteq Host!Parents(i)
        BY <3>1, <3>2 DEF Host!Parents
      <4> QED
        BY <4>1, ParentsShrink DEF HostInv, Host!Inv
    <3>5. Host!OrphansAreStale'
      BY <3>1, <3>2 DEF HostInv, Host!Inv, Host!OrphansAreStale
    <3>6. Host!ChildrenFollow' /\ Host!ParentsAreUsed'
      BY <3>1, <3>2 DEF HostInv, Host!Inv, Host!ChildrenFollow, Host!ParentsAreUsed
    <3> QED
      BY <3>3, <3>4, <3>5, <3>6 DEF HostInv, Host!Inv
  <2>2. ASSUME NEW p \in HostReq, Host!Answered(p)
        PROVE  HostInv'
    <3>1. lastId' \in lastId..MaxId
      BY <2>2, LastIdNat, MaxIdNat DEF HostInv, Host!Inv, Host!Answered
    <3> QED
      BY <2>2, <3>1, HostEndsInv DEF Host!Answered
  <2> QED
    BY <2>1, <2>2, HostPageInv, HostChildrenInv, HostSaveInv, HostUsedInv, HostDelInv
       DEF Host!Next
<1> QED
  BY <1>1, <1>2, PTL DEF Host!Spec

\* A row's status is written by posts that own it: of the row, of its parent,
\* and, for a row without a parent, of new rows.
THEOREM StatusIsOwned == Host!Spec => StatusIsOwn
<1> DEFINE Own == \A i \in Host!There : hosts'[i] # Host!NoRow /\ hosts'[i].status # hosts[i].status =>
                    \E p \in HostReq : \/ hostReq[p].at = "save" /\ hostReq[p].id = i
                                       \/ hostReq[p].at = "page" /\ hostReq[p].id = hosts[i].parent
<1>1. HostInv /\ [Host!Next]_(Host!vars) => [Own]_(Host!vars)
  <2> SUFFICES ASSUME HostInv, Host!Next, NEW i \in Host!There,
                      hosts'[i] # Host!NoRow, hosts'[i].status # hosts[i].status
               PROVE  \E p \in HostReq : \/ hostReq[p].at = "save" /\ hostReq[p].id = i
                                         \/ hostReq[p].at = "page" /\ hostReq[p].id = hosts[i].parent
    OBVIOUS
  <2>1. /\ Host!TypeOK /\ i \in Host!Id /\ hosts[i] \in Host!RowType /\ i \in 1..lastId
        /\ lastId \in Nat
    BY HostRow DEF HostInv, Host!Inv
  <2>2. PICK p \in HostReq : \/ Host!Page(p) \/ Host!StatusOfChildren(p) \/ Host!Save(p)
                             \/ Host!PutServerHostByDomain(p) \/ Host!ServerHostDel(p)
                             \/ Host!Answered(p)
    BY DEF Host!Next
  <2>3. CASE Host!Page(p) \/ Host!Answered(p)
    BY <2>3 DEF Host!Page, Host!Answered
  <2>4. CASE Host!StatusOfChildren(p)
    <3>1. i \in Host!ChildrenOf(hostReq[p].id)
      BY <2>1, <2>4 DEF Host!StatusOfChildren, Host!SetStatus
    <3> QED
      BY <2>4, <3>1 DEF Host!StatusOfChildren, Host!ChildrenOf
  <2>5. CASE Host!Save(p)
    <3>1. i = IF hostReq[p].id = 0 THEN lastId + 1 ELSE hostReq[p].id
      BY <2>1, <2>5 DEF Host!Save, Host!TypeOK
    <3>2. hostReq[p].id # 0
      BY <2>1, <3>1
    <3> QED
      BY <2>5, <3>1, <3>2 DEF Host!Save
  <2>6. CASE Host!PutServerHostByDomain(p)
    <3>1. hosts'[i] = hosts[i] \/ hosts'[i] = [hosts[i] EXCEPT !.use = 1]
      BY <2>1, <2>6 DEF Host!PutServerHostByDomain, Host!Used
    <3> QED
      BY <2>1, <3>1 DEF Host!RowType
  <2>7. CASE Host!ServerHostDel(p)
    BY <2>1, <2>7 DEF Host!ServerHostDel
  <2> QED
    BY <2>2, <2>3, <2>4, <2>5, <2>6, <2>7
<1> QED
  BY <1>1, HostTableIsKept, PTL DEF Host!Spec, StatusIsOwn, Host!StatusIsOwn
==============================================================================
