----------------------------- MODULE ServerRegistry -----------------------------
(***************************************************************************)
(* The table servers.  An app reports all its nodes at once: CreateServers *)
(* takes the time, writes the rows under numbers made of the app's name    *)
(* and the node's id, and deletes the app's rows that are older than the   *)
(* time it took.  The writing is a transaction, each DELETE is one, the    *)
(* whole is not: reports of one app overlap.  TaskHour and TaskDay delete  *)
(* what nobody has reported for ten minutes, or for an hour.               *)
(*                                                                         *)
(* Letters and digits are numbers below Base; a number of the code has 64  *)
(* bits and the column 63, here Word and half of it.                       *)
(***************************************************************************)
EXTENDS Naturals, SequencesExt

CONSTANTS
  App,        \* the names that report
  Spelled,    \* [App -> their letters, as numbers below Base]
  Node,       \* node ids, as their decimal digits
  Rep,        \* requests
  Base, Word,
  Minutes10, Minutes60,  \* the ages TaskHour and TaskDay delete at, in ticks
  MaxClock               \* bound: ticks

ASSUME RegistryAssumption ==
  /\ Base \in Nat \ {0} /\ Word \in Nat \ {0}
  /\ Spelled \in [App -> Seq(0..(Base - 1))] /\ Node \subseteq Seq(0..(Base - 1))
  /\ Minutes10 \in Nat /\ Minutes60 \in Nat /\ MaxClock \in Nat

VARIABLES
  rows,    \* the table: number |-> row
  clock,
  rep,     \* the requests of CreateServers
  latest,  \* per app, the report with the latest time that was written
  swept    \* the latest time a task has deleted up to

vars == <<rows, clock, rep, latest, swept>>
------------------------------------------------------------------------------
ParseBase36Fast2(s) == FoldLeft(LAMBDA n, d : (n * Base + d) % Word, 0, s)

NumberOf(app, node) == ParseBase36Fast2(Spelled[app] \o node)

Numbers == {NumberOf(a, n) : a \in App, n \in Node}

NoRow == [app |-> "", node |-> <<>>, at |-> 0]
Written == {i \in Numbers : rows[i] # NoRow}
Of(app) == {i \in Written : rows[i].app = app}

Idle == [at |-> "idle", app |-> "", nodes |-> {}, now |-> 0, alone |-> TRUE]

Init ==
  /\ rows = [i \in Numbers |-> NoRow]
  /\ clock = 0
  /\ rep = [p \in Rep |-> Idle]
  /\ latest = [a \in App |-> [now |-> 0, nodes |-> {}]]
  /\ swept = 0
------------------------------------------------------------------------------
Underway(app) == {p \in Rep : rep[p].at # "idle" /\ rep[p].app = app}

\* The time is taken; whether the report has the app to itself is noted.
CreateServers(p, app, nodes) ==
  /\ rep[p] = Idle /\ clock < MaxClock
  /\ clock' = clock + 1
  /\ LET others == Underway(app) IN
     rep' = [q \in Rep |->
       IF q = p THEN [at |-> "upsert", app |-> app, nodes |-> nodes,
                      now |-> clock', alone |-> others = {}]
       ELSE IF q \in others THEN [rep[q] EXCEPT !.alone = FALSE] ELSE rep[q]]
  /\ UNCHANGED <<rows, latest, swept>>

\* The database takes a number once in a statement and has no room for those
\* over half of Word; an empty list is an error of the library.
Accepted(app, nodes) ==
  /\ nodes # {}
  /\ \A n \in nodes : NumberOf(app, n) < Word \div 2
  /\ \A m, n \in nodes : NumberOf(app, m) = NumberOf(app, n) => m = n

\* All rows in one transaction: a new row has the time of the report, a row
\* that was there the time of the statement.
Upsert(p) ==
  LET a == rep[p].app  ns == rep[p].nodes IN
  /\ rep[p].at = "upsert"
  /\ \/ /\ Accepted(a, ns)
        /\ rows' = [i \in Numbers |->
             IF \E n \in ns : NumberOf(a, n) = i
             THEN [app |-> a, node |-> CHOOSE n \in ns : NumberOf(a, n) = i,
                   at |-> IF rows[i] = NoRow THEN rep[p].now ELSE clock]
             ELSE rows[i]]
        /\ rep' = [rep EXCEPT ![p].at = "delete"]
        /\ latest' = IF rep[p].now > latest[a].now
                     THEN [latest EXCEPT ![a] = [now |-> rep[p].now, nodes |-> ns]]
                     ELSE latest
     \/ rep' = [rep EXCEPT ![p] = Idle] /\ UNCHANGED <<rows, latest>>
  /\ UNCHANGED <<clock, swept>>

Without(ids) == [i \in Numbers |-> IF i \in ids THEN NoRow ELSE rows[i]]

Older(t) == {i \in Written : rows[i].at < t}

ServerDeletesAll(p) ==
  /\ rep[p].at = "delete"
  /\ \/ /\ Older(rep[p].now) # {}
        /\ rows' = Without(Older(rep[p].now)) /\ UNCHANGED rep
     \/ /\ Older(rep[p].now) = {}
        /\ rep' = [rep EXCEPT ![p].at = "done"] /\ UNCHANGED rows
     \/ rep' = [rep EXCEPT ![p] = Idle] /\ UNCHANGED rows
  /\ UNCHANGED <<clock, latest, swept>>

\* ServerDeletes: DELETE until it finds nothing; an error ends it.
ServerDeletes(p) ==
  LET old == Older(rep[p].now) \cap Of(rep[p].app) IN
  /\ rep[p].at = "delete"
  /\ \/ old # {} /\ rows' = Without(old) /\ UNCHANGED rep
     \/ old = {} /\ rep' = [rep EXCEPT ![p].at = "done"] /\ UNCHANGED rows
     \/ rep' = [rep EXCEPT ![p] = Idle] /\ UNCHANGED rows
  /\ UNCHANGED <<clock, latest, swept>>

Answered(p) ==
  /\ rep[p].at = "done"
  /\ rep' = [rep EXCEPT ![p] = Idle]
  /\ UNCHANGED <<rows, clock, latest, swept>>

\* TaskHour: ServerDeletes for every app.  TaskDay: ServerDel.
Sweep(age) ==
  /\ clock > age
  /\ rows' = Without(Older(clock - age))
  /\ swept' = IF clock - age > swept THEN clock - age ELSE swept
  /\ UNCHANGED <<clock, rep, latest>>

TaskHour == Sweep(Minutes10)
TaskDay == Sweep(Minutes60)

Tick == clock < MaxClock /\ clock' = clock + 1 /\ UNCHANGED <<rows, rep, latest, swept>>

Next ==
  \/ \E p \in Rep :
       \/ \E a \in App, ns \in SUBSET Node : CreateServers(p, a, ns)
       \/ Upsert(p) \/ ServerDeletes(p) \/ Answered(p)
  \/ TaskHour \/ TaskDay \/ Tick

Spec == Init /\ [][Next]_vars
------------------------------------------------------------------------------
(***************************************************************************)
(* Properties.                                                             *)
(***************************************************************************)

RowType == [app : App, node : Node, at : 1..clock]
RepType == [at : {"upsert", "delete", "done"}, app : App, nodes : SUBSET Node,
            now : 1..clock, alone : BOOLEAN]

\* The types; a row lies under its number, one the column has room for, and
\* no row is from the future.
TypeOK ==
  /\ clock \in Nat /\ swept \in 0..clock
  /\ rows \in [Numbers -> RowType \cup {NoRow}] /\ rep \in [Rep -> RepType \cup {Idle}]
  /\ latest \in [App -> [now : 0..clock, nodes : SUBSET Node]]
  /\ \A i \in Written : NumberOf(rows[i].app, rows[i].node) = i /\ i < Word \div 2

\* A report under way overlaps with another of its app unless it is alone; one
\* that was written is not later than the latest.
OverlapIsNoted ==
  \A p \in Rep : rep[p].at # "idle" =>
    /\ rep[p].alone => Underway(rep[p].app) = {p}
    /\ rep[p].at \in {"delete", "done"} => rep[p].now <= latest[rep[p].app].now

\* Another app's name and node make the same number.
Clash(app, node) ==
  \E a \in App \ {app}, n \in Node : NumberOf(a, n) = NumberOf(app, node)

\* Of the reports of an app, the latest that was written has all its nodes in
\* the table, whatever earlier and later ones still do, until it is too old:
\* no row is taken by another app, unless the two make the same number, nor
\* deleted by an earlier report or another app's.  They are as new as it.
LatestIsListed ==
  \A a \in App : latest[a].now >= swept =>
    \A n \in latest[a].nodes :
      \/ Clash(a, n)
      \/ NumberOf(a, n) \in Of(a) /\ rows[NumberOf(a, n)].at >= latest[a].now

\* A report of an app that overlapped with no other leaves only its own nodes
\* when it ends, whatever overlapping reports have left before it: the others
\* are older than it, and it deletes those.
NoLeftovers ==
  \A p \in Rep : rep[p].at # "idle" /\ rep[p].alone =>
    \A i \in Of(rep[p].app) :
      \/ rep[p].at \in {"delete", "done"} /\ rows[i].node \in rep[p].nodes
      \/ rep[p].at \in {"upsert", "delete"} /\ rows[i].at < rep[p].now

\* What every moment's table is.
RegistryInv == TypeOK /\ OverlapIsNoted /\ LatestIsListed /\ NoLeftovers
==============================================================================
