------------------------------- MODULE HostTable -------------------------------
(***************************************************************************)
(* The table server_hosts: domains, each of one supplier, a child served   *)
(* for its parent.  A page shows rows, and posts one back whole, changed   *)
(* or new, whatever has happened to the row since.  PostServerHost sets    *)
(* the status of the children and then saves the row, two statements with  *)
(* no transaction; the children of a new row, which has no id yet, are     *)
(* those of parent 0, that is every row without a parent.                  *)
(* PutServerHostByDomain marks the domains as used and then their parents. *)
(***************************************************************************)
EXTENDS Naturals

CONSTANTS
  Domain,  \* the column is unique
  Req,     \* requests
  MaxId    \* bound: rows ever made

HostAssumption == MaxId \in Nat /\ "" \notin Domain

Id == 1..MaxId
NoRow == [domain |-> "", parent |-> 0, status |-> 0, use |-> 0]

VARIABLES
  hosts,   \* id |-> row
  lastId,  \* of the sequence
  req,     \* the requests
  erased,  \* ids that ServerHostDel was asked to delete
  orphaned \* rows saved from a page that was older than a deletion

vars == <<hosts, lastId, req, erased, orphaned>>

Idle == [at |-> "idle", id |-> 0, row |-> NoRow, alone |-> TRUE, old |-> FALSE]

Init ==
  /\ hosts = [i \in Id |-> NoRow]
  /\ lastId = 0
  /\ req = [p \in Req |-> Idle]
  /\ erased = {}
  /\ orphaned = {}
------------------------------------------------------------------------------
There == {i \in Id : hosts[i] # NoRow}
ChildrenOf(id) == {i \in There : hosts[i].parent = id}
WithDomain(ds) == {i \in There : hosts[i].domain \in ds}

\* Every other request that has begun to write learns that something was
\* written, and those with a page that something was deleted.
After(p, step, deleted) ==
  [q \in Req |-> IF q = p THEN step
                 ELSE IF req[q] = Idle THEN Idle
                 ELSE [req[q] EXCEPT !.alone = req[q].at = "page",
                                     !.old = @ \/ (deleted /\ req[q].at \in {"page", "save"})]]

\* A page: a row to change, or a new one, of a host without a parent or not.
Page(p) ==
  /\ req[p] = Idle
  /\ \/ \E i \in There, st \in {0, 1} :
          req' = [req EXCEPT ![p] = [Idle EXCEPT !.at = "page", !.id = i,
                                                 !.row = [hosts[i] EXCEPT !.status = st]]]
     \/ \E d \in Domain, st \in {0, 1}, t \in {0} \cup {i \in There : hosts[i].parent = 0} :
          req' = [req EXCEPT ![p] = [Idle EXCEPT !.at = "page",
                    !.row = [domain |-> d, parent |-> t, status |-> st, use |-> 0]]]
  /\ UNCHANGED <<hosts, lastId, erased, orphaned>>

SetStatus(ids, st) == hosts' = [i \in Id |-> IF i \in ids THEN [hosts[i] EXCEPT !.status = st]
                                                          ELSE hosts[i]]

StatusOfAll(p) ==
  /\ req[p].at = "page"
  /\ SetStatus(There, req[p].row.status)
  /\ req' = After(p, [req[p] EXCEPT !.at = "save", !.alone = TRUE], FALSE)
  /\ UNCHANGED <<lastId, erased, orphaned>>

\* PostServerHost, first statement: an error ends it.
StatusOfChildren(p) ==
  /\ req[p].at = "page"
  /\ \/ /\ SetStatus(ChildrenOf(req[p].id), req[p].row.status)
        /\ req' = After(p, [req[p] EXCEPT !.at = "save", !.alone = TRUE], FALSE)
     \/ UNCHANGED hosts /\ req' = [req EXCEPT ![p] = Idle]
  /\ UNCHANGED <<lastId, erased, orphaned>>

\* Save: an update of the whole row, an insert when there is none.
Save(p) ==
  LET r == req[p]  id == IF r.id = 0 THEN lastId + 1 ELSE r.id IN
  /\ r.at = "save" /\ id \in Id
  /\ IF WithDomain({r.row.domain}) \subseteq {id}
     THEN \/ /\ hosts' = [hosts EXCEPT ![id] = r.row]
             /\ lastId' = IF r.id = 0 THEN id ELSE lastId
             /\ req' = After(p, [r EXCEPT !.at = "done", !.id = id, !.old = FALSE,
                                           !.row = [NoRow EXCEPT !.status = r.row.status]], FALSE)
             /\ orphaned' = IF r.old THEN orphaned \cup {id} ELSE orphaned
          \/ UNCHANGED <<hosts, lastId, orphaned>> /\ req' = [req EXCEPT ![p] = Idle]
     ELSE /\ lastId' = IF r.id = 0 THEN id ELSE lastId
          /\ req' = [req EXCEPT ![p] = Idle]
          /\ UNCHANGED <<hosts, orphaned>>
  /\ UNCHANGED erased

Used(ids) == hosts' = [i \in Id |-> IF i \in ids THEN [hosts[i] EXCEPT !.use = 1] ELSE hosts[i]]

\* PutServerHostByDomain, of one domain: its row, and then the row of its parent.
PutServerHostByDomain(p) ==
  \/ /\ req[p] = Idle
     /\ \E d \in Domain :
          /\ Used(WithDomain({d}))
          /\ req' = After(p, [Idle EXCEPT !.at = "parents", !.row.domain = d], FALSE)
     /\ UNCHANGED <<lastId, erased, orphaned>>
  \/ /\ req[p].at = "parents"
     /\ \/ /\ Used({hosts[i].parent : i \in WithDomain({req[p].row.domain})} \cap There)
           /\ req' = After(p, [req[p] EXCEPT !.at = "used"], FALSE)
        \/ UNCHANGED hosts /\ req' = [req EXCEPT ![p] = Idle]
     /\ UNCHANGED <<lastId, erased, orphaned>>

ServerHostDelRow(p) ==
  \E id \in There :
    /\ req[p] = Idle
    /\ hosts' = [hosts EXCEPT ![id] = NoRow]
    /\ erased' = erased \cup {id}
    /\ req' = After(p, Idle, TRUE)
    /\ UNCHANGED <<lastId, orphaned>>

ServerHostDel(p) ==
  \E id \in There :
    /\ req[p] = Idle
    /\ hosts' = [i \in Id |-> IF i = id \/ i \in ChildrenOf(id) THEN NoRow ELSE hosts[i]]
    /\ erased' = erased \cup {id}
    /\ req' = After(p, Idle, TRUE)
    /\ UNCHANGED <<lastId, orphaned>>

Answered(p) ==
  /\ req[p].at \in {"done", "used"}
  /\ req' = [req EXCEPT ![p] = Idle]
  /\ UNCHANGED <<hosts, lastId, erased, orphaned>>

Next == \E p \in Req : \/ Page(p) \/ StatusOfChildren(p) \/ Save(p)
                       \/ PutServerHostByDomain(p) \/ ServerHostDel(p) \/ Answered(p)

Spec == Init /\ [][Next]_vars
------------------------------------------------------------------------------
(***************************************************************************)
(* Properties.                                                             *)
(***************************************************************************)

RowType == [domain : Domain, parent : 0..lastId, status : {0, 1}, use : {0, 1}]
ReqType == [at : {"idle", "page", "save", "done", "parents", "used"}, id : 0..lastId,
            row : RowType \cup [domain : Domain \cup {""}, parent : {0}, status : {0, 1}, use : {0}],
            alone : BOOLEAN, old : BOOLEAN]

\* p has a row to save.
Posts(p) == req[p].at \in {"page", "save"}

\* The types; a domain has one row, and the sequence is ahead of every row.
TypeOK ==
  /\ lastId \in 0..MaxId /\ erased \subseteq 1..lastId /\ orphaned \subseteq 1..lastId
  /\ hosts \in [Id -> RowType \cup {NoRow}] /\ req \in [Req -> ReqType]
  /\ \A i \in There : i <= lastId /\ hosts[i].parent < i
  /\ \A i, j \in There : hosts[i].domain = hosts[j].domain => i = j
  /\ \A p \in Req : Posts(p) =>
       /\ req[p].row \in RowType
       /\ req[p].id # 0 => req[p].row.parent < req[p].id

\* The parents of the row i, in the table and in pages; of new rows for i = 0.
Parents(i) == {hosts[j].parent : j \in There \cap {i}}
                \cup {req[p].row.parent : p \in {q \in Req : Posts(q) /\ req[q].id = i}}

\* A row never changes its parent, and a parent has none.
ParentsStay ==
  /\ \A i \in Id : \A t, u \in Parents(i) : t = u
  /\ \A i \in 0..MaxId : \A t \in Parents(i) \ {0} : Parents(t) \subseteq {0}

Gone(id) == id \in erased /\ id \notin There

\* A child outlives its parent only when it was saved from a page older than
\* a deletion; a page that is not has the row of no other orphan.
OrphansAreStale ==
  /\ \A i \in There : Gone(hosts[i].parent) => i \in orphaned
  /\ \A p \in Req : Posts(p) /\ ~req[p].old /\ Gone(req[p].row.parent) => req[p].id \in orphaned

\* A post with no other write during it leaves the children of its host in
\* the status it asked for, from its first statement on.
ChildrenFollow ==
  \A p \in Req : req[p].at \in {"save", "done"} /\ req[p].alone =>
    \A c \in ChildrenOf(req[p].id) : hosts[c].status = req[p].row.status

\* Marking a domain with no other write during it marks its parent too.
ParentsAreUsed ==
  \A p \in Req : req[p].at \in {"parents", "used"} /\ req[p].alone =>
    \A i \in WithDomain({req[p].row.domain}) :
      /\ hosts[i].use = 1
      /\ req[p].at = "used" /\ hosts[i].parent \in There => hosts[hosts[i].parent].use = 1

\* What every moment's table is.
Inv == TypeOK /\ ParentsStay /\ OrphansAreStale /\ ChildrenFollow /\ ParentsAreUsed

\* A row's status changes by posts of the row or of its parent alone; only
\* that of a row without a parent changes by posts of new rows too.
StatusIsOwn ==
  [][\A i \in There : hosts'[i] # NoRow /\ hosts'[i].status # hosts[i].status =>
       \E p \in Req : \/ req[p].at = "save" /\ req[p].id = i
                      \/ req[p].at = "page" /\ req[p].id = hosts[i].parent]_vars
==============================================================================
