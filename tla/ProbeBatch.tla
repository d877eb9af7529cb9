------------------------------ MODULE ProbeBatch ------------------------------
(***************************************************************************)
(* What a caller of probeAll (services/probe.go) is promised, whatever the *)
(* worker goroutines do: every item is probed exactly once, at most Limit  *)
(* probes are active at a time, and the call returns only when the answer  *)
(* of every item stands at the item's own index.  NodeNelNet, YCIpBC and   *)
(* ApiNelNet are written against this promise.                             *)
(***************************************************************************)
EXTENDS Naturals, FiniteSets

CONSTANTS
  NItems,      \* number of items handed to the call
  Limit,       \* utils.ProbeWorkers(), the bound on active probes
  Answer(_),   \* the answers probe may give for an item
  NoAnswer     \* the zero value a result slot holds before it is written

VARIABLES
  active,      \* the items being probed
  answers,     \* the slice the caller will be given
  returned     \* the call has returned

vars == <<active, answers, returned>>

Item == 1 .. NItems

Init ==
  /\ active = {}
  /\ answers = [i \in Item |-> NoAnswer]
  /\ returned = (NItems = 0)

Start(i) ==
  /\ ~returned
  /\ i \notin active /\ answers[i] = NoAnswer
  /\ Cardinality(active) < Limit
  /\ active' = active \cup {i}
  /\ UNCHANGED <<answers, returned>>

Finish(i) ==
  /\ ~returned
  /\ i \in active
  /\ active' = active \ {i}
  /\ \E a \in Answer(i) : answers' = [answers EXCEPT ![i] = a]
  /\ UNCHANGED returned

Return ==
  /\ ~returned
  /\ active = {}
  /\ \A i \in Item : answers[i] \in Answer(i)
  /\ returned' = TRUE
  /\ UNCHANGED <<active, answers>>

Next ==
  \/ \E i \in Item : Start(i) \/ Finish(i)
  \/ Return

Spec == Init /\ [][Next]_vars
===============================================================================
