------------------------------ MODULE ProbePool ------------------------------
(***************************************************************************)
(* probeAll of services/probe.go: one call, its worker goroutines, the     *)
(* unbuffered channel of indices between them and the WaitGroup.           *)
(***************************************************************************)
EXTENDS Naturals, FiniteSets

CONSTANTS
  NItems,       \* len(items)
  ProbeLimit,   \* utils.ProbeWorkers() = max(4, GOMAXPROCS)
  Outcome,      \* what a probe may find out about an item
  NoAnswer      \* the zero value of the result type

ASSUME PoolAssumption ==
  /\ NItems \in Nat
  /\ ProbeLimit \in Nat \ {0}

Item == 1 .. NItems

\* min(utils.ProbeWorkers(), len(items)).
WorkerPerItem == NItems

Workers == IF ProbeLimit < NItems THEN ProbeLimit ELSE NItems

Worker == 1 .. Workers

\* probe(items[i]): the answer carries the item, so that an answer stored at
\* another item's index is told apart from the right one.
Answer(i) == {i} \X Outcome

ASSUME AnswerAssumption ==
  /\ Outcome # {}
  /\ \A i \in Item : NoAnswer \notin Answer(i)

VARIABLES
  caller,    \* "spawn", "feed", "wait" or "returned": where probeAll stands
  spawned,   \* goroutines handed to wg.Go
  next,      \* the loop variable of the feeding loop
  closed,    \* close(jobs) has run
  worker,    \* worker[w]: "unborn", "receive", "probe" or "exited"
  job,       \* job[w]: the index worker w took from the channel
  results    \* the slice returned to the caller

vars == <<caller, spawned, next, closed, worker, job, results>>

Init ==
  /\ caller = IF Workers = 0 THEN "returned" ELSE "spawn"
  /\ spawned = 0
  /\ next = 1
  /\ closed = FALSE
  /\ worker = [w \in Worker |-> "unborn"]
  /\ job = [w \in Worker |-> 0]
  /\ results = [i \in Item |-> NoAnswer]

\* for range workers { wg.Go(...) }
SpawnWorker ==
  /\ caller = "spawn"
  /\ spawned' = spawned + 1
  /\ worker' = [worker EXCEPT ![spawned'] = "receive"]
  /\ caller' = IF spawned' = Workers THEN "feed" ELSE "spawn"
  /\ UNCHANGED <<next, closed, job, results>>

\* jobs <- i: the channel has no buffer, the send is the worker's receive.
Feed(w) ==
  /\ caller = "feed" /\ next <= NItems
  /\ worker[w] = "receive"
  /\ job' = [job EXCEPT ![w] = next]
  /\ worker' = [worker EXCEPT ![w] = "probe"]
  /\ next' = next + 1
  /\ UNCHANGED <<caller, spawned, closed, results>>

\* The feeding loop ends and close(jobs) runs.
CloseForgotten ==
  /\ caller = "feed" /\ next > NItems
  /\ caller' = "wait"
  /\ UNCHANGED <<spawned, next, closed, worker, job, results>>

CloseJobs ==
  /\ caller = "feed" /\ next > NItems
  /\ closed' = TRUE
  /\ caller' = "wait"
  /\ UNCHANGED <<spawned, next, worker, job, results>>

\* results[i] = probe(items[i]); a failing probe returns like any other.
ProbeSharedIndex(w) ==
  /\ worker[w] = "probe"
  /\ \E a \in Answer(job[w]) : results' = [results EXCEPT ![next - 1] = a]
  /\ worker' = [worker EXCEPT ![w] = "receive"]
  /\ job' = [job EXCEPT ![w] = 0]
  /\ UNCHANGED <<caller, spawned, next, closed>>

Probe(w) ==
  /\ worker[w] = "probe"
  /\ \E a \in Answer(job[w]) : results' = [results EXCEPT ![job[w]] = a]
  /\ worker' = [worker EXCEPT ![w] = "receive"]
  /\ job' = [job EXCEPT ![w] = 0]
  /\ UNCHANGED <<caller, spawned, next, closed>>

\* for i := range jobs ends: the channel is closed and holds nothing.
WorkerExit(w) ==
  /\ worker[w] = "receive" /\ closed
  /\ worker' = [worker EXCEPT ![w] = "exited"]
  /\ UNCHANGED <<caller, spawned, next, closed, job, results>>

\* wg.Wait() returns once every goroutine handed to wg.Go has exited.
Return ==
  /\ caller = "wait"
  /\ \A w \in Worker : worker[w] = "exited"
  /\ caller' = "returned"
  /\ UNCHANGED <<spawned, next, closed, worker, job, results>>

CallerStep == SpawnWorker \/ (\E w \in Worker : Feed(w)) \/ CloseJobs \/ Return

WorkerStep(w) == Probe(w) \/ WorkerExit(w)

Next == CallerStep \/ \E w \in Worker : WorkerStep(w)

Spec == Init /\ [][Next]_vars

\* Every goroutine keeps being scheduled, and every probe ends: the HTTP and
\* TCP probes of utils carry timeouts.
FairSpec ==
  /\ Spec
  /\ WF_vars(CallerStep)
  /\ \A w \in Worker : WF_vars(WorkerStep(w))
------------------------------------------------------------------------------
(***************************************************************************)
(* Properties.                                                             *)
(***************************************************************************)
Probing == {w \in Worker : worker[w] = "probe"}

\* The types of the call's variables.
TypeOK ==
  /\ caller \in {"spawn", "feed", "wait", "returned"}
  /\ spawned \in 0 .. Workers
  /\ next \in 1 .. NItems + 1
  /\ closed \in BOOLEAN
  /\ worker \in [Worker -> {"unborn", "receive", "probe", "exited"}]
  /\ job \in [Worker -> 0 .. NItems]
  /\ \A w \in Probing : job[w] \in Item
  /\ results \in [Item -> (Item \X Outcome) \cup {NoAnswer}]

\* Every index is in exactly one place: still with the feeding loop, with one
\* worker, or answered.  Two workers never share an index and none is skipped,
\* however the receives interleave (services/probe.go:19-27).
EachIndexOnce ==
  /\ \A v, w \in Probing : job[v] = job[w] => v = w
  /\ \A i \in Item :
       IF i >= next
       THEN results[i] = NoAnswer /\ ~\E w \in Probing : job[w] = i
       ELSE (results[i] = NoAnswer) <=> (\E w \in Probing : job[w] = i)

\* probeAll leaves nothing behind: when it returns, each goroutine has exited
\* and the answer of every item stands at that item's index
\* (services/probe.go:28-30, and the claim of services/probe_test.go:52-60).
CompleteOnReturn ==
  caller = "returned" =>
    /\ \A w \in Worker : worker[w] = "exited"
    /\ \A i \in Item : results[i] \in Answer(i)

\* How the phases of the caller constrain its goroutines: the part of the
\* inductive invariant that the properties above do not say.
Phases ==
  /\ caller = "spawn" =>
       /\ next = 1 /\ ~closed /\ spawned < Workers
       /\ \A w \in Worker :
            worker[w] = IF w <= spawned THEN "receive" ELSE "unborn"
  /\ caller # "spawn" => \A w \in Worker : worker[w] # "unborn"
  /\ closed => next = NItems + 1
  /\ caller = "wait" => closed
  /\ \A w \in Worker : worker[w] = "exited" => closed
  /\ caller = "returned" => \A w \in Worker : worker[w] = "exited"
  /\ \A i \in Item : results[i] \in Answer(i) \cup {NoAnswer}

\* No index is lost or with two workers (EachIndexOnce), and a call that has
\* returned has every answer at its place; inductive.
IInv == TypeOK /\ EachIndexOnce /\ Phases

\* The call implements the promise its callers rely on.
Batch == INSTANCE ProbeBatch
           WITH Limit <- ProbeLimit,
                active <- {job[w] : w \in Probing},
                answers <- results,
                returned <- (caller = "returned")
BatchSpec == Batch!Spec

\* A batch always ends, "so that no lost result makes the wait hang"
\* (README.md:10, services/probe_test.go:47).
AlwaysReturns == <>(caller = "returned")
==============================================================================
