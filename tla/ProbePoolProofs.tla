--------------------------- MODULE ProbePoolProofs ---------------------------
(***************************************************************************)
(* Theorems about probeAll for every number of items and every bound on    *)
(* the workers.                                                            *)
(***************************************************************************)
EXTENDS ProbePool, FiniteSetTheorems, FunctionTheorems, TLAPS

LEMMA WorkersNat == Workers \in Nat
  BY PoolAssumption DEF Workers

\* The number of workers is positive as soon as there is an item.
LEMMA SomeWorker == NItems # 0 => 1 \in Worker
  BY PoolAssumption, WorkersNat DEF Worker, Workers

LEMMA InitInv == Init => IInv
<1> SUFFICES ASSUME Init PROVE IInv
  OBVIOUS
<1> USE PoolAssumption, AnswerAssumption, WorkersNat
<1>1. TypeOK
  <2>1. Probing = {}
    BY DEF Init, Probing
  <2>2. 0 \in 0 .. Workers /\ 0 \in 0 .. NItems /\ 1 \in 1 .. NItems + 1
    OBVIOUS
  <2> QED
    BY <2>1, <2>2 DEF Init, TypeOK
<1>2. EachIndexOnce
  BY DEF Init, EachIndexOnce, Probing, Item
<1>3. Phases
  BY DEF Init, Phases, Worker, Item
<1> QED
  BY <1>1, <1>2, <1>3 DEF IInv

LEMMA SpawnInv == IInv /\ SpawnWorker => IInv'
<1> SUFFICES ASSUME IInv, SpawnWorker PROVE IInv'
  OBVIOUS
<1> USE PoolAssumption, WorkersNat DEF IInv, TypeOK, Phases
<1>1. spawned + 1 \in Worker
  BY DEF SpawnWorker, Worker
<1>2. \A w \in Worker : worker'[w] = IF w = spawned + 1 THEN "receive" ELSE worker[w]
  BY <1>1 DEF SpawnWorker
<1>3. Probing = {} /\ Probing' = {}
  BY <1>2 DEF SpawnWorker, Probing
<1>4. TypeOK'
  BY <1>1, <1>3 DEF SpawnWorker
<1>5. EachIndexOnce'
  BY <1>3 DEF SpawnWorker, EachIndexOnce, Item
<1>6. Phases'
  BY <1>1, <1>2 DEF SpawnWorker, Worker
<1> QED
  BY <1>4, <1>5, <1>6

LEMMA FeedInv == ASSUME NEW w \in Worker, IInv, Feed(w) PROVE IInv'
<1> USE PoolAssumption, WorkersNat DEF IInv, TypeOK, Phases
<1>1. next \in Item /\ next \in 0 .. NItems
  BY DEF Feed, Item
<1>2. /\ \A v \in Worker : worker'[v] = IF v = w THEN "probe" ELSE worker[v]
      /\ \A v \in Worker : job'[v] = IF v = w THEN next ELSE job[v]
  BY DEF Feed
<1>3. w \notin Probing /\ Probing' = Probing \cup {w}
  BY <1>2 DEF Feed, Probing
<1>4. TypeOK'
  BY <1>1, <1>2, <1>3 DEF Feed
<1>5. EachIndexOnce'
  <2>1. \A v \in Probing : job[v] # next /\ job[v] \in Item
    BY <1>1 DEF EachIndexOnce
  <2>2. \A u, v \in Probing' : job'[u] = job'[v] => u = v
    BY <1>2, <1>3, <2>1 DEF EachIndexOnce, Probing
  <2>3. ASSUME NEW i \in Item, i >= next'
        PROVE  results'[i] = NoAnswer /\ ~\E v \in Probing' : job'[v] = i
    BY <1>1, <1>2, <1>3, <2>3 DEF EachIndexOnce, Feed, Probing, Item
  <2>4. ASSUME NEW i \in Item, ~(i >= next')
        PROVE  (results'[i] = NoAnswer) <=> (\E v \in Probing' : job'[v] = i)
    <3>1. CASE i = next
      BY <1>1, <1>2, <1>3, <3>1 DEF EachIndexOnce, Feed
    <3>2. CASE i # next
      <4>1. ~(i >= next)
        BY <1>1, <2>4, <3>2 DEF Feed, Item
      <4>2. (\E v \in Probing' : job'[v] = i) <=> (\E v \in Probing : job[v] = i)
        BY <1>2, <1>3, <3>2 DEF Probing
      <4> QED
        BY <4>1, <4>2 DEF EachIndexOnce, Feed
    <3> QED
      BY <3>1, <3>2
  <2> QED
    BY <2>2, <2>3, <2>4 DEF EachIndexOnce
<1>6. Phases'
  BY <1>1, <1>2 DEF Feed, Item
<1> QED
  BY <1>4, <1>5, <1>6

LEMMA CloseInv == IInv /\ CloseJobs => IInv'
<1> SUFFICES ASSUME IInv, CloseJobs PROVE IInv'
  OBVIOUS
<1> USE PoolAssumption DEF IInv, CloseJobs
<1>1. Probing' = Probing
  BY DEF Probing
<1>2. TypeOK'
  BY <1>1 DEF TypeOK
<1>3. EachIndexOnce'
  BY <1>1 DEF EachIndexOnce
<1>4. Phases'
  BY DEF Phases, TypeOK
<1> QED
  BY <1>2, <1>3, <1>4

\* probe writes the slot of the index its worker took, and of no other.
LEMMA ProbeInv == ASSUME NEW w \in Worker, IInv, Probe(w) PROVE IInv'
<1> USE PoolAssumption, WorkersNat DEF IInv, TypeOK, Phases
<1>1. w \in Probing /\ job[w] \in Item /\ job[w] < next
  BY DEF Probe, Probing, EachIndexOnce
<1>2. PICK a \in Answer(job[w]) : results' = [results EXCEPT ![job[w]] = a]
  BY DEF Probe
<1>3. a # NoAnswer /\ a \in Item \X Outcome
  BY <1>1, <1>2, AnswerAssumption DEF Answer
<1>4. /\ \A v \in Worker : worker'[v] = IF v = w THEN "receive" ELSE worker[v]
      /\ \A v \in Worker : job'[v] = IF v = w THEN 0 ELSE job[v]
  BY DEF Probe
<1>5. Probing' = Probing \ {w}
  BY <1>4 DEF Probing
<1>6. \A i \in Item : results'[i] = IF i = job[w] THEN a ELSE results[i]
  BY <1>2
<1>7. TypeOK'
  <2>1. worker' \in [Worker -> {"unborn", "receive", "probe", "exited"}]
    BY DEF Probe
  <2>2. job' \in [Worker -> 0 .. NItems]
    BY DEF Probe
  <2>3. results' \in [Item -> (Item \X Outcome) \cup {NoAnswer}]
    BY <1>2, <1>3
  <2>4. \A v \in Probing' : job'[v] \in Item
    BY <1>4, <1>5 DEF Probing
  <2> QED
    BY <2>1, <2>2, <2>3, <2>4 DEF Probe
<1>8. EachIndexOnce'
  <2>1. \A u, v \in Probing' : job'[u] = job'[v] => u = v
    BY <1>4, <1>5 DEF EachIndexOnce, Probing
  <2>2. ASSUME NEW i \in Item
        PROVE  (\E v \in Probing' : job'[v] = i)
                 <=> (i # job[w] /\ \E v \in Probing : job[v] = i)
    BY <1>1, <1>4, <1>5 DEF EachIndexOnce, Probing
  <2>3. next' = next
    BY DEF Probe
  <2>4. ASSUME NEW i \in Item, i >= next
        PROVE  results'[i] = NoAnswer /\ ~\E v \in Probing' : job'[v] = i
    BY <1>1, <1>6, <2>2, <2>4 DEF EachIndexOnce, Item
  <2>5. ASSUME NEW i \in Item, ~(i >= next)
        PROVE  (results'[i] = NoAnswer) <=> (\E v \in Probing' : job'[v] = i)
    BY <1>3, <1>6, <2>2, <2>5 DEF EachIndexOnce
  <2> QED
    BY <2>1, <2>3, <2>4, <2>5 DEF EachIndexOnce
<1>9. Phases'
  <2>1. caller \notin {"spawn", "returned"}
    BY DEF Probe
  <2>2. \A i \in Item : results'[i] \in Answer(i) \cup {NoAnswer}
    BY <1>2, <1>6
  <2> QED
    BY <1>4, <2>1, <2>2 DEF Probe
<1> QED
  BY <1>7, <1>8, <1>9

LEMMA ExitInv == ASSUME NEW w \in Worker, IInv, WorkerExit(w) PROVE IInv'
<1> USE PoolAssumption, WorkersNat DEF IInv, TypeOK, Phases
<1>1. \A v \in Worker : worker'[v] = IF v = w THEN "exited" ELSE worker[v]
  BY DEF WorkerExit
<1>2. Probing' = Probing
  BY <1>1 DEF WorkerExit, Probing
<1>3. TypeOK'
  BY <1>2 DEF WorkerExit
<1>4. EachIndexOnce'
  BY <1>2 DEF WorkerExit, EachIndexOnce
<1>5. Phases'
  BY <1>1 DEF WorkerExit
<1> QED
  BY <1>3, <1>4, <1>5

LEMMA ReturnInv == IInv /\ Return => IInv'
<1> SUFFICES ASSUME IInv, Return PROVE IInv'
  OBVIOUS
<1> USE PoolAssumption DEF IInv, Return
<1>1. Probing' = Probing
  BY DEF Probing
<1>2. TypeOK'
  BY <1>1 DEF TypeOK
<1>3. EachIndexOnce'
  BY <1>1 DEF EachIndexOnce
<1>4. Phases'
  BY DEF Phases
<1> QED
  BY <1>2, <1>3, <1>4

LEMMA StutterInv == IInv /\ UNCHANGED vars => IInv'
  BY DEF IInv, TypeOK, EachIndexOnce, Phases, Probing, vars

LEMMA NextInv == IInv /\ [Next]_vars => IInv'
  BY SpawnInv, FeedInv, CloseInv, ProbeInv, ExitInv, ReturnInv, StutterInv
     DEF Next, CallerStep, WorkerStep

\* Indices and answers of a call, for any number of items and workers
\* (probeAll): IInv is an invariant.
THEOREM SpecInv == Spec => []IInv
  BY InitInv, NextInv, PTL DEF Spec

\* The variables of a call keep their types.
THEOREM TypeCorrect == Spec => []TypeOK
<1>1. IInv => TypeOK
  BY DEF IInv
<1> QED
  BY <1>1, SpecInv, PTL

\* No index is skipped and no index is probed twice.
THEOREM IndexSafety == Spec => []EachIndexOnce
<1>1. IInv => EachIndexOnce
  BY DEF IInv
<1> QED
  BY <1>1, SpecInv, PTL

\* Once every worker has exited, every index has been answered.
LEMMA ExitedAnswered ==
  ASSUME IInv, \A w \in Worker : worker[w] = "exited"
  PROVE  \A i \in Item : results[i] \in Answer(i)
<1> USE PoolAssumption DEF IInv, Phases
<1> SUFFICES ASSUME NEW i \in Item PROVE results[i] \in Answer(i)
  OBVIOUS
<1>1. 1 \in Worker
  BY SomeWorker DEF Item
<1>2. next = NItems + 1
  BY <1>1
<1>3. ~(i >= next)
  BY <1>2 DEF Item
<1>4. Probing = {}
  BY DEF Probing
<1> QED
  BY <1>3, <1>4 DEF EachIndexOnce

LEMMA InvComplete == IInv => CompleteOnReturn
  BY ExitedAnswered DEF IInv, Phases, CompleteOnReturn

\* When probeAll returns every answer is in its place and no goroutine is left.
THEOREM Completeness == Spec => []CompleteOnReturn
  BY InvComplete, SpecInv, PTL
------------------------------------------------------------------------------
(***************************************************************************)
(* probeAll implements ProbeBatch.                                         *)
(***************************************************************************)
Active == {job[w] : w \in Probing}

\* A worker that waits for an index leaves room for one more active probe.
LEMMA RoomForOne ==
  ASSUME IInv, NEW w \in Worker, worker[w] = "receive"
  PROVE  Cardinality(Active) < ProbeLimit
<1> USE PoolAssumption, WorkersNat
<1>1. IsFiniteSet(Worker) /\ Cardinality(Worker) = Workers
  BY FS_Interval DEF Worker
<1>2. IsFiniteSet(Worker \ {w}) /\ Cardinality(Worker \ {w}) = Workers - 1
  BY <1>1, FS_RemoveElement
<1>3. Probing \in SUBSET (Worker \ {w})
  BY DEF Probing
<1>4. IsFiniteSet(Probing) /\ Cardinality(Probing) <= Workers - 1
  BY <1>2, <1>3, FS_Subset
<1> DEFINE f == [v \in Probing |-> job[v]]
<1>5. f \in Surjection(Probing, Active)
  <2>1. f \in [Probing -> Active]
    BY DEF Active
  <2>2. \A t \in Active : \E v \in Probing : f[v] = t
    BY DEF Active
  <2> QED
    BY <2>1, <2>2, Fun_IsSurj
<1>6. IsFiniteSet(Active) /\ Cardinality(Active) <= Cardinality(Probing)
  BY <1>4, <1>5, FS_Surjection
<1>7. Cardinality(Active) \in Nat /\ Cardinality(Probing) \in Nat
  BY <1>4, <1>6, FS_CardinalityType
<1>8. Workers <= ProbeLimit
  BY DEF Workers
<1> HIDE DEF f
<1> QED
  BY <1>4, <1>6, <1>7, <1>8

LEMMA BatchInit == Init => Batch!Init
<1> SUFFICES ASSUME Init PROVE Batch!Init
  OBVIOUS
<1>1. Probing = {}
  BY DEF Init, Probing
<1>2. (caller = "returned") = (NItems = 0)
  BY PoolAssumption DEF Init, Workers
<1> QED
  BY <1>1, <1>2 DEF Init, Batch!Init, Batch!Item, Item

LEMMA FeedStarts ==
  ASSUME IInv, NEW w \in Worker, Feed(w)
  PROVE  \E i \in Batch!Item : Batch!Start(i)
<1> USE PoolAssumption DEF IInv, TypeOK
<1>1. PICK i \in Item : i = next
  BY DEF Feed, Item
<1>2. Probing' = Probing \cup {w} /\ w \notin Probing
  BY DEF Feed, Probing
<1>3. Active' = Active \cup {i}
  BY <1>1, <1>2 DEF Feed, Active, Probing
<1>4. results[i] = NoAnswer /\ i \notin Active
  BY <1>1 DEF EachIndexOnce, Active, Item
<1>5. Cardinality(Active) < ProbeLimit
  BY RoomForOne DEF Feed
<1>6. Batch!Start(i)
  BY <1>3, <1>4, <1>5
     DEF Feed, Active, Batch!Start, Cardinality, Batch!Cardinality
<1> QED
  BY <1>6 DEF Batch!Item, Item

LEMMA ProbeFinishes ==
  ASSUME IInv, NEW w \in Worker, Probe(w)
  PROVE  \E i \in Batch!Item : Batch!Finish(i)
<1> USE DEF IInv, TypeOK
<1>1. w \in Probing /\ Probing' = Probing \ {w}
  BY DEF Probe, Probing
<1>2. PICK i \in Item : i = job[w]
  BY <1>1
<1>3. Active' = Active \ {i}
  BY <1>1, <1>2 DEF Probe, Active, Probing, EachIndexOnce
<1>4. caller # "returned" /\ caller' = caller
  BY <1>1 DEF Probe, Phases, Probing
<1>5. i \in Active
  BY <1>1, <1>2 DEF Active
<1>6. Batch!Finish(i)
  BY <1>2, <1>3, <1>4, <1>5 DEF Probe, Active, Batch!Finish
<1> QED
  BY <1>6 DEF Batch!Item, Item

LEMMA ReturnReturns == ASSUME IInv, Return PROVE Batch!Return
<1>1. \A i \in Item : results[i] \in Answer(i)
  BY ExitedAnswered DEF Return
<1>2. Probing = {}
  BY DEF Return, Probing
<1> QED
  BY <1>1, <1>2 DEF Return, Batch!Return, Batch!Item, Item, Probing

\* The steps of the goroutines that the batch does not see.
LEMMA OtherStutter ==
  IInv /\ (SpawnWorker \/ CloseJobs \/ (\E w \in Worker : WorkerExit(w))
             \/ UNCHANGED vars)
    => UNCHANGED Batch!vars
<1> SUFFICES ASSUME IInv,
                    SpawnWorker \/ CloseJobs
                      \/ (\E w \in Worker : WorkerExit(w)) \/ UNCHANGED vars
             PROVE  /\ Active' = Active
                    /\ results' = results
                    /\ (caller' = "returned") = (caller = "returned")
  BY DEF Batch!vars, Active
<1> USE DEF IInv, TypeOK, Phases
<1>1. CASE SpawnWorker
  <2>1. spawned + 1 \in Worker /\ worker[spawned + 1] = "unborn"
    BY <1>1, PoolAssumption, WorkersNat DEF SpawnWorker, Worker
  <2>2. Probing' = Probing
    BY <1>1, <2>1 DEF SpawnWorker, Probing
  <2> QED
    BY <1>1, <2>2 DEF SpawnWorker, Active
<1>2. CASE CloseJobs
  BY <1>2 DEF CloseJobs, Active, Probing
<1>3. CASE \E w \in Worker : WorkerExit(w)
  <2>1. Probing' = Probing
    BY <1>3 DEF WorkerExit, Probing
  <2> QED
    BY <1>3, <2>1 DEF WorkerExit, Active
<1>4. CASE UNCHANGED vars
  BY <1>4 DEF vars, Active, Probing
<1> QED
  BY <1>1, <1>2, <1>3, <1>4

LEMMA BatchStep == IInv /\ [Next]_vars => [Batch!Next]_(Batch!vars)
<1> SUFFICES ASSUME IInv, [Next]_vars PROVE [Batch!Next]_(Batch!vars)
  OBVIOUS
<1>1. CASE \E w \in Worker : Feed(w)
  BY <1>1, FeedStarts DEF Batch!Next
<1>2. CASE \E w \in Worker : Probe(w)
  BY <1>2, ProbeFinishes DEF Batch!Next
<1>3. CASE Return
  BY <1>3, ReturnReturns DEF Batch!Next
<1>4. CASE SpawnWorker \/ CloseJobs \/ (\E w \in Worker : WorkerExit(w))
             \/ UNCHANGED vars
  BY <1>4, OtherStutter
<1> QED
  BY <1>1, <1>2, <1>3, <1>4 DEF Next, CallerStep, WorkerStep

\* Whatever the goroutines do, the caller sees a batch: at most ProbeLimit
\* active probes, one for each item, and all answers on return.
THEOREM ImplementsBatch == Spec => BatchSpec
<1>1. Spec => []IInv
  BY SpecInv
<1> QED
  BY <1>1, BatchInit, BatchStep, PTL DEF Spec, BatchSpec, Batch!Spec
==============================================================================
