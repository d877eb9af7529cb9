---------------------------- MODULE MC_ProbePool ----------------------------
(***************************************************************************)
(* ProbePool for TLC, with more items than workers, so that workers come   *)
(* back for a second index while the feeding loop still runs; and, for     *)
(* what must eventually happen to a node that is down, NodeHealth with two *)
(* nodes.  NodeHealth tells of a batch no more than ProbeBatch promises,   *)
(* which the pool is shown to keep, so one of the two moves and the other  *)
(* stays as it began.                                                      *)
(***************************************************************************)
EXTENDS ProbePool, Integers

CONSTANTS k1, k2, c1, c2  \* NodeHealth

VARIABLES
  part,                                        \* the one that moves
  errIpMap, tick, row, errIpArr, callPc, isSend, batch, todo, temp, msg,
  since, overrun                               \* of NodeHealth

Health == INSTANCE NodeHealth WITH
  Key <- {k1, k2}, RowKey <- <<k1, k2>>, Down <- {k1}, Asked <- {},
  Call <- {c1, c2}, AlertAfter <- 3, CountCap <- 4, RelaysSet <- TRUE

healthVars == <<errIpMap, tick, row, errIpArr, callPc, isSend, batch, todo,
                temp, msg, since, overrun>>
allVars == <<part, vars, healthVars>>

MCInit == part \in {"pool", "health"} /\ Init /\ Health!Init

MCNext ==
  \/ part = "pool" /\ Next /\ UNCHANGED <<part, healthVars>>
  \/ part = "health" /\ Health!Next /\ UNCHANGED <<part, vars>>

\* The fairness of each: the goroutines of a batch run, and the cron ticks.
MCSpec ==
  /\ MCInit /\ [][MCNext]_allVars
  /\ WF_vars(part = "pool" /\ CallerStep)
  /\ \A w \in Worker : WF_vars(WorkerStep(w))
  /\ WF_healthVars(part = "health" /\ Health!TickStep)
  /\ \A c \in {c1, c2} : WF_healthVars(Health!CallStep(c))

\* A batch always ends, "so that no lost result makes the wait hang".
PoolReturns == part = "pool" => AlwaysReturns

\* A node that stays down is reported again and again.
DownIsReported == part = "health" => Health!DownIsReported
=============================================================================
