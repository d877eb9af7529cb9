------------------------------- MODULE MC_Process -------------------------------
(***************************************************************************)
(* Process for TLC.  Its parts share no state, so one of them moves and    *)
(* the others stay as they began.                                          *)
(*                                                                         *)
(* AsyncLog has two producers, a channel smaller than what they write, and *)
(* an archive queue that a second rotation finds full.  It moves in two    *)
(* settings: "log" has the policy "drop", "faulty" has "block" and files   *)
(* that may fail to open and to be written.                                *)
(***************************************************************************)
EXTENDS Process

VARIABLE part  \* the one that moves

Faulty == INSTANCE AsyncLog WITH
  MaxDay <- 2, DropPolicy <- "block", FileMayFail <- TRUE

allVars == <<part, vars, lifeVars, monitorVars>>

\* While another moves, what NodeMonitor and AsyncLog began with does not
\* matter.
MCInit ==
  /\ part \in {"log", "faulty", "life", "monitor"}
  /\ IF part = "faulty" THEN Faulty!Init ELSE Init
  /\ Life!Init /\ Monitor!Init
  /\ part # "monitor" => list = 0

MCNext ==
  \/ part = "log" /\ Next /\ UNCHANGED <<part, lifeVars, monitorVars>>
  \/ part = "faulty" /\ Faulty!Next /\ UNCHANGED <<part, lifeVars, monitorVars>>
  \/ part = "life" /\ Life!Next /\ UNCHANGED <<part, vars, monitorVars>>
  \/ part = "monitor" /\ Monitor!Next /\ UNCHANGED <<part, vars, lifeVars>>

\* The fairness of each; of AsyncLog, that of its setting.
LogFairness ==
  /\ WF_vars(part = "log" /\ RunStep)
  /\ WF_vars(part = "faulty" /\ Faulty!RunStep)
  /\ \A a \in ArchiveWorker : WF_vars(ArchiveStep(a))
  /\ \A p \in Producer : WF_vars(Timeout(p))
  /\ WF_vars(StopStep)

MCSpec ==
  /\ MCInit /\ [][MCNext]_allVars
  /\ LogFairness /\ Life!Fairness

\* From a signal on the process ends, if from some time on no request is
\* answered.
ProcessEnds == Life!ProcessEnds

\* node_monitor.go logs "reload failed" for a status other than 200, and the
\* answer of InitNodeMonitor is "success" only without an error.
SuccessIsLoaded == Monitor!SuccessIsLoaded
==============================================================================
