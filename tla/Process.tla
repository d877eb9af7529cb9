-------------------------------- MODULE Process --------------------------------
(***************************************************************************)
(* The goroutines that live as long as the process does, and how it ends:  *)
(* the writer of a log (AsyncLog), main with the requests and jobs that    *)
(* end with it (Lifecycle), the requests that write prometheus/nodes.yml   *)
(* (NodeMonitor).  They share no state: Lifecycle tells the logs by their  *)
(* channels alone.                                                         *)
(***************************************************************************)
EXTENDS AsyncLog

CONSTANTS
  Handler, Job, LogSize,      \* Lifecycle; the capacity of a log's channel
  MonReq, None, Torn, MaxList \* NodeMonitor

VARIABLES
  main, serving, handler, cron, job, lifeRun, lines, late,  \* of Lifecycle
  list, mu, tmp, nodes_yml, loaded, req, overtaken          \* of NodeMonitor

Life == INSTANCE Lifecycle WITH ChSize <- LogSize, run <- lifeRun, ch <- lines

Monitor == INSTANCE NodeMonitor WITH Req <- MonReq

ASSUME ProcessAssumption == Life!LifeAssumption /\ Monitor!MonitorAssumption

lifeVars == <<main, serving, handler, cron, job, lifeRun, lines, late>>
monitorVars == <<list, mu, tmp, nodes_yml, loaded, req, overtaken>>

\* When main has returned, the lines nobody has written are those of requests
\* that were answered after their log was closed.
LifeInv == Life!Inv

\* nodes.yml is missing or a list in full, wherever the process ends.
MonitorInv == Monitor!Inv

\* Only a request that another one overtook since it read the list puts an
\* older list over a newer one.
OnlyOvertakenGoesBack == Monitor!OnlyOvertakenGoesBack
==============================================================================
