------------------------------- MODULE Lifecycle -------------------------------
(***************************************************************************)
(* The life of the process: main serves requests until a signal, stops the *)
(* cron, stops the two logs, shuts the server down with a limit of five    *)
(* seconds, and returns, which ends whatever still runs.  A request logs   *)
(* its line when it is answered, which can be during any of these steps.   *)
(* The logs are told here by their channels alone (AsyncLog has the rest). *)
(***************************************************************************)
EXTENDS Naturals

CONSTANTS
  Handler,  \* goroutines of requests
  Job,      \* jobs of the cron
  ChSize    \* capacity of a log's channel

LifeAssumption == ChSize \in Nat \ {0}

Log == {"info", "error"}

VARIABLES
  main,     \* where main stands
  serving,  \* the listener is open
  handler,  \* requests under way
  cron,     \* the cron starts jobs
  job,      \* jobs under way
  run,      \* the goroutine of each log
  ch,       \* lines in its channel
  late      \* of those, the ones put there after the goroutine was gone

vars == <<main, serving, handler, cron, job, run, ch, late>>

Init ==
  /\ main = "wait"
  /\ serving = TRUE
  /\ handler = [h \in Handler |-> FALSE]
  /\ cron = TRUE
  /\ job = [j \in Job |-> FALSE]
  /\ run = [x \in Log |-> "on"]
  /\ ch = [x \in Log |-> 0]
  /\ late = [x \in Log |-> 0]
------------------------------------------------------------------------------
(***************************************************************************)
(* Requests, jobs, and the logs' goroutines.                               *)
(***************************************************************************)
Request(h) ==
  /\ serving /\ ~handler[h]
  /\ handler' = [handler EXCEPT ![h] = TRUE]
  /\ UNCHANGED <<main, serving, cron, job, run, ch, late>>

\* logWithLevel; a line that finds the channel full is counted and dropped.
Respond(h) ==
  /\ handler[h]
  /\ handler' = [handler EXCEPT ![h] = FALSE]
  /\ \E x \in Log :
       IF ch[x] < ChSize
       THEN /\ ch' = [ch EXCEPT ![x] = @ + 1]
            /\ late' = IF run[x] = "off" THEN [late EXCEPT ![x] = @ + 1] ELSE late
       ELSE UNCHANGED <<ch, late>>
  /\ UNCHANGED <<main, serving, cron, job, run>>

StartJob(j) ==
  /\ cron /\ ~job[j]
  /\ job' = [job EXCEPT ![j] = TRUE]
  /\ UNCHANGED <<main, serving, handler, cron, run, ch, late>>

EndJob(j) ==
  /\ job[j]
  /\ job' = [job EXCEPT ![j] = FALSE]
  /\ UNCHANGED <<main, serving, handler, cron, run, ch, late>>

Take(x) ==
  /\ run[x] # "off" /\ ch[x] > 0
  /\ ch' = [ch EXCEPT ![x] = @ - 1]
  /\ UNCHANGED <<main, serving, handler, cron, job, run, late>>

DrainedAtOnce(x) ==
  /\ run[x] = "drain"
  /\ run' = [run EXCEPT ![x] = "off"]
  /\ UNCHANGED <<main, serving, handler, cron, job, ch, late>>

DrainedOnALine(x) ==
  /\ run[x] = "drain" /\ ch[x] > 0
  /\ run' = [run EXCEPT ![x] = "off"]
  /\ ch' = [ch EXCEPT ![x] = @ - 1]
  /\ UNCHANGED <<main, serving, handler, cron, job, late>>

\* The goroutine ends when done is closed and the channel is found empty.
Drained(x) ==
  /\ run[x] = "drain" /\ ch[x] = 0
  /\ run' = [run EXCEPT ![x] = "off"]
  /\ UNCHANGED <<main, serving, handler, cron, job, ch, late>>
------------------------------------------------------------------------------
(***************************************************************************)
(* main.                                                                   *)
(***************************************************************************)
Signal ==
  /\ main = "wait" /\ main' = "stop task"
  /\ UNCHANGED <<serving, handler, cron, job, run, ch, late>>

\* The listener fails: log.Fatalf.
Fatal ==
  /\ main \notin {"shutdown", "exited", "fatal"} /\ main' = "fatal"
  /\ UNCHANGED <<serving, handler, cron, job, run, ch, late>>

\* Jobs under way go on.
TaskStop ==
  /\ main = "stop task" /\ main' = "info"
  /\ cron' = FALSE
  /\ UNCHANGED <<serving, handler, job, run, ch, late>>

\* FlushLogs: Stop of one log, until its goroutine is gone, and of the other.
Stop(x, next) ==
  /\ main = x
  /\ \/ run[x] = "on" /\ run' = [run EXCEPT ![x] = "drain"] /\ UNCHANGED main
     \/ run[x] = "off" /\ main' = next /\ UNCHANGED run
  /\ UNCHANGED <<serving, handler, cron, job, ch, late>>

FlushLogs == Stop("info", "error") \/ Stop("error", "shutdown")

\* Shutdown closes the listener and waits for the requests, or five seconds.
Shutdown ==
  /\ main = "shutdown"
  /\ \/ serving /\ serving' = FALSE /\ UNCHANGED main
     \/ ~serving /\ main' = "exited" /\ UNCHANGED serving
  /\ UNCHANGED <<handler, cron, job, run, ch, late>>

Next ==
  /\ main \notin {"exited", "fatal"}
  /\ \/ \E h \in Handler : Request(h) \/ Respond(h)
     \/ \E j \in Job : StartJob(j) \/ EndJob(j)
     \/ \E x \in Log : Take(x) \/ Drained(x)
     \/ Signal \/ Fatal \/ TaskStop \/ FlushLogs \/ Shutdown

\* main and the logs' goroutines run on; the five seconds pass.  Nothing says
\* that a request or a job ends.
Fairness ==
  /\ WF_vars(TaskStop \/ FlushLogs) /\ WF_vars(Shutdown)
  /\ \A x \in Log : WF_vars(Take(x) \/ Drained(x))

Spec == Init /\ [][Next]_vars /\ Fairness
------------------------------------------------------------------------------
(***************************************************************************)
(* Properties.                                                             *)
(***************************************************************************)

\* The types; a request is taken in only before the listener is closed, which
\* is after both logs are.
TypeOK ==
  /\ main \in {"wait", "stop task", "info", "error", "shutdown", "exited", "fatal"}
  /\ serving \in BOOLEAN /\ cron \in BOOLEAN
  /\ handler \in [Handler -> BOOLEAN] /\ job \in [Job -> BOOLEAN]
  /\ run \in [Log -> {"on", "drain", "off"}]
  /\ ch \in [Log -> 0..ChSize] /\ late \in [Log -> 0..ChSize]
  /\ ~serving => main \in {"shutdown", "exited"}

\* main goes past the Stop of a log when its goroutine is gone, and by then
\* the goroutine has written all that was in the channel.
StoppedIsFlushed ==
  /\ main \in {"error", "shutdown", "exited"} => run["info"] = "off"
  /\ main \in {"shutdown", "exited"} => run["error"] = "off"
  /\ \A x \in Log : late[x] = IF run[x] = "off" THEN ch[x] ELSE 0

\* When main has returned, the lines nobody has written are those of requests
\* that were answered after their log was closed.
OnlyLateLinesAreLost ==
  main = "exited" => \A x \in Log : ch[x] = late[x]

\* What every moment's process is.
Inv == TypeOK /\ StoppedIsFlushed /\ OnlyLateLinesAreLost

\* From a signal on, the process comes to its end, whatever its requests
\* wait for, if from some time on none is answered.  (A flow of answers that
\* never ends keeps a log from ever finding its channel empty.)
ProcessEnds ==
  <>[][\A h \in Handler : ~(handler[h] /\ ~handler'[h])]_vars =>
    (main = "stop task" ~> main \in {"exited", "fatal"})
==============================================================================
