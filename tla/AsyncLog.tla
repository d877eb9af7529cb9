------------------------------- MODULE AsyncLog -------------------------------
(***************************************************************************)
(* asyncWriter of middleware/logger.go: request goroutines hand lines to a *)
(* bounded channel, the goroutine run writes them through a buffer into    *)
(* one file a day, archive workers take over the files of past days, and   *)
(* Stop brings it all to an end.  What an archive worker does to its file  *)
(* is not told here; only which file it holds.                             *)
(***************************************************************************)
EXTENDS Naturals, Sequences, FiniteSets

CONSTANTS
  Producer,       \* goroutines that call writeLine
  MaxLines,       \* bound: lines each of them writes
  MaxDay,         \* bound: days the clock goes through
  ChSize,         \* capacity of w.ch
  BufCap,         \* lines the bufio.Writer holds before it writes by itself
  ArchiveQueue,   \* archiveQueueSize, capacity of w.archiveCh
  ArchiveWorker,  \* the archive workers
  DropPolicy,     \* "drop" or "block"
  FileMayFail     \* environment: opening a file or writing to it may fail

ASSUME LogAssumption ==
  /\ MaxLines \in Nat
  /\ MaxDay \in Nat \ {0}
  /\ ChSize \in Nat \ {0}
  /\ BufCap \in Nat \ {0}
  /\ ArchiveQueue \in Nat \ {0}
  /\ ArchiveWorker # {}
  /\ DropPolicy \in {"drop", "block"}
  /\ FileMayFail \in BOOLEAN

Day == 1 .. MaxDay
NoFile == 0
Line == Producer \X (1 .. MaxLines)

VARIABLES
  today,      \* the date time.Now() shows
  produced,   \* produced[p]: lines p has handed to writeLine
  waiting,    \* producers blocked in writeLine until its timer fires
  dropped,    \* w.dropped
  ch,         \* w.ch
  run,        \* where run stands: "select", "drain", "final" or "exited"
  file,       \* w.file, named by its date (w.currentDate); NoFile for nil
  open,       \* that file is open
  buf,        \* lines in w.buf
  failed,     \* w.buf takes no line to a file any more: bufio keeps the first
              \* error of a write for good, or the file is closed or missing
  archiveCh,  \* w.archiveCh: files of past days
  holding,    \* holding[a]: the file archive worker a is busy with, or NoFile
  exited,     \* archive workers that have returned
  closed,     \* close(w.archiveCh) has run
  stop        \* Stop: "idle", "await" run, "wait" for the WaitGroup, "returned"

VARIABLES
  accepted,   \* history: the lines that entered w.ch, in order
  out,        \* history: the lines that have left the writer, in order
  lost,       \* history: those of them that reached no file whole, each with
              \* the file it was meant for
  broken,     \* history: files whose writing, or whose successor's opening,
              \* met an error; NoFile if the first did not open
  handed,     \* history: files put into w.archiveCh
  stuck,      \* history: files that stayed w.file as the next did not open
  archived,   \* history: files an archive worker is done with
  mark        \* history: lines accepted when Stop began

writeVars == <<failed, lost, broken>>
runVars == <<run, file, open, buf, out, stuck, writeVars>>
archVars == <<holding, exited, archived>>
stopVars == <<closed, stop, mark>>
prodVars == <<produced, waiting, dropped>>
vars == <<today, prodVars, ch, accepted, runVars, archiveCh, handed, archVars,
          stopVars>>

\* newAsyncWriter: openCurrent may have failed, the goroutines are started.
Init ==
  /\ today = 1
  /\ produced = [p \in Producer |-> 0]
  /\ waiting = {}
  /\ dropped = 0
  /\ ch = <<>>
  /\ run = "select"
  /\ \/ file = 1 /\ open = TRUE /\ failed = FALSE /\ broken = {}
     \/ FileMayFail /\ file = NoFile /\ open = FALSE /\ failed = TRUE /\ broken = {NoFile}
  /\ buf = <<>>
  /\ archiveCh = <<>>
  /\ holding = [a \in ArchiveWorker |-> NoFile]
  /\ exited = {}
  /\ closed = FALSE
  /\ stop = "idle"
  /\ accepted = <<>>
  /\ out = <<>> /\ lost = {}
  /\ handed = {}
  /\ stuck = {}
  /\ archived = {}
  /\ mark = 0

\* Midnight.
NewDay ==
  /\ today < MaxDay
  /\ today' = today + 1
  /\ UNCHANGED <<prodVars, ch, accepted, runVars, archiveCh, handed, archVars,
                 stopVars>>
------------------------------------------------------------------------------
(***************************************************************************)
(* writeLine.                                                              *)
(***************************************************************************)
Enter(p, n) ==
  /\ ch' = Append(ch, <<p, n>>)
  /\ accepted' = Append(accepted, <<p, n>>)

\* The first select of either policy.  A full channel loses the line at once,
\* or, under "block", makes the producer wait for the timer.
WriteLine(p) ==
  /\ p \notin waiting /\ produced[p] < MaxLines
  /\ produced' = [produced EXCEPT ![p] = @ + 1]
  /\ \/ /\ Len(ch) < ChSize
        /\ Enter(p, produced'[p])
        /\ UNCHANGED <<waiting, dropped>>
     \/ /\ Len(ch) = ChSize /\ DropPolicy = "drop"
        /\ dropped' = dropped + 1
        /\ UNCHANGED <<ch, accepted, waiting>>
     \/ /\ Len(ch) = ChSize /\ DropPolicy = "block"
        /\ waiting' = waiting \cup {p}
        /\ UNCHANGED <<ch, accepted, dropped>>
  /\ UNCHANGED <<today, runVars, archiveCh, handed, archVars, stopVars>>

\* The second select of "block": there is room before the timer fires.
Unblock(p) ==
  /\ p \in waiting /\ Len(ch) < ChSize
  /\ Enter(p, produced[p])
  /\ waiting' = waiting \ {p}
  /\ UNCHANGED <<today, produced, dropped, runVars, archiveCh, handed,
                 archVars, stopVars>>

\* ... or the timer fires, with or without room.
TimeoutUncounted(p) ==
  /\ p \in waiting
  /\ waiting' = waiting \ {p}
  /\ UNCHANGED <<today, produced, dropped, ch, accepted, runVars, archiveCh,
                 handed, archVars, stopVars>>

Timeout(p) ==
  /\ p \in waiting
  /\ waiting' = waiting \ {p}
  /\ dropped' = dropped + 1
  /\ UNCHANGED <<today, produced, ch, accepted, runVars, archiveCh, handed,
                 archVars, stopVars>>
------------------------------------------------------------------------------
(***************************************************************************)
(* run and what it calls.                                                  *)
(***************************************************************************)

\* The error of a write, which nobody looks at: a first part of the lines s has
\* reached the file, the others, or what a cut one lacks, never will.
LoseTail(s) ==
  /\ FileMayFail /\ s # <<>>
  /\ broken' = broken \cup {file}
  /\ \E k \in DOMAIN s : lost' = lost \cup {<<s[i], file>> : i \in k .. Len(s)}

\* flushBuf; after an error nothing is left in w.buf that could be written.
FlushBuf ==
  /\ out' = out \o buf
  /\ buf' = <<>>
  /\ \/ UNCHANGED writeVars
     \/ LoseTail(buf) /\ failed' = TRUE

\* A line given to a bufio.Writer that has failed, or to none.
LoseLine(l) ==
  /\ out' = Append(out, l)
  /\ lost' = lost \cup {<<l, file>>}
  /\ UNCHANGED <<file, open, buf, failed, broken, archiveCh, handed, stuck>>

\* writeToBuf with no file at all; no reopening is tried.
WriteNowhere(l) == file = NoFile /\ LoseLine(l)

\* writeToBuf on the day of the file, which is then open: only a rotation that
\* fails leaves it closed, and days do not come back.  bufio writes when full.
WriteSameDay(l) ==
  /\ file = today
  /\ \/ failed /\ LoseLine(l)
     \/ /\ ~failed
        /\ \/ /\ Len(buf) < BufCap
              /\ buf' = Append(buf, l)
              /\ UNCHANGED <<out, writeVars>>
           \/ /\ Len(buf) = BufCap
              /\ out' = out \o buf
              /\ buf' = <<l>>
              /\ UNCHANGED writeVars
           \/ /\ Len(buf) = BufCap
              /\ out' = Append(out \o buf, l)
              /\ buf' = <<>>
              /\ LoseTail(Append(buf, l)) /\ failed' = TRUE
        /\ UNCHANGED <<file, open, archiveCh, handed, stuck>>

\* archiveCh <- oldPath, or "archive queue full, skipping".
HandOver ==
  IF Len(archiveCh) < ArchiveQueue
  THEN /\ archiveCh' = Append(archiveCh, file)
       /\ handed' = handed \cup {file}
  ELSE UNCHANGED <<archiveCh, handed>>

\* openCurrent has made a new bufio.Writer, with no error in it.
OpensToday(l) ==
  /\ file' = today /\ open' = TRUE
  /\ buf' = <<l>>
  /\ out' = out \o buf
  /\ failed' = FALSE
  /\ \/ UNCHANGED <<lost, broken>>
     \/ LoseTail(buf)
  /\ UNCHANGED stuck

\* writeToBuf on another day: flush, close, hand over, openCurrent.  When
\* opening fails w.file stays, closed, and the next line comes here again.
RotateUnclosed(l) ==
  /\ file # NoFile /\ file # today
  /\ HandOver
  /\ \/ OpensToday(l)
     \/ /\ FileMayFail
        /\ file' = file /\ open' = open
        /\ buf' = <<l>>
        /\ out' = out \o buf
        /\ UNCHANGED writeVars
        /\ stuck' = stuck \cup {file}

RotateDateKept(l) ==
  /\ file # NoFile /\ file # today
  /\ HandOver
  /\ file' = file /\ open' = TRUE
  /\ buf' = <<l>>
  /\ out' = out \o buf
  /\ UNCHANGED <<stuck, writeVars>>

Rotate(l) ==
  /\ file # NoFile /\ file # today
  /\ HandOver
  /\ \/ OpensToday(l)
     \/ /\ file' = file /\ open' = FALSE
        /\ buf' = <<>>
        /\ out' = Append(out \o buf, l)
        /\ LoseTail(Append(buf, l)) /\ failed' = TRUE
        /\ stuck' = stuck \cup {file}

\* bp := <-w.ch; w.writeToBuf(*bp)
TakeLine ==
  /\ ch # <<>>
  /\ ch' = Tail(ch)
  /\ \/ WriteNowhere(Head(ch))
     \/ WriteSameDay(Head(ch))
     \/ Rotate(Head(ch))

othersInRun == <<today, prodVars, accepted, archVars, stopVars>>

\* The select picks a line, and what else is queued is drained with it.
RunLine ==
  /\ run \in {"select", "drain"}
  /\ TakeLine
  /\ run' = "drain"
  /\ UNCHANGED othersInRun

RunDrained ==
  /\ run = "drain" /\ ch = <<>>
  /\ run' = "select"
  /\ UNCHANGED <<othersInRun, ch, file, open, buf, out, writeVars, archiveCh,
                 handed, stuck>>

\* The select picks the flush ticker.
RunTick ==
  /\ run = "select" /\ buf # <<>>
  /\ FlushBuf
  /\ UNCHANGED <<othersInRun, ch, run, file, open, archiveCh, handed, stuck>>

\* The select picks w.done, whatever else is ready.
RunDone ==
  /\ run = "select" /\ stop # "idle"
  /\ run' = "final"
  /\ UNCHANGED <<othersInRun, ch, file, open, buf, out, writeVars, archiveCh,
                 handed, stuck>>

RunFinalLine ==
  /\ run = "final"
  /\ TakeLine
  /\ UNCHANGED <<othersInRun, run>>

\* Nothing is queued at this moment: flush and return, closing w.runDone.
RunExitUndrained ==
  /\ run = "final"
  /\ FlushBuf
  /\ run' = "exited"
  /\ UNCHANGED <<othersInRun, ch, file, open, archiveCh, handed, stuck>>

RunExit ==
  /\ run = "final" /\ ch = <<>>
  /\ FlushBuf
  /\ run' = "exited"
  /\ UNCHANGED <<othersInRun, ch, file, open, archiveCh, handed, stuck>>

RunStep == RunLine \/ RunDrained \/ RunTick \/ RunDone \/ RunFinalLine \/ RunExit
------------------------------------------------------------------------------
(***************************************************************************)
(* archiveWorker and Stop.                                                 *)
(***************************************************************************)
othersInArchive == <<today, prodVars, ch, accepted, runVars, handed, stopVars>>

ArchiveTake(a) ==
  /\ a \notin exited /\ holding[a] = NoFile /\ archiveCh # <<>>
  /\ holding' = [holding EXCEPT ![a] = Head(archiveCh)]
  /\ archiveCh' = Tail(archiveCh)
  /\ UNCHANGED <<othersInArchive, exited, archived>>

\* archiveFile returns, whether or not it succeeded.
ArchiveDone(a) ==
  /\ holding[a] # NoFile
  /\ archived' = archived \cup {holding[a]}
  /\ holding' = [holding EXCEPT ![a] = NoFile]
  /\ UNCHANGED <<othersInArchive, archiveCh, exited>>

\* The range over w.archiveCh ends: it is closed and empty.
ArchiveExit(a) ==
  /\ a \notin exited /\ holding[a] = NoFile
  /\ closed /\ archiveCh = <<>>
  /\ exited' = exited \cup {a}
  /\ UNCHANGED <<othersInArchive, archiveCh, holding, archived>>

ArchiveStep(a) == ArchiveTake(a) \/ ArchiveDone(a) \/ ArchiveExit(a)

othersInStop == <<today, prodVars, ch, accepted, runVars, archiveCh, handed,
                  archVars>>

\* close(w.done)
StopBegin ==
  /\ stop = "idle"
  /\ stop' = "await"
  /\ mark' = Len(accepted)
  /\ UNCHANGED <<othersInStop, closed>>

\* <-w.runDone; close(w.archiveCh)
StopCloseForgotten ==
  /\ stop = "await" /\ run = "exited"
  /\ stop' = "wait"
  /\ UNCHANGED <<othersInStop, closed, mark>>

StopClose ==
  /\ stop = "await" /\ run = "exited"
  /\ closed' = TRUE
  /\ stop' = "wait"
  /\ UNCHANGED <<othersInStop, mark>>

\* w.wg.Wait()
StopReturn ==
  /\ stop = "wait" /\ run = "exited" /\ exited = ArchiveWorker
  /\ stop' = "returned"
  /\ UNCHANGED <<othersInStop, closed, mark>>

StopStep == StopClose \/ StopReturn

ProducerStep(p) == WriteLine(p) \/ Unblock(p) \/ Timeout(p)

Next ==
  \/ NewDay
  \/ \E p \in Producer : ProducerStep(p)
  \/ RunStep
  \/ \E a \in ArchiveWorker : ArchiveStep(a)
  \/ StopBegin \/ StopStep

Spec == Init /\ [][Next]_vars

\* Every goroutine of the writer is scheduled, and the timer of a blocked
\* producer fires.  Days, requests and the call of Stop just happen.
FairSpec ==
  /\ Spec
  /\ WF_vars(RunStep)
  /\ \A a \in ArchiveWorker : WF_vars(ArchiveStep(a))
  /\ \A p \in Producer : WF_vars(Timeout(p))
  /\ WF_vars(StopStep)
------------------------------------------------------------------------------
(***************************************************************************)
(* Properties.                                                             *)
(***************************************************************************)
FileName == Day \cup {NoFile}

\* The types, and the capacities of the two channels and of the buffer.
TypeOK ==
  /\ today \in Day
  /\ produced \in [Producer -> 0 .. MaxLines]
  /\ waiting \subseteq Producer
  /\ dropped \in Nat
  /\ ch \in Seq(Line) /\ Len(ch) <= ChSize
  /\ run \in {"select", "drain", "final", "exited"}
  /\ file \in FileName
  /\ open \in BOOLEAN
  /\ buf \in Seq(Line) /\ Len(buf) <= BufCap
  /\ archiveCh \in Seq(Day) /\ Len(archiveCh) <= ArchiveQueue
  /\ holding \in [ArchiveWorker -> FileName]
  /\ exited \subseteq ArchiveWorker
  /\ closed \in BOOLEAN
  /\ stop \in {"idle", "await", "wait", "returned"}
  /\ accepted \in Seq(Line)
  /\ out \in Seq(Line)
  /\ handed \subseteq Day
  /\ stuck \subseteq Day
  /\ failed \in BOOLEAN
  /\ lost \subseteq Line \X FileName
  /\ broken \subseteq FileName
  /\ archived \subseteq Day
  /\ mark \in Nat

\* Every line that got into the channel is in one place and in its order: out
\* of the writer, in the buffer or still queued, through rotations, flushes,
\* the final drain and Stop (logger.go:162-215).
InOrderOnce == accepted = out \o buf \o ch

\* Of the lines that have left the writer only those reached no file that were
\* meant for one whose writing, or whose successor's opening, met an error
\* (logger.go:210, 214, 219); the errors of one file cost no line of the next,
\* and a writer without errors loses none.
LostOnlyToErrors ==
  /\ \A x \in lost : x[2] \in broken /\ \E i \in DOMAIN out : out[i] = x[1]
  /\ failed => buf = <<>> /\ file \in broken
  /\ ~open => failed

\* The lines handed to writeLine.
Given == {l \in Line : l[2] <= produced[l[1]]}

\* What LogStats reports: a line that is neither in the channel's history nor
\* with a blocked producer is counted as dropped (logger.go:136-159).
EveryLineCounted ==
  Cardinality(Given) = Len(accepted) + dropped + Cardinality(waiting)

\* A day's file is archived once, unless the next one did not open, upon which
\* every line hands it over again: no two workers are ever at work on it, nor
\* is it queued twice, or queued while another holds it or after it was done
\* (logger.go:205-209, 241-245).
OneArchiverPerFile ==
  /\ open \/ file \in stuck \cup {NoFile}
  /\ \A a \in ArchiveWorker : holding[a] \in archived => holding[a] \in stuck
  /\ \A i, j \in DOMAIN archiveCh :
       archiveCh[i] = archiveCh[j] => i = j \/ archiveCh[i] \in stuck
  /\ \A a, b \in ArchiveWorker :
       holding[a] = holding[b] => a = b \/ holding[a] \in stuck \cup {NoFile}
  /\ \A i \in DOMAIN archiveCh : archiveCh[i] \notin stuck =>
       /\ archiveCh[i] \notin archived
       /\ \A a \in ArchiveWorker : holding[a] # archiveCh[i]

\* Stop keeps its word: once run has exited nothing is left in the buffer and
\* every line accepted before Stop was called has left the writer, for its file
\* or, by LostOnlyToErrors, for one that met an error.
FlushedByStop ==
  run = "exited" => buf = <<>> /\ mark <= Len(out)

\* A file handed to the archive workers is never written again: a worker
\* compresses, encrypts and removes it without any lock (logger.go:200-213).
\* Lines that leave the buffer go to the current file, which must be open.
HandedOverIsFinal ==
  [][out' # out /\ buf # <<>> => open /\ file \notin handed]_vars

\* No send on a closed channel, which would panic: archiveCh is closed only
\* when its only sender has returned.
ClosedAfterSender == closed => run = "exited"

\* When Stop returns no archive worker is at work and none has work left.
ArchivedByStop ==
  stop = "returned" => /\ archived = handed
                       /\ \A a \in ArchiveWorker : holding[a] = NoFile

\* The inductive strengthening.  The file lines may still go to has not been
\* handed over, and only a day that is past is.
FileInv ==
  /\ ~open => buf = <<>> /\ file # today
  /\ open => file \in Day /\ file \notin handed
  /\ file <= today
  /\ \A d \in handed : d < today

\* What is queued, held or done is what has been handed over, and a worker
\* leaves only when the queue is closed and empty.
QueueInv ==
  /\ handed = archived \cup ({holding[a] : a \in ArchiveWorker} \ {NoFile})
                \cup {archiveCh[i] : i \in DOMAIN archiveCh}
  /\ \A a \in exited : closed /\ archiveCh = <<>> /\ holding[a] = NoFile

StopInv ==
  /\ mark <= Len(accepted)
  /\ run \in {"final", "exited"} => stop # "idle"
  /\ stop \in {"wait", "returned"} => closed
  /\ stop = "returned" => exited = ArchiveWorker

\* A blocked producer has a line to deliver.
WaitInv == \A p \in waiting : produced[p] > 0

\* Lines leave for their file once and in order, and only the errors of a file
\* keep them from it; those accepted before Stop have left when run has ended,
\* and nothing is sent on a closed channel; inductive.
IInv == /\ TypeOK /\ InOrderOnce /\ LostOnlyToErrors /\ FlushedByStop
        /\ ClosedAfterSender /\ FileInv /\ QueueInv /\ StopInv /\ WaitInv

\* FlushLogs returns: if from some time on no line enters the channel, run, both
\* kinds of worker and Stop do not wait for each other for ever.  The premise is
\* needed: either drain takes lines as long as there are any
\* (logger.go:173, 181).
StopReturns ==
  <>[][accepted' = accepted]_vars => (stop = "await" ~> stop = "returned")
==============================================================================
