------------------------------ MODULE LogArchive ------------------------------
(***************************************************************************)
(* What becomes of the log files of past days (middleware/logger.go): at   *)
(* the start of a process archiveOldLogs and cleanup go through the        *)
(* directory, then the archive workers compress, encrypt and remove each   *)
(* file that run hands over.  The steps are those of the file system; each *)
(* may fail, and the process may stop or crash between any two of them.    *)
(* How lines get into the files is told by AsyncLog.                       *)
(***************************************************************************)
EXTENDS Naturals, Sequences

CONSTANTS
  MaxDay,        \* bound: days the clock goes through
  MaxAge,        \* w.maxAge, in days
  ArchiveQueue,  \* archiveQueueSize
  ArchiveWorker,
  Main,          \* the goroutine that starts the process
  MaxStops,      \* bound: times the process stops
  MaxFaults,     \* bound: operations on files that fail
  None           \* no file

Day == 1..MaxDay
FileType == [whole : BOOLEAN, made : Day]

ASSUME ArchiveAssumption ==
  /\ MaxDay \in Nat \ {0} /\ MaxAge \in Nat \ {0} /\ ArchiveQueue \in Nat \ {0}
  /\ MaxStops \in Nat /\ MaxFaults \in Nat
  /\ Main \notin ArchiveWorker /\ None \notin FileType

NoDay == 0
Kind == {"log", "gz", "enc"}
Worker == ArchiveWorker \cup {Main}

VARIABLES
  zip, key,   \* w.zip, and whether w.encryptKey is set
  today,
  process,    \* "down", "start", "clean" or "up"
  current,    \* the day of w.file, NoDay for nil
  todo,       \* what archiveOldLogs has still to look at
  archiveCh,
  dir,        \* dir[d][k]: the files of day d
  empty,      \* days whose plain log holds no line
  worker,     \* what each goroutine does to the file of which day
  stops, faults

VARIABLES
  lossy,      \* history: days whose gzip file was not closed properly
  shared,     \* history: days whose file two goroutines archived at once
  fellBack,   \* history: days left as a gzip file after a failed encryption
  stuck,      \* history: days whose gzip file could not be removed
  cleaned,    \* history: days cleanup took a file of
  failedStart \* history: something has failed since the process started

mode == <<zip, key>>
queue == <<current, todo, archiveCh>>
history == <<lossy, shared, fellBack, stuck, cleaned>>
vars == <<mode, today, process, queue, dir, empty, worker, stops, faults, history, failedStart>>

Idle == [at |-> "idle", d |-> NoDay, data |-> None]
File(whole) == [whole |-> whole, made |-> today]
Put(d, k, f) == dir' = [dir EXCEPT ![d][k] = f]
Has(d, k) == dir[d][k] # None
Logs == {d \in Day : Has(d, "log")}

\* Some day, the process about to start for the first time.
Init ==
  /\ zip \in BOOLEAN /\ key \in BOOLEAN
  /\ today = 1 /\ process = "down"
  /\ current = NoDay /\ todo = {} /\ archiveCh = <<>>
  /\ dir = [d \in Day |-> [k \in Kind |-> None]] /\ empty = {}
  /\ worker = [w \in Worker |-> Idle]
  /\ stops = 0 /\ faults = 0
  /\ lossy = {} /\ shared = {} /\ fellBack = {} /\ stuck = {} /\ cleaned = {}
  /\ failedStart = FALSE

Works == UNCHANGED <<faults, failedStart>>
Fails == faults < MaxFaults /\ faults' = faults + 1 /\ failedStart' = TRUE
------------------------------------------------------------------------------
(***************************************************************************)
(* archiveFile, by an archive worker or by Main.                           *)
(***************************************************************************)
Goes(w, at) == worker' = [worker EXCEPT ![w].at = at]
Ends(w) == worker' = [worker EXCEPT ![w] = Idle]
aside == <<mode, today, process, queue, empty, stops, cleaned>>

\* With neither zip nor a key there is nothing to do.
ArchiveStart(w, d) ==
  IF zip \/ key
  THEN /\ worker' = [worker EXCEPT ![w] =
            [Idle EXCEPT !.at = IF zip THEN "open" ELSE "read", !.d = d]]
       /\ shared' = IF \E v \in Worker : worker[v].d = d THEN shared \cup {d} ELSE shared
  ELSE UNCHANGED <<worker, shared>>

\* compressAndEncrypt: the log, and the gzip file, which is truncated.
openLog(w) ==
  /\ worker[w].at = "open"
  /\ \/ Has(worker[w].d, "log") /\ Goes(w, "create") /\ Works
     \/ ~Has(worker[w].d, "log") /\ Ends(w) /\ Works
     \/ Ends(w) /\ Fails
  /\ UNCHANGED <<aside, dir, lossy, shared, fellBack, stuck>>

createGz(w) ==
  /\ worker[w].at = "create"
  /\ \/ Put(worker[w].d, "gz", File(FALSE)) /\ Goes(w, "copy") /\ Works
     \/ Ends(w) /\ Fails /\ UNCHANGED dir
  /\ UNCHANGED <<aside, lossy, shared, fellBack, stuck>>

CopyFailureIgnored(w) ==
  /\ worker[w].at = "copy"
  /\ Goes(w, IF key THEN "read" ELSE "removeLog")
  /\ \/ Put(worker[w].d, "gz", File(TRUE)) /\ Works
     \/ Fails /\ UNCHANGED dir
  /\ UNCHANGED <<aside, lossy, shared, fellBack, stuck>>

\* The errors of Close are ignored.  Where another goroutine has removed the
\* gzip file this one is written to a file without a name.
copyGz(w) ==
  LET d == worker[w].d
      next == IF key THEN "read" ELSE "removeLog" IN
  /\ worker[w].at = "copy"
  /\ \/ /\ \E whole \in IF d \in shared THEN BOOLEAN ELSE {TRUE} :
             Put(d, "gz", IF Has(d, "gz") THEN File(whole) ELSE None)
        /\ Goes(w, next) /\ Works /\ UNCHANGED lossy
     \/ /\ Goes(w, next) /\ Fails
        /\ lossy' = lossy \cup {d} /\ UNCHANGED dir
     \/ /\ Put(d, "gz", None)
        /\ Ends(w) /\ Fails /\ UNCHANGED lossy
  /\ UNCHANGED <<aside, shared, fellBack, stuck>>

\* encryptFile reads it all.  Where it is to encrypt a plain log that holds no
\* line it gives up, though nothing has failed.  (A gzip file is never empty
\* but while another goroutine creates it.)
Source == IF zip THEN "gz" ELSE "log"
HoldsNothing(d) == ~zip /\ d \in empty

\* After a failed encryption the gzip file stands in for the log.
NotEncrypted(w) ==
  IF zip THEN /\ Goes(w, "removeLog")
              /\ fellBack' = fellBack \cup {worker[w].d}
         ELSE Ends(w) /\ UNCHANGED fellBack

readPlain(w) ==
  LET d == worker[w].d IN
  /\ worker[w].at = "read"
  /\ \/ /\ Has(d, Source) /\ ~HoldsNothing(d)
        /\ worker' = [worker EXCEPT ![w].at = "write", ![w].data = dir[d][Source]]
        /\ Works /\ UNCHANGED fellBack
     \/ /\ Has(d, Source) => ~dir[d][Source].whole \/ HoldsNothing(d)
        /\ NotEncrypted(w) /\ Works
     \/ NotEncrypted(w) /\ Fails
  /\ UNCHANGED <<aside, dir, lossy, shared, stuck>>

writeEncAnyway(w) ==
  LET d == worker[w].d IN
  /\ worker[w].at = "write"
  /\ \/ Put(d, "enc", File(worker[w].data.whole)) /\ Works
     \/ UNCHANGED dir /\ Fails
  /\ Goes(w, IF zip THEN "removeGz" ELSE "removeLog")
  /\ UNCHANGED <<aside, lossy, shared, fellBack, stuck>>

writeEnc(w) ==
  LET d == worker[w].d IN
  /\ worker[w].at = "write"
  /\ \/ /\ Put(d, "enc", File(worker[w].data.whole))
        /\ Goes(w, IF zip THEN "removeGz" ELSE "removeLog")
        /\ Works /\ UNCHANGED fellBack
     \/ /\ Put(d, "enc", File(FALSE)) \/ UNCHANGED dir
        /\ NotEncrypted(w) /\ Fails
  /\ UNCHANGED <<aside, lossy, shared, stuck>>

\* The errors of Remove are ignored too.
Remove(w, k, to) ==
  /\ \/ Put(worker[w].d, k, None) /\ Works /\ UNCHANGED stuck
     \/ /\ Fails /\ UNCHANGED dir
        /\ stuck' = IF k = "gz" THEN stuck \cup {worker[w].d} ELSE stuck
  /\ IF to = "idle" THEN Ends(w) ELSE Goes(w, to)
  /\ UNCHANGED <<aside, lossy, shared, fellBack>>

removeLogFirst(w) ==
  \/ worker[w].at = "removeGz" /\ Remove(w, "log", "removeLog")
  \/ /\ worker[w].at = "removeLog"
     /\ Remove(w, IF Has(worker[w].d, "log") THEN "log" ELSE "gz", "idle")

removePlain(w) ==
  \/ worker[w].at = "removeGz" /\ Remove(w, "gz", "removeLog")
  \/ worker[w].at = "removeLog" /\ Remove(w, "log", "idle")

compressAndEncrypt(w) == openLog(w) \/ createGz(w) \/ copyGz(w)
encryptFile(w) == readPlain(w) \/ writeEnc(w)
archiveFile(w) == compressAndEncrypt(w) \/ encryptFile(w) \/ removePlain(w)
------------------------------------------------------------------------------
(***************************************************************************)
(* The process.                                                            *)
(***************************************************************************)

\* openCurrent, which creates the file or appends to it.
Opened ==
  /\ current' = today
  /\ dir' = [dir EXCEPT ![today]["log"] = File(TRUE)]
  /\ empty' = IF Has(today, "log") THEN empty ELSE empty \cup {today}

NotOpened == UNCHANGED <<dir, empty>>

\* openCurrent in newAsyncWriter, then os.ReadDir in archiveOldLogs: the
\* files of this prefix but today's.  Either may fail, unheeded.
newAsyncWriter ==
  /\ process = "down" /\ process' = "start"
  /\ Opened \/ (current' = NoDay /\ NotOpened)
  /\ todo' \in {Logs \ {today}, {}}
  /\ \/ current' = today /\ todo' = Logs \ {today} /\ faults' = faults /\ failedStart' = FALSE
     \/ (current' = NoDay \/ todo' = {}) /\ Fails
  /\ UNCHANGED <<mode, today, archiveCh, worker, stops, history>>

archiveOldLogs ==
  /\ process = "start" /\ worker[Main] = Idle
  /\ IF todo = {} THEN process' = "clean" /\ UNCHANGED <<todo, worker, shared>>
     ELSE \E d \in todo : /\ todo' = todo \ {d}
                          /\ ArchiveStart(Main, d)
                          /\ UNCHANGED process
  /\ UNCHANGED <<mode, today, current, archiveCh, dir, empty, stops, faults,
                 lossy, fellBack, stuck, cleaned, failedStart>>

\* Files are removed by their age, and each removal may fail, as the reading
\* of the directory may; the clock's time of day decides on the day of the
\* deadline.
cleanup ==
  /\ process = "clean" /\ process' = "up"
  /\ \E sharp \in BOOLEAN :
       LET age == IF sharp THEN MaxAge ELSE MaxAge + 1
           old == {f \in Day \X Kind : Has(f[1], f[2]) /\ dir[f[1]][f[2]].made + age <= today}
       IN \E gone \in SUBSET old :
            /\ dir' = [d \in Day |-> [k \in Kind |-> IF <<d, k>> \in gone THEN None ELSE dir[d][k]]]
            /\ cleaned' = cleaned \cup {f[1] : f \in gone}
            /\ IF gone = old THEN Works ELSE Fails
  /\ UNCHANGED <<mode, today, queue, empty, worker, stops, lossy, shared, fellBack, stuck>>

\* The first lines reach the file.  Those that a rotation still flushes are
\* taken as written before midnight: until then the file is nobody else's.
flushBuf ==
  /\ process = "up" /\ current = today /\ current \in empty
  /\ empty' = empty \ {current}
  /\ UNCHANGED <<mode, today, process, queue, dir, worker, stops, faults, history, failedStart>>

\* writeToBuf on a new day: hand the file over, unless the queue is full,
\* and open today's.  Where that fails the old file is handed over again
\* with the next line.
Rotate ==
  /\ process = "up" /\ current # NoDay /\ current # today
  /\ archiveCh' = IF Len(archiveCh) < ArchiveQueue THEN Append(archiveCh, current)
                  ELSE archiveCh
  /\ \/ Opened /\ Works
     \/ UNCHANGED current /\ NotOpened /\ Fails
  /\ UNCHANGED <<mode, today, process, todo, worker, stops, history>>

archiveWorker(w) ==
  /\ process = "up" /\ worker[w] = Idle /\ archiveCh # <<>>
  /\ ArchiveStart(w, Head(archiveCh))
  /\ archiveCh' = Tail(archiveCh)
  /\ UNCHANGED <<mode, today, process, current, todo, dir, empty, stops, faults,
                 lossy, fellBack, stuck, cleaned, failedStart>>

\* The process ends, at whatever it was.
Exit ==
  /\ process # "down" /\ stops < MaxStops
  /\ process' = "down" /\ stops' = stops + 1
  /\ current' = NoDay /\ todo' = {} /\ archiveCh' = <<>>
  /\ worker' = [w \in Worker |-> Idle]
  /\ UNCHANGED <<mode, today, dir, empty, faults, history, failedStart>>

\* Starting takes less than a day.
NewDay ==
  /\ process \in {"down", "up"}
  /\ today < MaxDay /\ today' = today + 1
  /\ UNCHANGED <<mode, process, queue, dir, empty, worker, stops, faults, history, failedStart>>

Next ==
  \/ newAsyncWriter \/ archiveOldLogs \/ cleanup
  \/ flushBuf \/ Rotate \/ Exit \/ NewDay
  \/ \E w \in ArchiveWorker : archiveWorker(w)
  \/ \E w \in Worker : archiveFile(w)

Spec == Init /\ [][Next]_vars
------------------------------------------------------------------------------
(***************************************************************************)
(* Properties.                                                             *)
(***************************************************************************)

Steps == {"idle", "open", "create", "copy", "read", "write", "removeGz", "removeLog"}

\* The types; no file is from the future, nor older than its day.
TypeOK ==
  /\ zip \in BOOLEAN /\ key \in BOOLEAN /\ failedStart \in BOOLEAN
  /\ today \in Day /\ process \in {"down", "start", "clean", "up"}
  /\ current \in 0..today /\ todo \subseteq 1..today
  /\ archiveCh \in Seq(1..today) /\ Len(archiveCh) <= ArchiveQueue
  /\ dir \in [Day -> [Kind -> FileType \cup {None}]] /\ empty \subseteq Day
  /\ \A d \in Day, k \in Kind : Has(d, k) => dir[d][k].made \in d..today
  /\ worker \in [Worker -> [at : Steps, d : 0..today, data : FileType \cup {None}]]
  /\ faults \in Nat

\* Who has a file to archive, and what the steps of it are for.
WhoArchives ==
  /\ \A w \in Worker :
       /\ worker[w].at = "idle" <=> worker[w] = Idle
       /\ worker[w].at = "idle" <=> worker[w].d = NoDay
       /\ worker[w].at \in {"open", "create", "copy", "removeGz"} => zip
       /\ worker[w].at \in {"read", "write", "removeGz"} => key
       /\ worker[w].at = "write" => worker[w].data # None
       /\ process = (IF w = Main THEN "start" ELSE "up") \/ worker[w] = Idle
  /\ process = "up" \/ archiveCh = <<>>

\* Goroutines that archive one file at once have been noted.
SharedIsNoted ==
  \A v, w \in Worker : worker[v].d = worker[w].d /\ v # w => worker[w].d \in shared \cup {NoDay}

Readable(d, ks) == \E k \in ks : Has(d, k) /\ (dir[d][k].whole \/ d \in lossy)

\* What one goroutine alone archives is, at each step, in a file that the
\* rest of the steps leave alone.
StepIsSafe(w) ==
  LET at == worker[w].at  d == worker[w].d IN
  /\ at \in {"create", "copy", "write"} \/ (at = "read" /\ zip) => Has(d, "log")
  /\ at = "copy" => Has(d, "gz")
  /\ at \in {"read", "write"} /\ zip => Readable(d, {"gz"})
  /\ at = "write" => worker[w].data.whole \/ d \in lossy
  /\ at = "removeGz" => Readable(d, {"enc"})
  /\ at = "removeLog" => /\ Readable(d, {"gz", "enc"})
                         /\ key => ~Has(d, "gz") \/ d \in fellBack \cup stuck

\* A plain log is whole; with a key, the gzip file of a day goes before its log.
LogGoesLast ==
  \A d \in Day :
    /\ Has(d, "log") => dir[d]["log"].whole
    /\ Has(d, "gz") => zip
    /\ Has(d, "gz") /\ key => Has(d, "log") \/ d \in fellBack \cup stuck \cup cleaned \cup shared

\* A day's log survives, as it was written or archived, every failure and
\* every crash, but for a Close that failed unseen and two goroutines that
\* archived one file.
ContentIsKept ==
  /\ \A d \in Day \ (shared \cup cleaned) :
       (\E k \in Kind : Has(d, k)) => Readable(d, Kind)
  /\ \A w \in Worker : worker[w].d \notin shared \cup cleaned => StepIsSafe(w)

\* Two goroutines hold one file only after a file could not be opened: unless
\* something has failed, the queue and the workers have each past file once.
SharedAfterFailure ==
  faults = 0 =>
    /\ shared = {}
    /\ process = "down" \/ current # NoDay
    /\ \A i \in DOMAIN archiveCh :
         /\ archiveCh[i] < current
         /\ \A j \in DOMAIN archiveCh : archiveCh[i] = archiveCh[j] => i = j
         /\ \A w \in Worker : worker[w].d # archiveCh[i]
    /\ process = "up" => \A w \in Worker : worker[w].d < current

\* While nothing has failed, the start has before it, or at hand, every log of
\* a past day but those that hold nothing to encrypt.
StartHasAll ==
  process = "start" /\ ~failedStart =>
    /\ current = today
    /\ zip \/ key => \A d \in 1..(today - 1) : 
         Has(d, "log") => d \in todo \cup {worker[Main].d} \/ HoldsNothing(d)

\* What the files on disk are, at every moment.
ArchiveInv == /\ TypeOK /\ WhoArchives /\ SharedIsNoted /\ LogGoesLast
              /\ ContentIsKept /\ SharedAfterFailure /\ StartHasAll

\* Something of every day a file was opened for is left (with ContentIsKept,
\* the day itself), and cleanup takes nothing younger than MaxAge days.
NothingVanishes ==
  [][/\ \A d \in Day \ (shared \cup cleaned') :
          (\E k \in Kind : Has(d, k)) => \E k \in Kind : dir'[d][k] # None
     /\ \A d \in cleaned' \ cleaned : d + MaxAge <= today]_vars

\* What a process left half done, the start of the next finishes: unless
\* something fails again no plain log of a past day is left but one to encrypt
\* that holds no line, which stays until cleanup; nor, with a key, a gzip file
\* but where encryption or removal had failed, cleanup taken the log, or two
\* goroutines archived it.
StartFinishes ==
  [][process = "start" /\ process' = "clean" /\ ~failedStart /\ (zip \/ key) =>
       \A d \in 1..(current - 1) :
         /\ ~Has(d, "log") \/ HoldsNothing(d)
         /\ key => ~Has(d, "gz") \/ d \in fellBack \cup stuck \cup cleaned \cup shared]_vars
==============================================================================
