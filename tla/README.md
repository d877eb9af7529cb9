# A formal model of go-nodes

go-nodes is a service that watches and manages proxy nodes: nodes report
themselves and their statistics over HTTP, cron jobs probe nodes and URLs and
alert by Telegram, operators provision domains and certificates at DNS and CDN
suppliers and deploy configurations over SSH, and every request is logged by an
asynchronous writer. This directory holds TLA+ modules that model its parts, TLC
configurations that check them on small instances, and proofs for the TLA+ proof
system (TLAPS) that hold for every value of the constants. Paths below are
relative to the root of the repository.

## 1. Inventory

| part | code | state | operations | talks to |
|---|---|---|---|---|
| probe pool | `services/probe.go` | per call: result slice, channel of indices, WaitGroup | `probeAll` | called by both checks and by `YCIpBC` |
| node health | `services/server_stat_service.go:162-247`, `services/other_service.go:413-496` | `errIpMap` under `errIpMu` | `NodeNelNet` (cron, 5 min), `YCIpBC` (goroutine, or called), `SelNodeNelNet`, `GetNodeNelNet` (HTTP) | table `servers`, probe pool, relays, Telegram |
| URL check | `services/other_service.go:346-411`, `repositories/server_urlandhost_repository.go:87-98,132-143` | `errUrlMap`; tables `server_urls`, `server_dicts` | `ApiNelNet` (cron, 7 min), insert, delete | probe pool, Telegram |
| log writer | `middleware/logger.go:57-258` | `ch`, `archiveCh`, `done`, the open file and its buffer, the drop counter | `writeLine`, `run`, `archiveWorker`, `Stop`, `Stats` | every request, file system |
| log archive | `middleware/logger.go:260-396` | the log directory | `archiveFile`, `archiveOldLogs`, `cleanup` | file system |
| caches | `services/server_stat_service.go:73-145`, `services/service.go:80-106` | `tjMap`, `tjHMap` | four read-throughs, `TaskDay`, `TaskHour` | statistics queries |
| server registry | `services/server_stat_service.go:42-67`, `repositories/server_stat_repository.go` | tables `servers`, `server_stats`, `server_logs` | `CreateServers`, `CreateServerStat`, deletions | agents on the nodes |
| domains and certificates | `services/other_service.go:62-342`, `utils/ssl.go` | columns of `server_hosts`; per domain a retry record in `tjMap` | `PostServerDomain`, `UploadCDNDomainCert` (cron, 6 h), `textServerHostBySslAt` | supplier drivers, ACME |
| supplier drivers | `utils/dns.go`, `utils/{ali,cloudflare,huawei,tencent,ucloud}dns.go` | none here; records and CDN domains at the supplier | upsert a record, create or update a CDN domain, upload a certificate | remote APIs |
| nodes and deployment | `services/xray_service.go`, `repositories/server_node_repository.go`, `utils/node_monitor.go` | table `server_nodes`, remote files, `prometheus/nodes.yml` | `GostCon`, `XrayCon`, `XrayInitCore`, `NodeExporterInit`, `NodeMonitor` | SSH, Prometheus |
| hosts, suppliers | `repositories/server_urlandhost_repository.go:10-131` | tables `server_hosts`, `server_supplier_apis` | one or two statements each | the database |
| scheduler, lifecycle | `middleware/taks.go`, `main.go` | cron entries, the HTTP server | five jobs under `SkipIfStillRunning`; signal, `task.Stop`, `FlushLogs`, `Shutdown` | all of the above |
| HTTP, config, models | `controllers/`, `routes/`, `config/`, `database/`, `models/` | none | parsing and wiring | services |

What is hard in each part, and what makes it correct:

* **Probe pool.** Workers write into one slice without a lock. Correct: every
  index is probed once and answered at its own place, at most `ProbeWorkers()`
  probes are active, the call always returns.
* **Node health.** `NodeNelNet` starts `YCIpBC` as a goroutine that outlives its
  tick, so calls of several ticks and of operators overlap. Each counts in the
  shared map under the lock, keeps copies, and may later put its copies in place
  of the *whole* map. Correct: alerts are earned, a recovered node starts
  afresh, a node that stays down is reported.
* **URL check.** Rows change while probes run; an empty table ends the check
  before the counters are replaced. Correct: as above, and a deleted URL soon
  stops being reported.
* **Log writer.** Many producers, a bounded channel with two policies, rotation
  at midnight handing files to workers that remove them, and a `Stop` that must
  order four kinds of goroutines; errors of a write that nobody looks at. Correct:
  accepted lines are given to their file once and in order and only its errors lose
  any, a file handed over is never written again, counters agree, `Stop` flushes,
  and returns once lines stop coming.
* **Log archive.** Several file operations for each day, two workers and the start
  of the process at one directory, a crash anywhere. Correct: a day's log survives
  in one form at least, the next start finishes what was left.
* **Caches.** A read that misses may store its answer after the cache was
  cleared; `tjMap` is also written under another mutex. Correct: an answer
  outlives its period once at most; nobody races for a map.
* **Registry.** Upsert, then delete what is older than *now*. Correct: what was
  last reported is there.
* **Hosts.** A post is two statements with no transaction, and a page may be as old
  as it gets. Correct: children follow their parent, no row is orphaned.
* **Lifecycle.** Signals meet requests and jobs under way. Correct: the process
  ends, and what was accepted is written before it does.
* **Domains, drivers, deployment.** Sequences of remote calls that fail half-way
  and are retried by people or by cron, find-then-create races, lists read
  before and written after seconds of SSH. Correct: a retry completes what was
  begun, no record is doubled, no other deployment's entry is lost, a recorded
  certificate was uploaded.

## 2. Modules

| module | models | theorems in |
|---|---|---|
| `ProbeBatch` | what a caller of `probeAll` is promised (abstract) | |
| `ProbePool` | `probeAll` in detail; `Batch == INSTANCE ProbeBatch` is the refinement | `ProbePoolProofs` |
| `NodeHealth` | the node counters and everything that touches them | `NodeHealthProofs` |
| `UrlWatch` | the URL check and its two tables | `UrlWatchProofs` |
| `AsyncLog` | one `asyncWriter` | `ProcessProofs` |
| `Lifecycle` | `main` from the signal to the end | `ProcessProofs` |
| `NodeMonitor` | `prometheus/nodes.yml` and who writes it | `ProcessProofs` |
| `LogArchive` | the files of past days, over crashes | `StoresProofs` |
| `StatCache` | `tjHMap` and `tjMap` | `StoresProofs` |
| `ServerRegistry` | reports into the table `servers` | `TablesProofs` |
| `HostTable` | the table `server_hosts` as operators write it | `TablesProofs` |
| `NodeDeploy` | the files of one node, and what runs of them | `NodesProofs` |
| `NodeRow` | the row of one node in `server_nodes` | `NodesProofs` |
| `Process`, `Stores`, `Tables`, `Nodes`, `Supply` | components that live in one place, together | |
| `DomainCert` | `PostServerDomain`, `UploadCDNDomainCert`, the issuer | `SupplyProofs` |
| `DnsRegister` | what an upsert of a unique record promises (abstract) | |
| `DnsUpsert` | `DnsUpsertRecord` and five drivers; `Register == INSTANCE DnsRegister` is the refinement | `SupplyProofs` |
| `CdnDeploy` | provisioning and certificates at the four CDN suppliers | `SupplyProofs` |
| `CfRules` | a proxied domain at cloudflare | `SupplyProofs` |
| `MC_*` | the instances TLC checks | |

A component's module EXTENDS nothing but standard and community modules. Five modules
put components together that share a place and no state: `Process` (a log writer,
the end of `main`, the target file: the goroutines of one process), `Stores` (log files
and caches: what the process keeps outside of the database), `Tables` (`servers` and
`server_hosts`), `Nodes` (the files of a node and its row), `Supply` (certificates,
records, CDNs and cloudflare's rules: what is done at the suppliers). Each EXTENDS one of its
components and has the others by `INSTANCE`, with variables of their own; it is what
the runs instantiate and what the theorems are about. Where
one component works on what another does, it takes that as one step which the
other is shown to make: `NodeHealth` and `UrlWatch` take a batch of probes as
`ProbeBatch` promises it, `CdnDeploy` and `CfRules` the upsert of a CNAME as
`DnsRegister` promises it, `DomainCert` an upload that succeeds or fails as `CdnDeploy` has it,
`LogArchive` a file whose lines `AsyncLog` has put there. What they share in the code
and both write is in one model: `StatCache` has the retry records of
`PostServerDomain` in `tjMap` as the second writer of that map. An upsert is an atomic
register for a CNAME only, which the supplier keeps unique; for the TXT record
`CdnDeploy` has the two steps of `DnsUpsert`, the lookup and the write.

A remote call that can be carried out although its answer is lost has three
outcomes everywhere: done and answered, done and answered with an error, not
done. Variables named as history say why something is excused (`disturbed`,
`overlapped`, `overtaken`, `old`, `deployed`, `alone`, `claimed`, `lossy`, `lost`,
`unsent`); no action of a component reads one.

Beside some definitions stands a variant with a telling name
(`CountAlertingEarly`, `RotateUnclosed`): a bug somebody could write there. No
specification uses one; each shows that a property notices that bug.

### ProbePool

`caller` is the position of `probeAll` (spawn, feed, wait, returned), `worker[w]`
and `job[w]` that of each goroutine. A send on the unbuffered channel and its
receive are one action (`Feed`). An answer carries the item it belongs to, so that
storing it elsewhere shows. A panic of a probe would end the process and is left
out.

### NodeHealth

One action is one critical section of `errIpMu` or one batch of probes. `FoldUp`,
`FoldFailed` and `FoldAbsent` are one turn of the loop at
`server_stat_service.go:232`; the result of a row is chosen there, since nothing
reads it earlier. `RelayProbe`, `Count`, `Swap` and `Finish` are `YCIpBC`, once for
each call in flight. Rows may share a key (several servers on one endpoint): one
tick may see that key both failed and up. A key that never answers is in `Down`;
all others answer or fail at will, and their rows may be missing from a tick. If
the query fails or yields no row, the tick does nothing, which is a stutter.

`since[k]` counts the confirmed failures since k last recovered; `overrun[k]` says
that a `YCIpBC` was holding k when it did. The distinction matters: the code lets
such a call count a failure it observed *before* the recovery, or bring the old
counter back by its swap. The properties say what holds nevertheless.

### UrlWatch

Each handler is one SQL statement. `ReadUrls` is the query and `ProbeUrls` the
probes and the fold, which runs under the lock as a whole. Ids are given by
clients, in both tables, so one id may be in both. `late[i]` counts alerts about a
URL after its row was deleted. Errors of the query leave everything as it is.

### AsyncLog

A line is the pair of its producer and its number. Go's channels are sequences
with a capacity; the capacity of `bufio.Writer` is in lines. `file` is named by its
day. A day's change is an action of its own, so it may fall anywhere; a line's
write sees one date (`writeToBuf` and `openCurrent` both ask for the time; an
opening that sees the next day already is the rotation of the next line). Rotation
is one action: `run` alone closes, opens and hands over, and the archive workers see
no file before it is in their channel. `out` holds the lines that have left the writer.
The errors of `w.buf.Write` and `Flush` are ignored (`logger.go:210`, `214`, `219`): a write
that fails puts the rest of what it had into `lost`, and sets `failed`, since a
`bufio.Writer` keeps its first error and takes nothing more, so that each further
line is lost until a rotation makes a new one. `broken` are the files that met an error.
A closed file, or none, takes nothing either. After a failed rotation `w.file` stays, closed, and its date too, so that
each following line rotates again and hands the same path over again: `Rotate`
with `open = FALSE` is that loop. `run = "drain"` is the inner loop `for len(w.ch) > 0`,
which does not look at `done`. `StopBegin` is the call of `Stop`; producers may write
before and after. What a worker does to a file is told by `LogArchive`, here only
which one it holds.

### LogArchive

`dir[d]` has the plain, the gzip and the encrypted file of day d, each whole or not
(a file is in place, and torn, from its opening on). `worker[w]` is the position of
each archive goroutine and of the start of the process (`Main`) in `archiveFile`: one
action for `os.Create`, the copy and its two `Close`s, the reading, the writing of
the encrypted file, each removal. Each may fail (`Works`, `Fails`, counted by `faults`).
`Stop` or a crash ends the process between any two of them; a start opens today's
file, which may fail and creates it with nothing in it (`empty`, until `flushBuf`), goes through `archiveOldLogs` day by day, then `cleanup`; the
reading of the directory may fail in either. With neither `zip` nor `key`, which are
the configuration and stay, `archiveFile` does nothing (`logger.go:260-268`). With a key
and without `zip`, `encryptFile` gives a log up that holds nothing (`logger.go:322`),
which is no failure: `HoldsNothing`. A file of a name that has been removed
and that another goroutine still has open is written to nowhere.

History: `lossy` are the days on which an error of `Close` was not seen, `shared`
those two goroutines held at once, `cleaned` those `cleanup` took, `fellBack` and
`stuck` those where encryption or a removal failed.

### Lifecycle

`main` is at one of its steps: serve, stop the task, flush the info log, flush the
error log, shut down, exited. A cron stops taking jobs and `task.Stop` waits for
none (its context is not looked at); a request logs its line when it is answered.
A log is its channel's length and whether its `run` is on, draining or off; `late`
counts lines that came when it was off. `Shutdown` ends when no request is under
way, or by its five seconds.

### StatCache

For each of the two caches an entry with the period in which the database was asked,
readers at look-up, query and store, and the task that clears. A period is what the code
has an answer stand for: of `tjMap` the day, though `GetServerStatsByDay` counts up to
`NOW()` (`server_stat_repository.go:53`) and so changes with every report, of `tjHMap`
the time between two computations. Whether two
goroutines are in one map at once is told from what each holds: readers and the
day's task hold `tjMu`, `PostServerDomain` holds `domainMu` around the same map.

### ServerRegistry

A report is the upsert of all its rows in one transaction and then a loop of
deletions. Rows are numbered by `ParseBase36Fast2` of app name and node id, one
after the other: digits are modelled as they are, in a base of 4 with the width of
the word in `Word`, so that collisions and numbers the column has no room for
happen. A new row has the time of the report, an updated one the time of its
statement. The two tasks delete by age.

### HostTable

`Page` is a form a browser holds, of a row as it was or of a new one. A post is
`StatusOfChildren`, then `Save`; a mark is two statements as well. Of a new row
`ChildrenOf(0)` are all rows without a parent, as in the code. An insertion that
fails on the unique column still uses up its number.

### DomainCert

Time is in days. The row's `ssl_at`, the pending certificate in the row, and the
retry record in `tjMap` are what the code has; a certificate is its last day and a
number. `Provision` is the switch over the suppliers, `Obtain` and `UploadCert` are
`UploadCDNCert` before and after the issuer, `SaveRow` the insertion. Of the job: the
rows are read once (`cron.copy`), then `Pick`, `CronObtain`, `CronUpload` and
`PutServerHostById` for one after the other, with operators editing, deleting and
posting old forms in between. A row is `renewable` or not: the job and the report
select `scope = 0`, or above 0 with `beian` (`server_urlandhost_repository.go:74`); a form
may change it, and a row that is not is looked after by nobody. A day ends when both jobs have run and all requests
have ended (the job runs four times a day; that one run is enough is the
stronger claim). The issuer refuses after `IssueLimit` certificates in a `Week`,
which `ssl.go:161` takes for success. Ali's certificates have a name for the domain and
the day (`DayNamed`), so a second one on a day that is not the one in place is refused, which
`ssl.go:178` takes for success too: nothing is installed, and the certificate is dropped.
A report of `TaskDay` is counted in `warnings`, or in `unsent` if the query fails or
Telegram is not configured or does not take it (`other_service.go:63-79`).

`disturbed` are domains for which an operator, a restart, the day's clearing of
`tjMap`, a failed statement, an "upload" to cloudflare or one under a name that is
taken may have lost a certificate;
`claimed` those whose `ssl_at` is the guess of 85 days.

### DnsUpsert, DnsRegister

One name and type at one supplier. A call asks for the client, the zone, the
record list, and then creates or updates; it stops at the first error. The drivers
differ in what counts as "as wished" (the TTL is compared by three of them). For a
supplier without a driver the call returns success and does nothing. Whichever
record is listed first is taken for the only one. `DnsRegister` is the promise: a
call takes effect at one moment or not at all. It is made for records the supplier keeps
unique and suppliers with a driver (`Atomic`); any other behaviour maps to a register
that nobody uses.

### CdnDeploy

One module for the four suppliers: `tc` chooses one, and each `Post*` function is the
sequence of its own calls, in the code's order, made of steps they have in common
(`Looks`, `AddDomain`, `Configure`, `VerifyOwner`, `AskCname`, `UpsertTXT`). `txt` are the
TXT records in the zone, which all domains share the name of, and `seen` those the
resolvers answer with: the proof of ownership can fail because the record of
another domain has not gone yet. `FindTXT` looks at the first record only and
`WriteTXT` adds one or changes that one, as `alidns.go:217` and `tencentdns.go:103` do: two
calls leave two records, and a write that would make one what the other is may be
refused. The areas of UCloud are both kept. Of a UCloud domain that was found without
a CNAME it is asked for again, an error of which is ignored (`uclouddns.go:563-565`):
`LookedAgain`.

### CfRules

`rules` is the origin ruleset, in order. `at` is the `Set*` function a request is in,
`step` how far: it reads the ruleset (`seen`), creates one if there is none, looks its
rule up by ref and creates it, or writes the first of that ref back. A rule's expression is a set of
hosts; the two refs of hosts that differ in "-" and "_" only are one. An origin that is an
address (`Address`) goes out as a TXT record (`other_service.go:264-268`), and the CNAME
of the host stays what it was. Of the rules
that name a host cloudflare applies the last (`Setting`).

### NodeDeploy, NodeRow, NodeMonitor

`NodeDeploy` has the files of one node: `GostCon` and `XrayCon` upload (create, then
write) and load; the load of one app loads every app's file. `NodeRow` has the list
of apps in a node's row, which is read, searched with `strings.Contains`, and
written back after the SSH calls; the mark `is_xray`, set when the installer is
started; pages; and the hourly mark. `NodeMonitor` has the reading of the list, the mutex, the temporary
file, the rename and the reload, with the process ending anywhere; `overtaken` are the
requests since whose reading another put its file in place.

## 3. Runs

A run asks one question, or a few of components of one kind. Where several modules
share a run they have no variable in common, and the MC module's `part` chooses,
once for each behaviour, which of them moves: their interleavings would multiply
states and show nothing, as neither can see the other. `MC_ProbePool` likewise has
`NodeHealth` with a threshold of 3 beside the pool whose promise it uses.

| run | question | instance and why it suffices |
|---|---|---|
| `probe_pool` | does the pool keep the promise of `ProbeBatch` and end, and does a lasting outage of a node go on being reported? | 5 items, 3 workers: workers return for a second index, and one is idle at the end. A node that is down and one that comes and goes, 2 overlapping calls, threshold 3 as in the code |
| `node_health` | are alerts earned and recoveries clean? | 2 endpoints over 3 rows (two share one), 2 overlapping calls, threshold 2: an alert needs three rounds, so swaps and recoveries fall between counts. Only one endpoint can be asked about by operators, the two being otherwise alike. Calls are symmetric |
| `url_watch` | are alerts earned, deleted URLs soon silent, lasting outages reported? | 3 ids, one down and one a dictionary entry too, threshold 3 |
| `dict_delete` | is a deleted dictionary entry gone? | expected to fail, see section 5 |
| `process` | do the goroutines that live as long as the process work and end? | log writer: 2 producers of 2 lines, channel and buffer of 2, archive queue of 1 so that a hand-over is skipped, 3 days so that there are two rotations, 2 workers; the same under the block policy with files that may not open or not take what is written, over 2 days. End of the process: 3 requests, 1 job, channels of 2, fewer than the requests. Target file: 3 requests, so that two wait for the mutex, 2 changes of the list, so that a newer one can be overtaken |
| `node_reload` | is "success" what Prometheus did? | expected to fail, see section 5 |
| `domain_cert` | do certificates get from the issuer to the domain and the row, and do they stay valid? | 1 domain, 2 requests, a CDN and a proxy, the job, edits, restarts, for the 2 days on which a row comes up for renewal; and 7 days, one request at a time and nothing that would excuse a loss, in which a row expires and is given up. A certificate lives for 8 days and is renewed for the last 4, so that each boundary of the window is passed; 2 certificates and an issuer's limit of 2 in 3 days, so that a request and the job have one each and then the issuer refuses; 5 faults, one for each day on which the job tries, and reports sent or not; ali's names of the day in both. The row may be one that the job leaves alone: from the start in the 7 days, and in the 2 by a form posted while the job rests. Once a domain of the two days is excused (`disturbed`), jobs and days stand still and operators go on |
| `dns_upsert` | are upserts atomic, and visible? | 3 calls for a unique type with one TTL, 2 contents, 3 creations, each of the 5 suppliers; and 2 calls for a type that is unique and for one that can double, 2 TTLs, the same suppliers and one without a driver |
| `suppliers` | is a success complete, and can every failure be retried? | CDNs: 2 domains, 2 origins, 2 calls at once, 3 in all (one fails, one retries, one is in between; two that overlap have the third before or after them), with the zone's supplier known or not (of UCloud, then, in one area) and one domain at most there before. Cloudflare: 2 requests at once and 3 in all for 2 hosts with refs of their own and 1 port, and 3 one after the other for 3 hosts, two of them alike, with 2 ports; one of these hosts may have an address for its origin |
| `stores` | do log files survive, and are caches fresh? | 3 days, 2 workers, 2 stops, 2 faults: one fault in a process and one in the start that repairs it; caches: 2 readers, 2 provisioning requests, 3 clearings of each cache |
| `tables` | is the latest report listed, do hosts stay consistent? | registry: 2 reporters, 2 apps, 3 nodes, of which one pair is written alike and one number is out of range, 3 ticks; hosts: 2 requests, 2 domains, 3 rows: a parent, its child and a row that comes back |
| `nodes` | does a node run what was deployed, does its row keep what was noted? | 2 deployments at once, 2 apps and XrayR, 2 contents; row: 2 requests, 3 apps, one's name part of another's |

`CHECK_DEADLOCK FALSE` is said of runs whose system comes to an end: the pool and
the log writer stop, days and other bounded inputs run out.

Symmetry is used for values that the modules never compare with anything but
each other (calls, requests, domains, contents), and only in runs without
liveness properties.

Bounds: `CountCap` is one above the threshold, and counters stop there, in the
model's history as in the map: all comparisons are with the threshold. `Call`
bounds calls in flight: a tick that would need one more waits. `MaxLines`, `MaxDay`,
`MaxClock` bound inputs and clocks, `MaxFaults`, `MaxFails`, `MaxStops` the failures,
`MaxRequests`, `MaxId`, `MaxCerts`, `MaxPeriod`, `MaxList` what is ever made.

A lasting outage is checked with nobody asking about nodes. With an operator
asking at the right moments again and again, each time about a failing node, the
swap of `YCIpBC` would throw the counter of the other away before it gets beyond
three.

What the properties say:

* `probe_pool`: `IInv` (indices and phases), `BatchSpec` (the refinement), `PoolReturns`,
  `DownIsReported`.
* `node_health`: `IInv` (no count from before a clean recovery, in the map or in a
  copy that may be swapped in), `AlertsAreEarned`.
* `url_watch`: `IInv` (with `AlertsAreEarned`), `OneLateAlert`, `DownIsReported`.
* `process`: `IInv` (lines leave once and in order, and only those meant for a file that met an
  error do not reach it; flushed by `Stop`; nothing is sent on a closed channel), `OneArchiverPerFile`, `EveryLineCounted`, `HandedOverIsFinal`, `StopReturns`;
  `LifeInv` (only lines of requests answered after the flush are lost), `ProcessEnds`;
  `MonitorInv` (the target file is whole at every moment), `OnlyOvertakenGoesBack` (only a
  request that was overtaken since it read the list puts an older one over a newer).
* `domain_cert`: `CertInv` (an issued certificate is not lost unless something named in
  `disturbed` loses it, a row claims at most a day more than is served), `NoSilentExpiry` (a
  domain whose row the job looks after expires only after a fault on each day of its window,
  and is given up only after a report a day, sent or not; on each day of the window the
  counts keep up), `RowIsProvisioned`, `NoSecondIssue`.
* `dns_upsert`: `UpsertInv` (one record of a unique name; what a call that is alone has
  found is still there), `RegisterSpec` (the refinement), `AnyRecordIsAsWished` (a success
  is visible, two records take two calls).
* `suppliers`: `SuppliersInv` (visitors are sent to a CDN only when it is set up; what a call
  has come by stays, and alone it finds its domain, and the TXT record it is to write, as it saw and made them; rules are shared only
  by hosts of one ref, what a request has read of them is there, and so is what it has
  set), `SuccessIsDone`, `RetrySucceeds` (a call that is alone fails only by an answer of
  its own, because something has not spread yet, or because of a second TXT record), `RulesStay` (one rule of a ref, no host leaves one,
  headers change for their own host), `SuccessIsConfigured` (header, port and a single rule of
  its ref; the CNAME, if the origin is a name).
* `stores`: `ArchiveInv` (a whole copy of each day, two goroutines at one file only after
  a failure), `NothingVanishes`, `StartFinishes` (an
  action property: what the start of a process has done when it comes to its
  end, an empty log that only had to be encrypted excepted), `StatInv` (an entry of one
  period is gone by the end of the next; races for the maps).
* `tables`: `RegistryInv` (the latest report is listed, nothing else is left),
  `HostInv`, `StatusIsOwn`.
* `nodes`: `DeployInv`, `RowInv`, `LostOnlyToOldReads`.

### Fairness

Only what the program does by itself is fair: goroutines are scheduled, probes
and timers end (`utils` gives them timeouts), cron goes on ticking. Requests,
operators, days, failures and signals are not. In `AsyncLog` fairness is of
`RunStep` as a whole: the select of `run` may pick whatever is ready. In `Lifecycle`
main's own steps, the five seconds of `Shutdown` and the goroutines of the logs are
fair; requests and jobs may never end. `StopReturns` and `ProcessEnds` presuppose that
from some time on no line is accepted, no request answered: the draining loop of a log
never looks at `done` (`logger.go:173`), nor does the final one end before the channel is
empty, so a steady flow of lines would keep `Stop` and `main` waiting. Of
`NodeMonitor` no liveness is claimed and no fairness assumed: `http.Post` has no time
limit there (`node_monitor.go:56`) and is called with the mutex held, so that a Prometheus
that accepts and never answers holds up every later request. The modules of stores, tables,
nodes and suppliers have safety and action properties only and no fairness.

## 4. Proofs

Checked by TLAPS for all values of the constants that satisfy the named
assumptions, which say no more than that bounds are natural numbers, that model
values differ from what they are told apart from, and that sets are not empty where
the code ensures it; and of `DomainCert` how its periods relate, which their values
in the code do by far (`2 * Renew + Grace <= Life + 2` says 26 <= 92). Every invariant
below is inductive, as it stands or together with one named before it, is a property
of a run (TLC has checked it), and is a theorem; what a proof needed was put into the
invariant, as a named part of it.

* `ProbePoolProofs` — `IInv` adds to the properties how the caller's phase
  constrains the workers (`Phases`: none is unborn after spawning, none exits before
  the channel is closed). With it: types, `EachIndexOnce`, `CompleteOnReturn`, and
  `Spec => Batch!Spec`. The bound on active probes follows from the injection of
  probing workers into their indices.
* `NodeHealthProofs` — `FreshAfterRecovery` is not inductive: a swap installs copies
  made earlier. `CopiesFresh` bounds the copies of every call in flight as well, and
  `CopiesOwned` says that a call only has copies of its own batch, so that a
  recovery either marks the key as overrun or finds no copy of it. The action
  property `AlertsAreEarned` follows.
* `UrlWatchProofs` — `CountsFresh` (counter at most `since`) and `LateIsOver` (a URL
  reported after its deletion is in no scan any more) make the rest inductive.
* `ProcessProofs` — of `AsyncLog`: `FileInv` (the file lines go to is open and was not
  handed over; only past days are), `QueueInv` (queued, held and done files are those
  handed over; a worker leaves only a closed, empty queue) and `StopInv` (what each
  stage of `Stop` implies). `LostOnlyToErrors` charges each line that did not reach its file
  to an error of that file (`LinesReachTheirFile`): it needs that a writer that has failed
  has an empty buffer, and is of a file that met an error. With it, among others, that lines keep their order
  (`LinesKeepOrder`), that nothing is written after a hand-over (`NoWriteAfterHandOver`,
  an action property), and that no file is queued twice or with two workers
  (`ArchivedOnce`: unless an opening has failed, the queue is strictly older than the
  open file and without repetition). `NoLineUncounted` compares a set, the lines
  handed over, with counters: each line a producer makes is new to it. Of `Lifecycle`: `OnlyLateLines`, where
  `StoppedIsFlushed` ties what a log's channel holds to what came after its `run` was
  off. Of `NodeMonitor`: `NodesFileIsWhole`; that the mutex has one holder is inductive
  together with what the temporary file holds at each of its steps; and
  `OnlyTheOvertakenGoesBack`, from `NotOvertakenIsNew`.
* `StoresProofs` — of `LogArchive`: that the content of each day is kept (`ContentIsKept`)
  rests on `StepIsSafe`, which says for each step of `archiveFile` in which file of its
  day the content is, one the remaining steps leave alone; on `SharedIsNoted` (else
  another goroutine is at other days, and its step stays safe); and on `LogGoesLast`.
  A step is reduced to one day (`FileStepInv`: what a step owes to its day is enough
  for the whole directory), then each action to that. `SharedAfterFailure` carries the
  order of the queue through rotations; `StartHasAll`, that a start has every old log
  before it but those that hold nothing to encrypt, makes `StartFinishesAll` a matter of its last step. `NothingIsLostAtOnce`
  comes out of the same lemmas (`Keeps`). Of `StatCache`: `CachesAreBounded`, where
  `GoneByTheNextClearing` says how far an entry lags behind its period, by what the clearing
  task is at; and which locks exclude what (`LockedIsNoRace`).
* `TablesProofs` — of `ServerRegistry`: `LatestReportIsListed`; a report that was written
  is not later than the latest (`OverlapIsNoted`), so that what another deletes is older
  than every row of the latest. How a number is computed does not matter: rows lie
  under theirs, and two names with one number are excepted by name (`Clash`). Of
  `HostTable`: `HostTableIsKept`, where `ParentsStay` covers the pages browsers hold as
  well as the rows, since a page becomes a row; and the action property `StatusIsOwned`.
* `NodesProofs` — of `NodeDeploy`: `RunsAsDeployed`. What runs is only known while the file
  is, so `UnspoiledIsKnown` follows each file through its deployment; the load of one
  app loads all the files. Of `NodeRow`: `RowIsKept` and the action property
  `NothingElseIsLost`; that a request not marked as old knows the row as it is
  (`SeenIsRow`) makes its write harmless.
* `SupplyProofs` — of `DnsUpsert`: `UpsertInv`, whose parts `UniqueIsOne` and `AloneIsRight`
  make each step of a call one step of `DnsRegister`, at the moment it changes the
  zone or finds nothing to change, or none (`UpsertsAreAtomic`); for any type
  `AnyRecordIsKept`, from `SuccessLeavesTheRecord` and `SecondRecordTakesTwo`. Of `DomainCert`: `CertInv`. That a
  certificate always has a place is inductive together with what a request
  knows of its retry record (`RequestFollows`), with what the job's copy of a row has in
  common with the row (`JobFollows`), and with `RecordIsRecent`: `TaskDay` leaves no
  certificate in `tjMap` for a second day. All are stated for one domain, and an action
  is shown once to leave the others alone. `NoSecondIssue` and `RowIsProvisioned` follow.
  `NoSilentExpiry` (`NoneExpiresInSilence`), of the rows the job looks after, needs `CertInv` and `OnTime`: a row of which `n` days
  of its window have passed has `n` faults (`AFaultADay`) unless it was written since, and
  what is written then starts a window that lies ahead: a certificate issued in one
  window outlasts it, `Grace` included, until the next begins (`RenewalIsDue`; this is where
  the assumption on the periods is used). One answer would pass a day without a fault,
  the issuer's refusal: it cannot happen, as all but one of the certificates it issued
  expire before the row does (`LaterIsAtHand`), too long ago to count, and its limit is
  more than one.
  Of `CdnDeploy`: `PointedAreSetUp`, inductive with `NamedAreThere` (what a call may be at
  says what its domain has). Origins, rules, names and pointers are only ever added, so
  every step of the four drivers is an instance of one lemma (`KeepsInv`: what is there
  stays, and one call goes on to where it may be). `CallsAreRight` (`CallInv`) says what a
  call has come by at each step: what stays so whatever others do (`KeepsOn`), and what it
  finds as it saw and made it if it is alone (`IsRight`). Every step of the drivers comes
  to an `Outcome`: it goes on with what the next step needs (`Fit`), or it ends; so a
  call that succeeds has done all of it (`WhatSucceedsIsDone`), and one that fails has met
  a failure or a delay of its own, or two TXT records (`RetriesSucceed`): alone, `IsRight`
  says that the write of the TXT record finds it as the lookup did. Of `CfRules`: `RulesAreShared`, where
  `SeenIsThere` says that what a request has read are still the first rules with their
  refs, which is what lets it write one back by its position; and the action property
  `SettingsStay`: a request that is alone has read all the rules there are
  (`AloneHasRead`), so that it neither doubles a ref nor drops a host. `RequestsAreRight`
  (`SetupInv`) is the like of `CallInv`: what a request has set (`GotFar`, and alone `HostIsSet`) and
  that no rule sends a host to a port nobody asked for (`OwnPorts`). The last of its steps
  then leaves its host as asked (`SuccessLeavesHostSet`). The header in force is that of the
  last rule for the host: that there is a last one (`LastOf`) follows from the
  well-foundedness of the finite subsets of a set.

Proving changed the models where it showed them wrong. `LogArchive` had a goroutine
wait forever for an archive when neither `zip` nor a key is configured, which the
code leaves at once. `DomainCert` said that a row claims no more than is served, which
held only because the run let the issuer give one certificate: with two, a retried
request can upload yesterday's after the job has renewed the row with today's. What
holds, and is proved, is one day more at most. Its assumption on the periods also had to say
that a certificate that waits outlasts the window (`2 * Renew + Grace <= Life + 2`);
the run had periods that do not satisfy it, and found nothing only within its bounds. `CfRules` chose the rule to write back and
the setting of a host with CHOOSE, of which a proof knows nothing where nothing fits: both are
now said of the first rule, or the last, there is. Elsewhere an invariant that held turned out not to be inductive:
the types of `StatCache`, `HostTable`, `ServerRegistry`, `NodeRow`, `DnsUpsert`, `CdnDeploy` and `CfRules` now also
say how rows, pages, records and requests relate.

Only model-checked:

* liveness (`PoolReturns`, `DownIsReported` twice, `StopReturns`, `ProcessEnds`),
  since TLAPS does not handle `ENABLED`;
* what a fold over a sequence computes (`NumberOf` in `ServerRegistry`): induction over data.

Every invariant and every action property of the passing runs, and both refinements,
are proved.

## 5. What the checks found

* `ServerDictsDel` deletes from `server_urls`
  (`repositories/server_urlandhost_repository.go:142`) while its handler answers
  "删除成功", deleted (`controllers/other_controller.go:31`): run `dict_delete`.
* A reload that Prometheus refuses is logged as failed and returned as nil
  (`utils/node_monitor.go:64-65`), so that `InitNodeMonitor` answers "success"
  (`services/xray_service.go:617`): run `node_reload`.

Behaviour the models make visible and the properties except on purpose:

* *Node health.* A `YCIpBC` that overlaps a recovery can restore the old counter
  (`overrun`).
* *Logs.* A file that cannot be opened at midnight is queued again with every line,
  so two workers may hold it at once (`shared`), and then its archive may be torn
  when the log is removed. Errors of the two `Close`s are ignored and the log is
  removed (`logger.go:291`, `lossy`). `cleanup` runs only when a process starts
  (`logger.go:115`): a process that stays up keeps files beyond the age
  `config.yaml:8` asks for. A writer whose first open failed discards everything
  (`logger.go:196`). Lines logged after the flush are written nowhere and counted
  nowhere (`main.go:58` flushes before the server is shut down). The errors of a write are
  ignored, and after one the writer loses every line it accepts until the next day's
  file is opened (`logger.go:214`, `219`; `lost`). With a key and without `zip` an empty
  log stays as it is at every start (`logger.go:322`), until `cleanup`.
* *Caches.* `PostServerDomain` writes `tjMap` under `domainMu` and everybody else
  under `tjMu` (`other_service.go:231`): the map is raced for, and the runtime may end
  the process. The keys of `tjHMap` are whatever clients ask for. The statistics of the day
  are those of the first request of the day: reports that come later show the next day.
* *Certificates.* "Already issued" is no error and no certificate (`ssl.go:161`):
  PostServerDomain then records 85 days (`other_service.go:332`; `public.sql:128`
  says the column is the date of expiry). A retry finds the record of its domain
  whatever supplier it names: it then sets nothing up at the second, and one that
  names cloudflare "uploads" to nobody. A retry that has yesterday's certificate may put
  it in place of the job's, so that the row claims a day more than is served. A second certificate for a
  domain at ali on one day is refused for its name, which is answered as success
  (`ssl.go:178`): the certificate is neither installed nor kept. Rows with a scope of -1, or
  above 0 without `beian`, are renewed by no job and reported by none
  (`server_urlandhost_repository.go:74`): their certificates run out in silence. A report is not
  sent when the query fails or Telegram is not configured, and nobody learns of it
  (`other_service.go:65`, `76`; `unsent`).
* *Suppliers.* Overlapping creations of a TXT record leave two, and a retry updates
  the first: where the second is what it should become, a supplier that refuses equal
  records refuses every retry (`alidns.go:217`, `tencentdns.go:103`; `Doubled`). An
  address as origin at cloudflare goes out as a TXT record (`other_service.go:264-268`). UCloud's second attempt switches HTTPS on in China only. Names that differ
  in "-" and "_" share one header rule. Two requests that write a port rule at once
  lose a host. Two set-ups at once of one domain may end as neither asked.
* *Nodes.* An installer that only was started is marked as installed
  (`xray_service.go:448`; `public.sql:174`). An app another deployment added, and a mark,
  are lost to a row that was read earlier. Two uploads of one file at once tear it.
  The list `InitNodeMonitor` writes is read before the mutex is taken
  (`xray_service.go:609`), so an older list may be written last (`overtaken`).
* *Hosts.* Posting a new host sets the status of every host without a parent.

## 6. Not modelled

* Names at the suppliers: `SubDomain` and the root are cut with `strings.Replace`, and
  for an apex domain the host part comes out as the root itself; drivers
  normalise this each in their own way or not at all. The models take the name as
  given. Requests, signatures and JSON of the suppliers likewise.
* Rows of `server_supplier_apis`: saved whole and hidden by one UPDATE, read as
  inputs of `DomainCert`. `server_stats` and `server_logs` are only inserted and deleted
  by age.
* `NodeExporterInit` and `LinuxCMD`: a script started on a node, of which neither the
  database nor a file modelled here keeps anything.
* Contents of configurations (versions here), parsing, routing and wiring (no
  state), SSH and HTTP helpers (pure I/O), installation scripts, and the stored
  procedures, which the code only calls by name.
* `PostUCloudCDNAndDNS` is modelled although `other_service.go:250-255` has its call
  commented out: the driver is there, and its certificate upload is in use.
* Telegram, once it has taken a message, is taken to deliver it.
* Not every hazard in `PROJECT.json` has a property: where the code does what it should
  not and the properties except it, or where the hazard is inside one action, a note says so.

## 7. Plan

* Liveness stays with TLC. What a proof can still say about it is the safety half: that
  the guard of a helpful action (`StopReturns`), written out as a state
  predicate, stays true until the action is taken.
* The rounds of `NodeHealth` and `UrlWatch` take their results as `ProbeBatch` hands them
  over; that `ProbePool` hands them over so is the refinement `ProbePoolProofs` proves.
  A module with the pool and a round together would say it end to end.
* The drivers marked partly: names at the suppliers, see section 6.
