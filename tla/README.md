# NginxPulse in TLA+

NginxPulse reads the access logs of web servers into PostgreSQL and shows
statistics about them. This directory models the parts of it in which several
goroutines, processes and files interact, checks the models with TLC on small
instances and proves part of their properties with TLAPS for every instance.
Paths below are relative to the repository (`src/`), package names to
`internal/`.

Contents: [1 the system](#1-the-system), [2 modules](#2-modules),
[3 runs](#3-runs-and-their-bounds), [4 fairness](#4-fairness),
[5 proofs](#5-proofs), [6 where code and words differ](#6-where-the-code-and-its-words-differ),
[7 not modelled](#7-what-is-not-modelled), [8 plan](#8-plan).

## 1 The system

One process runs a *task loop* (`worker/scheduler.go`), an HTTP API
(`web/handler.go`) whose handlers are goroutines of their own, and a few
goroutines these start. They share package variables behind small mutexes, the
maps of `LogParser`, a JSON state file and the database. A second program, the
*agent* (`cmd/nginxpulse-agent`), tails logs elsewhere and pushes lines to the API.

    web server --> log files --> scan, backfill --+--> nginx_logs, ip_geo_pending
                       |        (the task loop)   |          |             |
                       +--> agent --> POST /api/ingest/logs  |       IP geo worker
                                                  |          v             |
                     POST /api/logs/reparse ------+     statistics <--- labels
                                                       (cache)   override handlers

| Component | State | Operations | Talks to | What is hard | What makes it correct |
|---|---|---|---|---|---|
| Parsing gate, stage, progress (`ingest/log_parser.go`, `parse_status.go`, `parsing_*.go`), task loop | `parsingMode`, stage, progress, `ipGeoRunning`, each under a mutex of its own | start, finish, report; full and range reparse | scan, backfill, reparse and override handlers | state tested under one lock and changed under another; early returns; the first pass of the loop overlaps the next | one holder; what is shown belongs to it; the gate is always given back |
| File scan and backfill (`ingest/log_parser_scan_file.go`, `backfill.go`) | a `FileState` per path, in memory and in the state file | scan from the offset, find the recent window, fill the older part in budgets, save, reset | files, database, gate | rotation, half written lines, failing inserts, crashes between the rows and the offsets | no offset claims a line that is not stored; each line is one row; everything is read in the end |
| IP geo (`ingest/ip_geo_worker.go`, `enrich/ip_geo.go`, `store/repository_ip_geo_*.go`) | queue, cache, failures, overrides: tables | enqueue, fetch, resolve, label, dequeue, recover, override, take back | ingest, remote service, handlers | many small transactions without a lock around them; late answers; crashes | no row stays pending; no answer overwrites the user |
| Agent (`cmd/nginxpulse-agent/main.go`) | offsets, half lines, buffer, backoff, all in memory | poll, push, retry, exit | files, API | half lines, a full buffer, timeouts, restarts | nothing read is lost before it is acknowledged |
| Push ingestion, de-duplication (`IngestLines`, `ingest/dedup`) | cache of seen lines | one request: lines, batches, answer | agent, database | a request and its repetition at the same time | what is acknowledged is stored |
| Batch insertion (`store/repository_insert_*.go`, `repository_ip_geo_misc.go`) | log rows, dimension tables, counters, first sights, sessions and their state | one transaction per batch, repeated after a deadlock | scan, push, maintenance | two batches lock the same rows; a batch is sent again; batches come in any order of time | one row per line; every counter is what a recount would give, and the sessions are sound; every batch ends |
| Schema, migration, retention, clearing (`store/repository_schema.go`, `repository_backfill.go`) | the same tables | delete by age, by range, all; recount; import the tables of earlier versions | task loop, reparses, start | many statements without a transaction while batches are open; failures and crashes between them | names stay while rows use them; a rebuild repairs what a failure left |
| Remote sources (`ingest/source_scanner.go`, `source/`) | a `TargetState` per object | list, compare, read whole or a range, reparse a range | SFTP, HTTP, S3 | objects replaced or extended while they are read, bodies that break off, servers that ignore ranges | as for files |
| Export jobs (`web/logs_export_jobs.go`, `analytics/logs.go`) | job map, files | create, cancel, retry, run, expire | statistics, the table of rows | pages with offsets while rows come and go; cancelling against finishing | a success has a whole file with every row once; no file is left over |
| Notifications, alert push (`ingest/notifications.go`, `whitelist.go`, `alertpush`) | rows of `system_notifications` | record by fingerprint, flush hits, list, clear, send to channels | ingest, API | early returns between counting and writing; a list that moves while it is paged; channels that fail | each hit told once; each notice listed; each channel tried |
| Statistics and cache (`analytics`) | a cache with expiry | overview, chart, sessions, lists, one day, realtime; clear | derived tables, rows, API, ingest | the same figure from different tables with different bounds; a result computed before the clear and stored after it | what different pages show of the same rows fits together; no answer older than its expiry |
| Update check (`version`) | a cached answer | fetch, expire | remote service | concurrent misses | an answer no older than its lifetime |
| Parsing of lines, filters, whitelist, configuration, HTTP servers, demo data, web interfaces | none that others share | | | | |

## 2 Modules

| Module | Models | Checked with | Proved in |
|---|---|---|---|
| `ParseGate` | gate, stage, progress, the gate of the resolver, the loop and handlers that use them | `MCServices` | `ServicesProofs` |
| `FileScan` | plain log files of one website: scan, backfill, reparse, state file, restart | `MCFileScan`, `MCFileScanBoth`, `MCEventually` | `FileScanProofs`, `FileScanBothProofs` |
| `IPGeo` | queue, cache, cooldown, worker, recovery, override handlers, ingesters | `MCIPGeo`, `MCEventually` | `IPGeoProofs` |
| `AgentPush` | one route of the agent and the handler of its requests | `MCAgentPush` | `AgentPushProofs` |
| `DerivedTables` | what each derived table of a website holds, as functions of its rows | with the two below | `DerivedTablesProofs` (lemmas) |
| `LogStore` | the tables of a website and everything that writes them | `MCLogStore` | `LogStoreProofs` |
| `StoreContract` | abstract: batches stored at once or not at all, once each, and counted | implemented by `LogStore` | `LogStoreProofs` |
| `Statistics` | the requests that read the tables, and the cache before them | `MCLogStore` | `StatisticsProofs` |
| `Website` | `LogStore` and `Statistics`, one of them in each behaviour | `MCLogStore` | |
| `LogsExport` | export jobs and the pages they read | `MCServices` | `ServicesProofs` |
| `RemoteTarget` | the poll of one object of a source | `MCServices` | `ServicesProofs` |
| `Notices` | notifications, the whitelist's hits, the channels of alerts | `MCServices` | `ServicesProofs` |
| `Services` | `ParseGate` with the three above, one of them in each behaviour | `MCServices` | `ServicesProofs` |

`Services`, `Website`, `MCFileScanBoth` and `MCEventually` bring several
models into one run. The models they bring together share no variable, so one
behaviour is a behaviour of one of them, with the fairness of its own
specification, and the others keep a first state. `Services` and `Website` extend the
models they bring together; `MCServices` and `MCLogStore` give them their values.

Definitions that begin with the comment "Mutant of" are never part of a
specification. Each is a small mistake one could make in the definition it
names; putting it in that place makes some property fail, which shows that the
property looks at that line of the code. Variables and record fields named
*history* are read by properties only, with the exception of those that count a bound
(`spent`, `faults`).

### ParseGate

A worker is a goroutine with a program counter. `Tasks` run
`ExecutePeriodicTasks`: choose the stage, `StartScan` or `ScanRefused`, the
sites, the three steps of `finishIPParsing`, then the backfill and the
resolver. `Reparsers` are requests, full or for a range, with the clear that may fail.
`Resolvers` are the goroutines of the override handler. A step is what
happens under one lock: `startIPParsingWithStage` takes several locks
but holds `parsingMu` all the time, so it is one step; `finishIPParsing`
releases `parsingMu` first and is three (`ReleaseGate`, `ResetStage`,
`FinalizeProgress`). Bytes are abstracted to `0..MaxBytes`.

### FileScan

The server appends to the live path, which is renamed to the rotated path.
Positions are half lines: line *k* fills the cells 2*k*-1 and 2*k*; an odd size
is a half written line. A line is its time stamp; a row is a line with the
*drift* of the offset in its fingerprint (`buildLogLineFingerprint` hashes
path, offset and text). `StatFile` is `scanSingleFile` up to the first
read, `LocateRecent` is `findRecentOffset`, `ReadLine` one turn of
`parseLogLines` with the batch it may complete, `EndFile` the last batch
and `setFileState`. `ScannerStops` is the other end of a scan: in front of a line that a
`bufio.Scanner` does not take (`LongLines`), of the rest of one, or at a read that fails, the state is set as at the
end of the file, and what the scan left unread is passed for good; the history `dropped` has those lines (`Unread`) with
those of batches whose insert failed. `OpenFill` to `StopFill` are `backfillPlainFile` with its
budget, which reads lines of any length; `ClearLogs` and `ResetScanState` are `TriggerReparse`; `Restart` is
`loadState` with `resetStateIfEmptyDB`, whose question to the database may fail (`HasLogsFails`) and then leaves the state as it is. The clock is the cutoff of the recent
window. One website: the states of different websites do not meet. The gate is taken from
`ParseGate` (theorem `GatesExcluded`), so one job runs at a time. A half line is
taken not to parse. `lastOffset` is the size that was seen when the file was opened
although the scanner reads on to the end, as in the code.

### IPGeo

A row is a line of one website. Every step is one statement or transaction of
the database, and each may fail (`MaxFaults`). Two kinds of process settle
IPs from the cache, the ingesters (`enqueueBatchIPGeo`) and the worker, and share
`ReadCache`, `SettleSite` and `Enqueue`. The worker goes on with `Resolve`
(any answer, no answer, or a request that fails), `Store`, `Record`,
`SettleSite` per website, `Dequeue`, and, when the queue is empty, the recovery
from the logs (`Collect`, `Relookup`). The handlers save an override (`Save`) or
take it back (`Reset`) and relabel the websites one by one. Sessions are labelled in the same transactions as
logs and are not kept apart. The process's own cache of answers, which
only repeats an answer, and a queue longer than one fetch of 500 are left out. The
read of a cache entry and its removal when it is of no use are one step.

### AgentPush

Cells and halves as in `FileScan`. `Poll` is one `readNewLines` with what the
main loop does with its result; `LinesRead`, `EndOf` and `PartialOf` are the lines,
the offset and the half line it leaves. `Send` hands the whole buffer to a handler;
`Timeout` leaves the handler working, so that the repetition may be handled
at the same time (`TakeLine`, `EndOfLines`, `Insert`, `InsertFails`). Durations are
whole units; `Elapse` is the end of the wait. The cache of seen lines may
forget any entry at any time (`Expire`), which covers both its age and its limit.
A process that exits is started again. `readBase`, `acked`, `missed` and `dropped` are history: which file
the offset is about, what was acknowledged, which lines the agent could not
read (rotated away before, in front of the first tail, behind a failed read), and which were in
a batch that failed after they were marked as seen.

### LogStore, DerivedTables and StoreContract

`DerivedTables` is read off the statements that compute a derived table from the
rows: counters by hour and day, the addresses of a day, first sights, sessions
(cut where a visitor pauses for longer than `Gap`), sessions by day and by entry page. `LogStore`
keeps the same tables incrementally, as the program does. A transaction of a batch (`Begin` to `Commit`) finds or creates the ids of its
addresses and pages, inserts its rows against the unique index, opens or extends
sessions visit by visit, and adds to the counters as it commits; what it inserted
or locked makes others wait (`Waits`), a circle of waiting ones loses a member
(`DeadlockVictim`), which is repeated up to `MaxAttempts` times. A maintenance job is a program, a
sequence of statements that commit one by one (`CleanProgram`, `RebuildProgram`
and the like), each of which may fail or be followed by a crash. One job runs at a time: scans, backfills and reparses exclude one another by
the gate, but the retention (`CleanOldLogs`, called by the loop before it asks for the gate) does not and may overlap the clear or the
rebuild of a reparse; that is left out (section 7). `lag` is a history: the tables
that a statement left behind the rows and that nothing has repaired since;
`lost` the ids that were removed under an open batch.

`StoreContract` is what the callers rely on: a batch is stored in one step or not at
all, a line with a fingerprint once, and its counters change in the same step. `LogStore` implements
it (`StoresAsPromised`): the committed rows are its rows, a commit is its
`Insert`, and everything a transaction does before is a stutter.

### Statistics

A query is its kind, its range, its view and its filter. `Plan` is the list of statements its
manager executes and `Figure` what each of them reads, from the tables of days when
the pages are not filtered and from the rows when they are (`Column`, `Visitors`,
`SessionCount`), each a function of the rows, the time and which tables there are
(`Db`, the parameter `db`); `CompareRanges` is the part with the preceding range, the same time
of it, and the forecast. `Answer` puts the result into the cache. Rows, seconds and clears come between any two
statements. A day has four seconds and two hours, a week two days: the ends of the
ranges (`LastSecond`, `LastHour`) then meet the first and last seconds of days, of
weeks and of months that the lines lie in. The counters, the addresses of a day and the first sights are read as recounts of the
rows, which is what `LogStore` says of them (`TablesExact`). The session tables are not: `sessionTable` has the sessions as
`updateSessionFromLog` makes them, page view by page view in the order of insertion (`Insert`, `OpensVisit`), begins as a rebuild leaves it
(`Rebuilt`), and leaves out page views that are older than the last one of their visitor (`ComesLate`); the history `skipped` has their visitors.

### LogsExport, RemoteTarget, Notices

`LogsExport`: a row is a number, its place in time; a page is the rows whose rank in the
table (`Rank`) lies in a window, which is what ORDER BY with LIMIT and OFFSET gives. A query
has a form (whether the total is counted, whether the page is cut before the names are joined, the
order), on which it depends when the job stops (`More`). `Look` is any request, which drops the jobs
nothing touched for a day. `RemoteTarget`: positions are bytes, `kind` says what a source tells of an
object and whether it serves ranges, `Poll` goes from the comparison (`Unchanged`, `Shrunk`, `Retagged`)
through the request for the body to the batches and the state; the lines of a batch, where each is
read from and what is counted before it have a closed form (`Taken`, `CountedBefore`). An object is written in lines or in parts of lines
(`WritePart`): a poll takes the half line at its end for a line, and the offset passes it (`CutAt`, the history `lostLines`). In front of a long line, which stays,
every poll stops again (`ScannerStops`). `Notices`: an ingester counts hits for
the batch it has, adds them to its own when the batch is committed, and flushes those at its end, except that a push whose batch fails
answers with an error at once and flushes nothing (`BatchFails`, the history `hitsLost`). Lines of a committed batch whose rows were there already are dropped by the
unique index, but their hits count all the same: any lines of a batch may be such (`StoreBatch`), and the history `reread` counts them apart from `stored`. a row of a notice is its count, its read mark and the time it occurred last, and
its place in the list is how many notices occurred after it (`Ahead`).

## 3 Runs and their bounds

| Run | Configuration | What it shows |
|---|---|---|
| `file_scan` | `MCFileScan.cfg` | two logs. One of two generations of two lines, watched under both names, with a crash and a reparse, a line of it too long for the scanner: offsets in memory and on disk never pass a line that is not stored nor behind a scanner that stopped; only the cutoff's own second falls between the windows. One with half lines, lines out of order, failing inserts, searches, saves and clears: types, one row per line, the backfill never goes back |
| `eventually` | `MCEventually.cfg` | files with a rotation, CR LF, a crash and a line too long for the scanner: every line is stored in the end, but for those that a stopped scan passed; the IP of a row with a failing call, a crash and an edit: every pending row gets a location |
| `ip_geo` | `MCIPGeo.cfg` | a row of one IP on each of two websites, an ingester outside the gate, an edit, a failing call, a crash: an IP leaves the queue after its rows are labelled; the user's label stays |
| `agent_push` | `MCAgentPush.cfg` | three lines, the third too long, half lines, rotation, a first tail, a full buffer, a lost, late or failing call, a crash, two requests at once: nothing read is lost before it is acknowledged, only whole lines are pushed, what is acknowledged is stored |
| `agent_push_live` | `MCAgentPushLive.cfg` | two lines, a failing call and a crash: everything within reach is stored in the end |
| `log_store` | `MCLogStore.cfg` | two goroutines with batches of the same visitors and pages, deadlocks, failures, a crash, and retention, clearing, range reparse and migration between them: counters and first sights are exact, sessions are sound, names stay, a rebuild repairs, every batch ends, `StoreContract` is implemented. Requests of every kind over chosen tables and times: overview, chart and sessions fit together, comparisons are ordered, the other pages leave nobody out, no answer outlives a clear and its expiry |
| `services` | `MCServices.cfg` | the gate with a task, a reparse and an override goroutine over two sites; export jobs of every form with inserts, removals, cancels, retries, a day and a restart; remote objects of six kinds of source, half written, with a long line, replaced, extended, broken off, reparsed, with crashes; notices with hits, failures, tests, paging and clearing |
| `file_scan_torn`, `file_scan_reparse_crash`, `ip_geo_remote`, `agent_push_retry`, `same_time` | | disagreements, see section 6 |

Why these bounds are enough to meet the hazards they are for:

- *ParseGate.* The interferences are between one holder and one that waits or
  has just left; one worker of each kind gives them, and two sites let a scan be
  between sites. A second task would only double the interleavings; the invariants are
  proved for any number of workers.
- *FileScan.* Two lines and a batch of two give a full and a partial batch, and two lines on the
  two sides of the cutoff; two generations give a rotation in every state of a job. The faults are split over
  two logs so that the run ends within minutes: what they do together is covered by the theorems of
  section 5, which allow all of them.
- *IPGeo.* One IP is enough because every statement is about single IPs except
  the fetch; two websites make labelling partial. One fault at any statement, one
  crash and one edit each hit every step.
- *AgentPush.* Two lines fill the buffer and the batch; the third is left behind
  a read that stopped. Two handlers are a request and its repetition. With
  `BackoffMin = BackoffMax` the second failure in a row reaches the exit.
- *LogStore.* Two visitors who ask for the same two pages in opposite orders
  lock in opposite orders; a third batch sends a line again and has one that is
  earlier and is not a page view. A retention limit in the middle of a day and a range that begins and
  ends within an hour make each recount partial. Batches at once, jobs against batches and faults are spread over
  four budgets, of which each behaviour has one.
- *Statistics.* One request sees one table, so each query over each table and each of
  five times is enough for what fits together; two requests, three seconds and two
  clears are the race for the cache; the third case has an insertion, a second and
  a failing statement in the middle of a request. One case inserts a page view that is older than its visitor's last, in front of either session
  table.
- *LogsExport.* Three rows in pages of two make a full and a short page; rows
  inserted in front, between and behind, and one removed, while one page or the other is read. *RemoteTarget.* An object, the one that replaces it, a fault or a
  crash, and lines of two characters, so that a body, or a write, can end inside a line; the long line is the last of the second object in some behaviours and comes
  before another in others.
  *Notices.* Two rules, batches of two out of four lines, pages of one notice, two channels.

`CHECK_DEADLOCK FALSE` stands where the bounds on lines, faults and edits make
the instance stop: when all is written, stored and labelled nothing is
left to do.

Abstractions that matter for reading the results: in `IPGeo` at most one handler runs
at a time (two would mix their transactions, see section 7); in `AgentPush`
the rows of a request are a set of texts, because the stream fingerprint is a hash of source and
text, so two equal lines are one row by design of the code; in `RemoteTarget` a row of a line read from its middle is not a row of that line.

## 4 Fairness

- `ParseGate`: weak fairness of what a goroutine does by itself once called
  (`Run`). No call is promised: no ticker and no request. A scan ends because a
  pass of `AddProgress` is not required and the files are finite.
- `FileScan`: weak fairness of a pass that has begun; strong fairness of
  starting a scan and a backfill, since `RunScheduler` tries both in every period
  for as long as the process lives, and each is refused only while another pass
  holds the gate, which `GateReleased` shows to end. Writes, rotation, crashes and
  reparses are not fair, they are bounded.
- `IPGeo`: weak fairness of the worker (the loop calls it in every period), of
  ingesters and handlers that have begun, and of the end of the 12 hour cooldown, which is the clock.
- `AgentPush`: weak fairness of the agent's two tickers with the wait between
  pushes, and of each handler of the server. Nothing makes a request arrive: the
  property needs the faults to be finitely many, which `MaxFaults` says.
- `LogStore`: weak fairness of each transaction, which is a running goroutine or is
  ended by PostgreSQL's deadlock detection, and of the next statement of a job. Failing is not fair.
- `LogsExport`: weak fairness of the goroutine of each job. `RemoteTarget`: weak fairness of the
  poll, for the loop comes again in every period. `Notices`: weak fairness of the
  goroutine of each push; a channel is taken to answer or to fail, which the HTTP
  channels do after their timeout and email does when the server answers at all.
- `Statistics` has none: its properties are of answers that were given.

## 5 Proofs

All proofs are for every value of the constants that the `ASSUME`s of a module allow.

| Theorem | Says | Under |
|---|---|---|
| `ServicesProofs!TypeCorrect`, `GatesExcluded` | types; mutual exclusion of the gate, that the mode agrees with what its holder does, and one resolver | |
| `StatusShown` | stage and site shown are the holder's and none is left behind; progress within the total | |
| `PeriodicNotFirst` | no scan announced as periodic is the first of a site | |
| `ExportFiles`, `ExportCancels` | a file that is offered is whole, and no other is left over; a cancelled job is no success | |
| `ExportRows` | an exported file has the rows of the table once, whatever comes and goes while it is written | |
| `RemoteLines`, `RemoteOffsets` | a line of a remote object has one row; its offset, in memory and saved, passes no line that is not stored, old, failed or cut, in objects written in parts, with lines of any length | `~Crlf` for the first |
| `NoticeHits`, `NoticeList` | each hit of a committed batch, lines read again included, is told, held, cleared or lost once; who pages to the end has seen every notice that stayed | |
| `FileScanProofs!TypeCorrect`, `NoDuplicates` | types; one row per line | `~Crlf` for the second |
| `NothingLost` | offsets in memory and in the state file are accounted for, with crashes, rotations, failing inserts, searches and reads, and lines too long for the scanner, in files of any length | `Benign` |
| `WindowsMeet` | between the recent window and the backfill only the cutoff's own second can fall | `Ordered` |
| `FillsForward` | the backfill never goes back, and the end of its part stays, whatever scans set the state in between, until a restart or a reset | |
| `FileScanBothProofs!NeverBackHolds` | the same for both logs of the run, with the types and one row per line of the one about which everything may fail | |
| `AgentPushProofs!TypeCorrect`, `AcknowledgedStored` | types, the buffer within its limit; what the agent lets go of is stored, or in a request that is handled, or in a batch that failed | |
| `ReadsAccounted`, `LinesWhole` | no line is lost between the file and the answer 200 without being counted as missed; what is pushed are whole lines | |
| `IPGeoProofs!TypeCorrect`, `LabelledBeforeDequeue` | types; an IP leaves the queue only when the rows it was queued for are labelled | |
| `ManualLabelStays` | the user's label stays as long as the override | `OneHandler` |
| `LogStoreProofs!LogStoreTypes` | types: ids given out before they are used, sessions that end after they start, bounded repetition | |
| `IdsOfRows` | the ids of every row are in their tables or were removed while in use | |
| `FingerprintOnce`, `OneRowPerFingerprint` | a line with a fingerprint has at most one row, in `LogStore` and in the abstract store | |
| `ImplementsContract` | `LogStore` implements `StoreContract`: every step of its transactions and jobs is a step of the abstract store or none | |
| `TablesAreExact` | the counters, addresses and first sights are what a recount of the rows would give, the counters of sessions what one of the sessions would, but for what a statement left behind | |
| `SessionsAreSound` | sessions of a visitor lie `Gap` apart and count at most the page views that are stored in their time; `session_state` names the last one | |
| `RebuildLeavesNothing` | a range reparse that runs to its end leaves no derived table behind | |
| `StatisticsProofs!StatInvHolds` | an undisturbed request has the figures of the rows and the time there are, and lacks only those still to read | |
| `OverviewsAgree` | chart, overview, visitors and sessions of a range fit together, for any rows and any of the ranges, with session tables kept page view by page view; only visitors with a page view that came late are counted apart | |
| `ComparisonsAreOrdered` | up to the same time the preceding range has no more than in all; no less is forecast than there is | |
| `PagesAreWhole` | the sources, the developer's day and the realtime series leave nobody out | |
| `AnswersAreCurrent` | an answer from before a clear raced with it, and expires | |

`Benign`, `Ordered`, `OneHandler` and `~Crlf` are formulas over the constants or, for `OneHandler`, the number of
handlers that edit; section 6 and 7 say what happens without them.

*Services.* The lemmas of each of the four parts come first, about that part alone, and end in a theorem of the form
`Constants => (Init /\ [][Next]_vars => []P)`, without the fairness, which no safety needs.
Each step of `OneNext` is a step of one part and a stutter of the others, and the assumptions of
`LogsExport`, `RemoteTarget` and `Notices` (finite tables, pages and batches of at least one row) are
`ASSUME`s that TLC evaluates: so `Export...`, `Remote...`
and `Notice...` are about `OneSpec`, the specification that the run checks.

*ParseGate.* `GateExclusive` with `TypeOK` is inductive. `PeriodicIsNotFirst`
is not: the stage is chosen before the gate, from a set of sites a reparse may reduce in between.
The strengthening `PeriodicCovered` says: while a worker that wants "periodic" waits, each of its sites that is not
parsed is one that the running reparse still has to begin; so when the gate is free, none is missing.
`IndInv` is the conjunction of all.

*FileScan.* `TrueOffsets` (every row has drift 0) gives `NoDuplicates`; it fails
with CR LF because the code adds one byte for a line end of two, which is why
the theorem assumes `~Crlf`. `NothingLost` assumes `Benign`, a formula over the constants: lines are written whole, and, when the user may
reparse, clearing and saving do not fail half way, the question whether there are rows does not fail at a start, and no other website has rows (`file_scan_torn` and
`file_scan_reparse_crash` show what happens otherwise). Scans may stop in the middle of a file: what they leave unread is `dropped`, and the lemma on `ScannerStops` shows that the
offset passes nothing that is neither read nor in `Unread`. Its invariant relates four views of a line: the
state in memory, the saved state, the job in progress with its batch, and the rows. `Grows`
says what never shrinks (files, rows, the cutoff), and each lemma `...Keeps` shows one action
to keep each view accounted for.

*AgentPush.* A read is the hard part: which lines it returns depends on how many fit,
and lines too long do not count. `PlaceTaken` (the elements of a finite set of integers have places 1, 2, ...
without gaps) gives that `LastOf` and `LinesRead` are what their `CHOOSE`s ask for (`LastRange`, `LinesType`), and `ReadReturns` that
each line between start and end is returned or too long. `ReadAccounted` is then inductive together with the types and
`Shape` (the offset is not past the file it is about). `WholeLines` is not: it needs `HeadKept`, that an offset in the middle of a
line has its first half kept, or the line is too long or missed. `AckedStored` needs that each seen text is stored (`SeenStored`), that a request answered 200
has no line and no batch left (`DoneEmpty`), and that of the request the agent waits for each line is stored or still to be
read (`Waited`); requests nobody waits for any more go on in the same proof. `RetryStores`, which excuses no failed batch, is refuted by
the run `agent_push_retry`: `dropped` in `AckedStored` is there for that reason.

*IPGeo.* `TypeOK` is not inductive alone: it needs `StoreReady` (what the worker is about to put into the
cache is an answer) and `HandlerReady` (what a handler is about to write is a location or "pending"). `Owed` follows a
row that was pending when its IP was fetched through the steps of the worker: its IP is to be looked up, then has an entry, then the
row's site is still to be visited, and at the dequeue the row is labelled. The steps of other processes may
make such a row pending again only when the user edits its IP, and the model takes the row off the debt there
(`run.owed`), because the handler then queues the IP again. `ManualStays` needs `HandlerMatch`: what a handler writes
over an IP with an override is the override. Two handlers on one IP break it (section 7), hence the assumption.

*LogStore, the rows.* Everything rests on `Shape` (the types, and that a database of an earlier version is migrated before
anything else happens). `NoDangling` alone says nothing of open transactions; `IdsInv` adds what they have found so
far: each id is new (`FreshAlone`: then nobody else has created it, and it is not in the table yet), or is in its table, or
was removed while in use (`IdsKnown`); a transaction that inserts rows has the ids of all its lines (`Reach`).
`FreshAlone` holds because a transaction waits for one that has inserted the same value (`NotFresh`). `FingerprintOnce`
needs that the rows of an open transaction are neither stored nor another one's (`OneRowEach`), which is what waiting at the unique
index gives (`InsertedAlone`). The deadlocks and repetitions are covered because a transaction that starts again has forgotten everything (`Restarted`).

*The refinement.* `ImplementsContract` is by `RefineInv`: what a transaction has inserted when it looks at its sessions is
its batch, each line with a fingerprint that is not stored yet once and each line without one as often as the batch has it
(`Fulfilled`), and its batch is one of the batches in another order (`Rearranged`). A commit then is the contract's `Insert`, and every other
step of a transaction leaves the committed rows and the counters of days alone. That the counters grow by those of the batch needs sums over finite sets:
the sum of a union of two sets without a common element, and that sets of equally many lines have the same sum, are proved by the
well-founded order of finite subsets (a smallest set for which it fails), because induction itself takes an operator.

*The tables.* `TablesInv` is what `TablesAreExact` and `LogStoreTypes` come from. `TablesExact` is not inductive. It needs that a row has a number of its own and is of
one transaction only (`RowsInv`), that the same holds of the sessions, and that what is named in `session_state`, in a cache or in
an update was opened, and not after the time it is named with (`SessInv`); that a
transaction still looks only at rows of its own (`VisitsInv`); and that a clear, which empties the rows first and the counters
statement by statement, has said in `lag` what is behind until it comes to it (`JobInv`). Each incremental
update of a commit (`AddHourly`, `Earliest`, `AddSessions` and the like) is then shown to give what the recount gives on the rows
with the batch, each recount to give itself, and each removal either to be recounted in the same statement or noted in `lag`.
`RebuildLeavesNothing` is an action property: `RebuildInv` says which kinds of table can still be behind by how many of the six statements are left,
whatever batches commit in between.

*The sessions.* `SessionsInv` adds to `TablesInv`: who holds the lock of a visitor's row is one transaction (`LocksInv`); what is named for a
visitor is a session of that visitor (`OwnInv`); an entry, in `session_state` or a cache, says when the session it names ends as far as that
transaction sees, and an update never shortens one (`EndsInv`); of two sessions of a visitor,
in the table or as an open transaction would leave it, one ends more than `Gap` before the other starts, and the one named is the last (`SepInv`), except for visitors a job has
blurred; `session_state` follows the table where it is not in `lag` (`StateInv`); `InsertState` comes only directly after
`DeleteState`, so it meets no entry (`CleanInv`); and a session counts at most the page views that are stored in its time and those that its
transaction has looked at, which it looks at once each (`PagesInv`, `VisitsOnce`). The locks make
the proof work: without `LocksInv` two batches of one visitor would each find the state before the other and open a session twice.

*FileScan, the two windows.* `MarksInv` relates each state, in memory, saved and in the job, to its file:
every line before `recent` is at most the cutoff (`Marked`), which later scans keep because they write the field
back as they found it, and the search finds because the file is `Ascending`. `ForwardInv` says what a job that ends will write into
the backfill's fields: a first scan replaces no state, a later one leaves the fields alone, a backfill starts from the state itself.

`FileScanBothProofs` carries the theorems to the specification that the run checks: `MCFileScanBoth` takes its second log from an instance of
`FileScanProofs`, so that a step of both is a step of one log and a stutter of the other, and `FillsForward`, `TypeCorrect` and
`NoDuplicates` hold of the second log with its own values of the flags.

*LogsExport.* `TypeInv` with `FileInv` (what a job shows, its goroutine's place and its file go together, `Orderly`) gives
`FilesOwned` and `CancelHonoured`. For the rows, an invariant per job says what of the table of the first page is in the
pages written or ranks behind the page to come (`NoneMissed` from the newest, its mirror from the oldest), and that no page overlaps what is written;
that a page holds no more than its size, and that the next begins where it ends, are lemmas on ranks in finite sets. The
attempt to prove it corrected `NothingTwice`: a row that comes in front and is gone again before the end shifts the pages too (hence the history
`came`), and a query that neither counts nor joins first may repeat a row when another's name is missing, because it stops by the joined rows.

*Notices.* `HitsCounted` is a balance: what was stored, and what was read again, is what is told, held, cleared and lost; however a committed batch
splits into stored and dropped lines, the hits of the two parts are those of the batch (`CountAt`). It is inductive with the types, of which one line matters: the hits of a
batch are those of its lines, and an ingester that is done holds none (`IngestOK`). `ReaderInv` says that a reader has seen each staying notice
before his next page (`SeenBefore`); a step either keeps the places, or moves others in front, which only moves a notice towards pages to come.

*RemoteTarget.* The invariant is stronger than the property: the lines that *begin* before an offset are accounted for, not only those that end there (`Accounted`),
because the last line of a body that broke off, or of an object that was half written, is passed in its middle. Without a CR what is counted is where the poll is, so the fingerprint of a row is the place of its line
(`RowsInv`, `PlaceInv`), which is `NoDuplicates`.

*Statistics, the requests.* The properties are about an answer; what makes them inductive is `Sound`, a property of a request under way:
its ranges are those of the query at this time (`Begins`); each figure it has is `Figure(db, f, r)` of the rows and the time there are; each
that its kind shows (`Needed`) is there or among the statements to come (`Asked`); the comparison comes last and by itself
(`IsPlan`), so it compares the figures that are answered. `StatInv` asks for it of the requests that are calm and met no fault; an insertion, a second
or a fault takes a request out, and a request taken from the cache is never calm, because nothing says when its figures were
read. For `ClearedOrRaced` `StatInv` counts the clears: the one an entry was read under, and whether more came since. That a state of the rows is one
(`DbOK`: each line a row with a number of its own, a clock within the calendar for as long as seconds are left) needs what `StatAssumption` asks of the bounds.

*Statistics, the figures.* The rest is about a `db` and no longer about states. Bounds meet on a grid: every range begins with a day and ends
with the last second or the first second of the last hour of one (`PeriodIsRange`, `PreviousIsRange`, with weeks by the remainder and months by
`MonthStarts`), and days, hours and minutes are the cells of grids each of which refines the next (`GridUnique`, `GridRest`). Then a sum over days or
over the points of a chart is a count of the rows in all of them (`DaysCount`, `ChartSum`, `BucketRows`, from `OverKeys`: the parts of a set by a key add
up to it), and the ranges' ends, which one page counts and another does not, are what is between `p.to` and the next day (`FullIs`). For the
sessions, one session is one opening page view (`SessionsCount`), and the session table has one entry for each opening page view of a visitor whose page views all
came in order (`VisitsOK`, an invariant, which `VisitAdded` keeps: a page view that is not older than those before it opens a session at its insertion exactly when it does in a recount); the rows of a range open a session at the openings that lie in it, and once more for each
visitor whose session the range's start cuts (`CutCrosses`, `CrossesCut`, `CutCount`): that is `over` in `SessionsAgree`. It needs that a session
ends well before a range does, `Gap <= Day - Hour`: half an hour against 23. `ForecastIs` is arithmetic with
rounding: the share of a range that has passed is at most one, and a weighted mean of two numbers that are not less than x is not less than x.
That a list shows its first entries needs that there are such (`PicksExist`: a smallest set that cannot be picked would have a smaller one),
although `TopEntries` names them with CHOOSE.

*DerivedTablesProofs* has what `LogStoreProofs` and `StatisticsProofs` share: sums over finite sets, of parts, of unions, by key, term by term (`Over...`),
minima, and which hours and days a row falls into.

Only model-checked: all liveness, which the proof system does not reach. Nothing is proved about what a recursive
definition computes: of `doubled` in `AgentPush` only the type of the flag it sets is needed.

## 6 Where the code and its words differ

| Run | Property | What happens |
|---|---|---|
| `file_scan_torn` | `OffsetsAccounted` | a line that is half written when the file is read is passed by the offset and never stored |
| `file_scan_reparse_crash` | `SavedOffsetsAccounted` | a crash between the clear and the reset of the state file leaves offsets past rows that are gone |
| `ip_geo_remote` | `KeptWhenRemoteFails` | when the remote request fails the IPs are labelled unknown and dequeued, although the warning says they stay pending |
| `agent_push_retry` | `RetryStores` | lines of a batch that failed are marked as seen, so the repeated request drops them |
| `same_time` | `SameTimeIsThen` | the figure labelled "Same time yesterday" counts the whole day when the pages are not filtered |

Each is described with the lines it rests on in `PROJECT.json` (findings). The
other properties of these modules excuse exactly the lines concerned
(`dropped`, `missed`, the flags of `FileScan`), so they say that nothing else goes wrong.

Besides, these losses are the code's, contradict no word of it, and are excused by name in properties that hold:

| What is lost | Where | Excused in |
|---|---|---|
| the rest of a file behind a line of more than 64 KiB, or behind a read that fails: the scanner stops and the offset becomes the size | `log_parser_scan_file.go:431`, `518`, `210` | `OffsetsAccounted`, `SavedOffsetsAccounted`, `EventuallyStored` of `FileScan` by `dropped` (`Unread`) |
| such a line of a remote object and all after it: every poll stops there again (a compressed object is not read again until it changes) | `log_parser_scan_file.go:431`, `source_scanner.go:147` | `EventuallyStored` of `RemoteTarget` (`Missing`); the offset stays in front of it |
| a line of a remote object that is half written when it is polled, or that a body broke off in | `source_scanner.go:169`, `log_parser_scan_file.go:470` | `OffsetAccounted`, `EventuallyStored` of `RemoteTarget` by `lostLines` |
| the batches whose insert failed | `log_parser_scan_file.go:451` | the same, by `dropped` and `lostLines` |
| the hits of the committed batches of a push that ends with an error; and hits of lines read again are told again | `log_parser_scan_file.go:599-607`, `repository_insert_pipeline.go:862` | `HitsCounted` by `hitsLost` and `reread` |
| page views older than the last of their visitor, in the session tables: the overview has fewer sessions than the session summary after a backfill | `repository_insert_helpers.go:183` | `OverallAgrees` by `skipped` |
| the sessions opened a second time while the retention renews the session state | `repository_backfill.go:455` | `SessionsSound` by `blurred` |
| the stage and the progress of a scan that starts while another is being finished | `log_parser.go:800` | `StatusTrue` asks for the stage only where one is shown |
| who is active in the running minute | `realtime_stats.go:154` | `PagesAgree` |

## 7 What is not modelled

Components. Parsing of lines, filters and host discovery are string processing without state: the models take
from them whether a line parses, its time and its text. Configuration is read
once and appears as CONSTANTS. The progress of the IP geo worker is shown and not read. Routing, static files, the demo data, the
update check and the web interfaces keep no state that other parts depend on. Start and shutdown are a crash at any point.

Parts of modelled components. In `FileScan` gzip files and the hour buckets; in `IPGeo` the
lookup itself and the process's own cache of answers; in `LogStore` the columns from which no derived
table is built, and partitions; in `Statistics` the filters and the sorting of the list of
rows (`BuildQueryFromRequest`) and the lists by place, browser and device, which are read as the list by page is;
in `RemoteTarget` the protocols.

Hazards that are known and that no property covers:

- Two requests about the same IP, one saving and one taking back an override (`web/handler.go:748`), are several transactions each and may mix.
- `IngestLines` (`log_parser_scan_file.go:613`) and the scan of the task loop read, change and write back the state of a target
  in turns; an update of the parsed range shown can be lost.
- The retention is not under the gate of scans and reparses (`log_parser.go:558-576`, called before the scan in `scheduler.go:47`): it may run
  between the statements of a reparse that clears a website or a range (`log_parser.go:642-671`) or rebuilds its days. `LogStore` has one maintenance job
  at a time, next to any batches; what two of them leave behind together is not checked.
- A read of the backfill that fails ends its pass behind what came of the last line, which is taken for a line (`backfill.go:179-254`).
- Old rows are removed when the loop happens to pass between two and three o'clock (`log_parser.go:560`); `LogStore` lets the removal begin at any time.
- A gzip file larger than the whole budget of a backfill is passed over for ever (`backfill.go:269`).
- A compressed object of a server that tells neither size, date nor tag is read once (`source_scanner.go:96`), and an object
  whose lines end in CR LF is read again from inside a line (`source_scanner.go:170`).
- `hourBucket` truncates in the local time zone and the recount by division of the seconds since 1970 (`repository_backfill.go:127`):
  in a zone that is off by half an hour the two differ. `LogStore` has one zone, of whole hours.
- An export from the oldest row on passes over rows when the retention removes older ones between two pages (`analytics/logs.go:426`).
- The alert that a write to the database failed is pushed only if its notice can be written (`notifications.go:27`); an email
  has no timeout (`alertpush/dispatcher.go:230`); a notice is marked as read by its id, an occurrence after it was shown included (`web/handler.go:147`).
- The key of a cached answer holds the name of a range and not its bounds (`analytics/stats.go:153`): after midnight yesterday's answer is
  served until it expires. An answer of which a statement failed is cached like a complete one (`overall_stats.go:117`), and its
  statements are not one transaction (`overall_stats.go:104`); the properties are about complete answers during which nothing was inserted.

## 8 Plan

What would come next, in this order.

1. The override handlers by themselves, two at a time.
2. A module that composes `ParseGate` with the jobs of `FileScan`, to show that the single job of
   `FileScan` is what the gate of `ParseGate` allows (refinement of `ParseGate`'s holder).
