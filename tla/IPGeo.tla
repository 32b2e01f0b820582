------------------------------- MODULE IPGeo -------------------------------
(***************************************************************************)
(* The location of an IP: internal/ingest/ip_geo_worker.go, the enqueue of  *)
(* log_parser_scan_file.go, the tables ip_geo_pending, ip_geo_cache,        *)
(* ip_geo_api_failures and ip_geo_manual_overrides of internal/store, and   *)
(* the override handlers of internal/web/handler.go.                        *)
(*                                                                         *)
(* A row of a website's logs is inserted with the label "pending" and its   *)
(* IP is queued; a worker takes IPs from the queue, looks them up and       *)
(* labels the rows; a user may label the rows of an IP by hand and take the *)
(* label back.  Every step is one statement or one transaction of the       *)
(* database, any of which may fail, and the process may crash between any   *)
(* two.  The rows of the sessions table change in the same transactions as  *)
(* those of the logs and are not kept apart.                                *)
(*                                                                         *)
(* The worker runs once at a time (ParseGate, OneResolver), so it is one    *)
(* process here.  The ingesters are POST /api/ingest/logs, which takes no   *)
(* gate, and the scan and the backfill; of these the Scanners hold the gate *)
(* that the worker looks at before it starts.                               *)
(***************************************************************************)
EXTENDS Integers, FiniteSets

CONSTANTS
  IPs, Sites,
  Rows,                 \* the lines that may be inserted, each for one site
  Ingesters, Scanners, Handlers, Worker,
  CacheLimit,           \* ipGeoCacheLimit, 0 for no limit
  MaxFaults,            \* bound: failing database calls
  MaxCrashes,           \* bound: crashes of the process
  MaxEdits              \* bound: overrides saved or taken back

ASSUME RowsAssumption == \A r \in Rows : r.ip \in IPs /\ r.site \in Sites
ASSUME ProcessesAssumption ==
  /\ Scanners \subseteq Ingesters
  /\ Ingesters \cap Handlers = {}
  /\ Worker \notin Ingesters \cup Handlers
ASSUME BoundsAssumption ==
  CacheLimit \in Nat /\ MaxFaults \in Nat /\ MaxCrashes \in Nat /\ MaxEdits \in Nat

VARIABLES
  label,      \* per row: the location it shows
  queue,      \* ip_geo_pending
  cache,      \* ip_geo_cache
  overrides,  \* ip_geo_manual_overrides
  cooling,    \* the IPs of ip_geo_api_failures not older than 12 hours
  pc, found, missing, sites,  \* per process: where it is and its local maps
  run,        \* the worker's other locals, see Runs
  kick,       \* a "go ProcessPendingIPGeo(1)" has not run yet
  spent       \* history: how much of each bound is used

tables == <<label, queue, cache, overrides, cooling>>
locals == <<found, missing, sites, run>>
vars == <<tables, pc, locals, kick, spent>>

Procs   == Ingesters \cup Handlers \cup {Worker}
Answers == {"unknown", "auto", "manual"}
Entries == {"none", "pending"} \cup Answers
Nothing == [ip \in IPs |-> "none"]
\* one: the limit is 1; failing: the IPs the remote service did not answer;
\* down: the request itself failed; owed, a history component: the rows that
\* were pending when the batch was fetched and that no handler touched since.
Runs  == [one: BOOLEAN, failing: SUBSET IPs, down: BOOLEAN, owed: SUBSET Rows]
NoRun == [one |-> FALSE, failing |-> {}, down |-> FALSE, owed |-> {}]
PCs == {"idle", "lookup", "settle", "enqueue",                    \* ingesters
        "count", "fetch", "resolve", "store", "record", "dequeue",
        "forget", "collect", "relookup", "resettle", "requeue",   \* the worker
        "unqueue", "effective", "mark", "markQueue", "apply"}     \* handlers

TypeOK ==
  /\ label \in [Rows -> Answers \cup {"absent", "pending"}]
  /\ queue \subseteq IPs /\ overrides \subseteq IPs /\ cooling \subseteq IPs
  /\ cache \in [IPs -> {"none", "unknown", "auto"}]
  /\ pc \in [Procs -> PCs]
  /\ found \in [Procs -> [IPs -> Entries]]
  /\ missing \in [Procs -> SUBSET IPs]
  /\ sites \in [Procs -> SUBSET Sites]
  /\ run \in Runs /\ kick \in BOOLEAN
  /\ spent \in [faults: 0..MaxFaults, crashes: 0..MaxCrashes, edits: 0..MaxEdits]

Init ==
  /\ label = [r \in Rows |-> "absent"]
  /\ queue = {} /\ cache = Nothing /\ overrides = {} /\ cooling = {}
  /\ pc = [p \in Procs |-> "idle"]
  /\ found = [p \in Procs |-> Nothing]
  /\ missing = [p \in Procs |-> {}]
  /\ sites = [p \in Procs |-> {}]
  /\ run = NoRun /\ kick = FALSE
  /\ spent = [faults |-> 0, crashes |-> 0, edits |-> 0]

Fault == /\ spent.faults < MaxFaults
         /\ spent' = [spent EXCEPT !.faults = @ + 1]
NoFault == UNCHANGED spent
\* A call whose error is logged and otherwise ignored.
Try(done, undone) == (done /\ NoFault) \/ (undone /\ Fault)

Goto(p, step) == pc' = [pc EXCEPT ![p] = step]
\* The goroutine returns and its local variables are gone.
Leave(p) ==
  /\ Goto(p, "idle")
  /\ found' = [found EXCEPT ![p] = Nothing]
  /\ missing' = [missing EXCEPT ![p] = {}]
  /\ sites' = [sites EXCEPT ![p] = {}]
  /\ run' = IF p = Worker THEN NoRun ELSE run

\* The entry GetIPGeoCache returns: an override goes before the cache.
Entry(ip) == IF ip \in overrides THEN "manual" ELSE cache[ip]
Useful(ip) == Entry(ip) \in {"auto", "manual"}
Named(map) == {ip \in IPs : map[ip] # "none"}

----------------------------------------------------------------------------
(* Labelling, one transaction per website.                                  *)

\* Mutant of Settled: UPDATE without "AND location_id = pending".
SettledAll(s, map) ==
  [r \in Rows |-> IF /\ r.site = s /\ label[r] # "absent" /\ map[r.ip] # "none"
                  THEN map[r.ip] ELSE label[r]]

\* updateIPGeoLocationsForWebsiteOnce: only rows still pending are labelled.
Settled(s, map) ==
  [r \in Rows |-> IF r.site = s /\ label[r] = "pending" /\ map[r.ip] # "none"
                  THEN map[r.ip] ELSE label[r]]

\* UpdateIPGeoLocations returns at once when it is given no location.
SitesFor(map) == IF map = Nothing THEN {} ELSE Sites

(* UpdateIPGeoLocations visits the websites one by one.  The retries after  *)
(* a deadlock are inside a step: each attempt is rolled back as a whole.    *)
SettleSite(p) ==
  /\ pc[p] \in {"settle", "resettle"}
  /\ \E s \in sites[p] :
       /\ label' = Settled(s, found[p])
       /\ sites' = [sites EXCEPT ![p] = @ \ {s}]
  /\ UNCHANGED <<queue, cache, overrides, cooling, pc, found, missing, run, kick,
                 spent>>

AfterSettle(p) == IF p # Worker THEN "enqueue"
                  ELSE IF pc[p] = "settle" THEN "dequeue" ELSE "requeue"

SettleDone(p) ==
  /\ pc[p] \in {"settle", "resettle"}
  /\ sites[p] = {}
  /\ Goto(p, AfterSettle(p))
  /\ UNCHANGED <<tables, locals, kick, spent>>

\* Mutant of SettleFails: the worker goes on as if every row were labelled.
SettleFailsAnyway(p) ==
  /\ pc[p] \in {"settle", "resettle"}
  /\ sites[p] # {}
  /\ Fault
  /\ Goto(p, AfterSettle(p))
  /\ UNCHANGED <<tables, locals, kick>>

\* The worker gives up before it shortens the queue; the others only warn.
SettleFails(p) ==
  /\ pc[p] \in {"settle", "resettle"}
  /\ sites[p] # {}
  /\ Fault
  /\ IF p = Worker /\ pc[p] = "settle"
     THEN Leave(p) ELSE Goto(p, AfterSettle(p)) /\ UNCHANGED locals
  /\ UNCHANGED <<tables, kick>>

----------------------------------------------------------------------------
(* Ingestion: insert the batch, then enqueueBatchIPGeo.                     *)

Insert(p) ==
  /\ p \in Ingesters
  /\ pc[p] = "idle"
  /\ \E s \in Sites :
       \E batch \in SUBSET {r \in Rows : r.site = s /\ label[r] = "absent"} :
         /\ batch # {}
         /\ label' = [r \in Rows |-> IF r \in batch THEN "pending" ELSE label[r]]
         /\ missing' = [missing EXCEPT ![p] = {r.ip : r \in batch}]
  /\ Goto(p, "lookup")
  /\ UNCHANGED <<queue, cache, overrides, cooling, found, sites, run, kick, spent>>

\* The IPs without a usable entry still have to be resolved; the worker does
\* that itself.  The deletion of "unknown" entries is made with the reading:
\* an entry written in between could only be missed.
AfterLookup(p, rest) == IF p = Worker /\ rest # {} THEN "resolve" ELSE "settle"

ReadCache(p) ==
  LET hits == {ip \in missing[p] : Useful(ip)}
      dull == {ip \in missing[p] : Entry(ip) = "unknown"}
      map  == [ip \in IPs |-> IF ip \in hits THEN Entry(ip) ELSE "none"]
  IN
  /\ pc[p] = "lookup"
  /\ found' = [found EXCEPT ![p] = map]
  /\ missing' = [missing EXCEPT ![p] = @ \ hits]
  /\ sites' = [sites EXCEPT ![p] = SitesFor(map)]
  /\ Try(cache' = [ip \in IPs |-> IF ip \in dull THEN "none" ELSE cache[ip]],
         cache' = cache)
  /\ Goto(p, AfterLookup(p, missing[p] \ hits))
  /\ UNCHANGED <<label, queue, overrides, cooling, run, kick>>

ReadCacheFails(p) ==
  /\ pc[p] = "lookup"
  /\ Fault
  /\ found' = [found EXCEPT ![p] = Nothing]
  /\ sites' = [sites EXCEPT ![p] = {}]
  /\ Goto(p, AfterLookup(p, missing[p]))
  /\ UNCHANGED <<tables, missing, run, kick>>

\* UpsertIPGeoPending, of an ingester and of the worker's recovery.
Enqueue(p) ==
  /\ pc[p] \in {"enqueue", "requeue"}
  /\ Try(queue' = queue \cup missing[p], queue' = queue)
  /\ Leave(p)
  /\ UNCHANGED <<label, cache, overrides, cooling, kick>>

----------------------------------------------------------------------------
(* ProcessPendingIPGeo.                                                     *)

\* IsIPParsing and startIPGeoParsing.
Start(limited) ==
  /\ pc[Worker] = "idle"
  /\ \A p \in Scanners : pc[p] = "idle"
  /\ limited => kick
  /\ run' = [NoRun EXCEPT !.one = limited]
  /\ kick' = IF limited THEN FALSE ELSE kick
  /\ Goto(Worker, "count")
  /\ UNCHANGED <<tables, found, missing, sites, spent>>

\* The goroutine of the handler finds a gate taken and is gone.
KickRefused ==
  /\ kick
  /\ pc[Worker] # "idle" \/ \E p \in Scanners : pc[p] # "idle"
  /\ kick' = FALSE
  /\ UNCHANGED <<tables, pc, locals, spent>>

\* Mutant of Count: an empty queue ends the run.
CountNoRecovery ==
  /\ pc[Worker] = "count"
  /\ Goto(Worker, IF queue = {} THEN "idle" ELSE "fetch")
  /\ UNCHANGED <<tables, locals, kick, spent>>

Count ==
  /\ pc[Worker] = "count"
  /\ Goto(Worker, IF queue = {} THEN "collect" ELSE "fetch")
  /\ UNCHANGED <<tables, locals, kick, spent>>

\* Every read or write whose error ends the run.
GiveUp ==
  /\ pc[Worker] \in {"count", "fetch", "dequeue"}
  /\ Fault
  /\ Leave(Worker)
  /\ UNCHANGED <<tables, kick>>

\* The whole queue stands for the oldest 500 of it.
Fetch ==
  LET due == queue \ cooling IN
  /\ pc[Worker] = "fetch"
  /\ \/ due = {} /\ Leave(Worker)
     \/ \E batch \in SUBSET due :
          /\ batch # {}
          /\ IF run.one THEN Cardinality(batch) = 1 ELSE batch = due
          /\ missing' = [missing EXCEPT ![Worker] = batch]
          /\ run' = [run EXCEPT !.owed =
                       {r \in Rows : label[r] = "pending" /\ r.ip \in batch}]
          /\ Goto(Worker, "lookup")
          /\ UNCHANGED <<found, sites>>
  /\ UNCHANGED <<tables, kick, spent>>

\* GetIPLocationBatch: each IP gets a location, "unknown" when neither the
\* local database nor the remote service has one.  A failed request is one
\* that leaves all the IPs it did not answer among the failures.
Resolve ==
  LET asked == missing[Worker] IN
  /\ pc[Worker] = "resolve"
  /\ \E good, bad \in SUBSET asked, down \in BOOLEAN :
       /\ down => asked \ good \subseteq bad
       /\ LET map == [ip \in IPs |-> IF ip \in good THEN "auto"
                                     ELSE IF ip \in asked THEN "unknown"
                                     ELSE found[Worker][ip]]
          IN /\ found' = [found EXCEPT ![Worker] = map]
             /\ sites' = [sites EXCEPT ![Worker] = SitesFor(map)]
       /\ run' = [run EXCEPT !.failing = bad, !.down = down]
  /\ Goto(Worker, "store")
  /\ UNCHANGED <<tables, missing, kick, spent>>

Cached(c) == {ip \in IPs : c[ip] # "none"}

\* TrimIPGeoCache keeps at most CacheLimit entries; which of them are the
\* oldest is left open.
Trimmed(c) ==
  IF CacheLimit = 0 \/ Cardinality(Cached(c)) <= CacheLimit THEN {c}
  ELSE {[ip \in IPs |-> IF ip \in kept THEN c[ip] ELSE "none"] :
          kept \in {k \in SUBSET Cached(c) : Cardinality(k) = CacheLimit}}

\* UpsertIPGeoCache and TrimIPGeoCache.
Store ==
  LET new == [ip \in IPs |-> IF ip \in missing[Worker] THEN found[Worker][ip]
                             ELSE cache[ip]]
  IN
  /\ pc[Worker] = "store"
  /\ Try(cache' \in Trimmed(new), cache' \in {new} \cup Trimmed(cache))
  /\ Goto(Worker, IF run.failing = {} THEN "settle" ELSE "record")
  /\ UNCHANGED <<label, queue, overrides, cooling, locals, kick>>

Record ==
  /\ pc[Worker] = "record"
  /\ Try(cooling' = cooling \cup run.failing, cooling' = cooling)
  /\ Goto(Worker, "settle")
  /\ UNCHANGED <<label, queue, cache, overrides, locals, kick>>

Dequeue ==
  /\ pc[Worker] = "dequeue"
  /\ queue' = queue \ Named(found[Worker])
  /\ Goto(Worker, "forget")
  /\ UNCHANGED <<label, cache, overrides, cooling, locals, kick, spent>>

\* cleanupResolvedIPGeoFailures.
Forget ==
  /\ pc[Worker] = "forget"
  /\ Try(cooling' = cooling \ Named(found[Worker]), cooling' = cooling)
  /\ Leave(Worker)
  /\ UNCHANGED <<label, queue, cache, overrides, kick>>

----------------------------------------------------------------------------
(* recoverPendingIPGeoFromLogs: the queue is empty, the rows tell.          *)

Collect ==
  /\ pc[Worker] = "collect"
  /\ \E read \in SUBSET Sites :
       LET lost == {r.ip : r \in {q \in Rows : q.site \in read /\ label[q] = "pending"}}
       IN
       /\ \/ read = Sites /\ NoFault
          \/ Fault
       /\ \/ lost = {} /\ Leave(Worker)
          \/ \E batch \in SUBSET lost :
               /\ batch # {}
               /\ IF run.one THEN Cardinality(batch) = 1 ELSE batch = lost
               /\ missing' = [missing EXCEPT ![Worker] = batch]
               /\ Goto(Worker, "relookup")
               /\ UNCHANGED <<found, sites, run>>
  /\ UNCHANGED <<tables, kick>>

\* Here an "unknown" entry stays in the cache.
Relookup ==
  /\ pc[Worker] = "relookup"
  /\ \E hits \in SUBSET missing[Worker] :
       LET map == [ip \in IPs |-> IF ip \in hits THEN Entry(ip) ELSE "none"] IN
       /\ \/ hits = {ip \in missing[Worker] : Useful(ip)} /\ NoFault
          \/ hits = {} /\ Fault
       /\ found' = [found EXCEPT ![Worker] = map]
       /\ missing' = [missing EXCEPT ![Worker] = @ \ hits]
       /\ sites' = [sites EXCEPT ![Worker] = SitesFor(map)]
  /\ Goto(Worker, "resettle")
  /\ UNCHANGED <<tables, run, kick>>

----------------------------------------------------------------------------
(* The handlers of /api/ip-geo/override.                                    *)

Edit(h, ip) ==
  /\ h \in Handlers
  /\ pc[h] = "idle"
  /\ spent.edits < MaxEdits
  /\ spent' = [spent EXCEPT !.edits = @ + 1]
  /\ missing' = [missing EXCEPT ![h] = {ip}]
  /\ UNCHANGED <<label, queue, cache, cooling, sites, run, kick>>

\* POST: UpsertIPGeoManualOverride.
Save(h, ip) ==
  /\ Edit(h, ip)
  /\ overrides' = overrides \cup {ip}
  /\ found' = [found EXCEPT ![h] = [Nothing EXCEPT ![ip] = "manual"]]
  /\ Goto(h, "unqueue")

Unqueue(h) ==
  /\ pc[h] = "unqueue"
  /\ Try(queue' = queue \ missing[h], queue' = queue)
  /\ sites' = [sites EXCEPT ![h] = Sites]
  /\ Goto(h, "apply")
  /\ UNCHANGED <<label, cache, overrides, cooling, found, missing, run, kick>>

\* DELETE: DeleteIPGeoManualOverride.
Reset(h, ip) ==
  /\ Edit(h, ip)
  /\ overrides' = overrides \ {ip}
  /\ Goto(h, "effective")
  /\ UNCHANGED found


\* GetEffectiveIPGeo.
Effective(h) ==
  /\ pc[h] = "effective"
  /\ LET entry(ip) == IF Entry(ip) = "none" THEN "pending" ELSE Entry(ip)
         map == [ip \in IPs |-> IF ip \in missing[h] THEN entry(ip) ELSE "none"]
     IN /\ found' = [found EXCEPT ![h] = map]
        /\ Goto(h, IF \E ip \in missing[h] : map[ip] = "pending"
                   THEN "mark" ELSE "apply")
  /\ sites' = [sites EXCEPT ![h] = Sites]
  /\ UNCHANGED <<tables, missing, run, kick, spent>>

\* MarkIPGeoPendingForWebsite and applyIPGeoLocationForWebsite label every
\* row of the IP, whatever it shows.
Relabel(h, s) == {r \in Rows : r.site = s /\ r.ip \in missing[h] /\ label[r] # "absent"}

RelabelSite(h) ==
  /\ pc[h] \in {"mark", "apply"}
  /\ \E s \in sites[h] :
       /\ label' = [r \in Rows |-> IF r \in Relabel(h, s) THEN found[h][r.ip]
                                   ELSE label[r]]
       /\ run' = [run EXCEPT !.owed = @ \ Relabel(h, s)]
       /\ sites' = [sites EXCEPT ![h] = @ \ {s}]
  /\ UNCHANGED <<queue, cache, overrides, cooling, pc, found, missing, kick, spent>>

RelabelDone(h) ==
  /\ pc[h] \in {"mark", "apply"}
  /\ sites[h] = {}
  /\ IF pc[h] = "mark"
     THEN Goto(h, "markQueue") /\ UNCHANGED locals ELSE Leave(h)
  /\ UNCHANGED <<tables, kick, spent>>

\* The end of MarkIPGeoPendingForIP, then "go ProcessPendingIPGeo(1)", which
\* may run before the label is applied once more.
MarkQueue(h) ==
  /\ pc[h] = "markQueue"
  /\ queue' = queue \cup missing[h]
  /\ kick' = TRUE
  /\ sites' = [sites EXCEPT ![h] = Sites]
  /\ Goto(h, "apply")
  /\ UNCHANGED <<label, cache, overrides, cooling, found, missing, run, spent>>

\* Any of the other calls fails: the answer is 500 and the rest is not done.
HandlerFails(h) ==
  /\ \/ pc[h] \in {"effective", "markQueue"}
     \/ pc[h] \in {"mark", "apply"} /\ sites[h] # {}
  /\ Fault
  /\ Leave(h)
  /\ UNCHANGED <<tables, kick>>

----------------------------------------------------------------------------
\* The failures of an IP get older than ipGeoFailureCooldown.
CoolDown ==
  /\ \E ip \in cooling : cooling' = cooling \ {ip}
  /\ UNCHANGED <<label, queue, cache, overrides, pc, locals, kick, spent>>

\* What is in memory is lost; each transaction of the database is whole.
Crash ==
  /\ spent.crashes < MaxCrashes
  /\ spent' = [spent EXCEPT !.crashes = @ + 1]
  /\ pc' = [p \in Procs |-> "idle"]
  /\ found' = [p \in Procs |-> Nothing]
  /\ missing' = [p \in Procs |-> {}]
  /\ sites' = [p \in Procs |-> {}]
  /\ run' = NoRun /\ kick' = FALSE
  /\ UNCHANGED tables

IngestStep(p) ==
  \/ ReadCache(p) \/ ReadCacheFails(p)
  \/ SettleSite(p) \/ SettleDone(p) \/ SettleFails(p)
  \/ Enqueue(p)

WorkerStep ==
  \/ Start(FALSE) \/ Count \/ GiveUp \/ Fetch
  \/ IngestStep(Worker)
  \/ Resolve \/ Store \/ Record \/ Dequeue \/ Forget
  \/ Collect \/ Relookup

HandlerStep(h) ==
  \/ Unqueue(h) \/ Effective(h) \/ RelabelSite(h) \/ RelabelDone(h)
  \/ MarkQueue(h) \/ HandlerFails(h)

Next ==
  \/ \E p \in Ingesters : Insert(p) \/ IngestStep(p)
  \/ WorkerStep \/ Start(TRUE) \/ KickRefused
  \/ \E h \in Handlers : \/ \E ip \in IPs : Save(h, ip) \/ Reset(h, ip)
                         \/ HandlerStep(h)
  \/ CoolDown
  \/ Crash

\* The task loop calls the worker again and again, goroutines and requests
\* that have begun go on, and twelve hours pass.
Fairness ==
  /\ WF_vars(WorkerStep)
  /\ \A p \in Ingesters : WF_vars(IngestStep(p))
  /\ \A h \in Handlers : WF_vars(HandlerStep(h))
  /\ WF_vars(CoolDown)

Spec == Init /\ [][Next]_vars
FairSpec == Spec /\ Fairness

----------------------------------------------------------------------------
(* An IP leaves the queue only when every row of it that was pending when it  *)
(* was fetched shows a location, on all the websites, whatever failed on    *)
(* the way (ip_geo_worker.go:265-280).  A row that the override handler     *)
(* marked pending again since then is not counted.                          *)
DequeuedAfterLabelling ==
  pc[Worker] = "dequeue" => \A r \in run.owed : label[r] # "pending"

(* A row that shows the user's label keeps it as long as the override       *)
(* stands: neither a late answer of the worker nor a batch that is being    *)
(* ingested puts an automatic location over it (handler.go:663-746).        *)
ManualStays ==
  [][\A r \in Rows :
       label[r] = "manual" /\ r.ip \in overrides /\ r.ip \in overrides'
         => label'[r] = "manual"]_vars

(* No row is pending for ever: whatever fails or crashes, whatever is       *)
(* queued and dequeued in between, the queue or the recovery from the logs  *)
(* brings every pending row a location (ip_geo_worker.go:80-381).           *)
EventuallyResolved ==
  \A r \in Rows : label[r] = "pending" ~> label[r] # "pending"

(* When the remote request fails, the IPs it left without an answer stay in *)
(* the queue, as the worker's warning says (ip_geo_worker.go:151).          *)
KeptWhenRemoteFails ==
  [][pc[Worker] = "dequeue" /\ run.down =>
       \A ip \in run.failing \cap queue :
         found[Worker][ip] = "unknown" => ip \in queue']_vars
=============================================================================
