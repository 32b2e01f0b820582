----------------------------- MODULE LogsExport -----------------------------
(***************************************************************************)
(* The export jobs of internal/web/logs_export_jobs.go: a goroutine for each  *)
(* job reads the list of logs page by page (internal/analytics/logs.go) and   *)
(* writes them to a file, while rows are inserted and removed and while        *)
(* requests look at the job, cancel it, and drop jobs that nothing has        *)
(* touched for a day.                                                       *)
(*                                                                         *)
(* A row is a number: its time stamp and id.  A query has a form: whether the   *)
(* total is counted (exact), whether the page is cut before the rows are       *)
(* joined with their names (fast), and the order.  A dangling row has a name    *)
(* that is missing (LogStore, NoDangling): the join leaves it out.            *)
(***************************************************************************)
EXTENDS Integers, Sequences, FiniteSets, FiniteSetsExt

CONSTANTS
  Jobs,          \* ids of jobs
  Row0,          \* the rows of the table at first
  Dangling,      \* sets of rows of which one is the dangling ones
  ExportPage,    \* exportBatchSize
  ExportBudgets  \* bounds: records of the jobs, the forms of their queries, the rows
                 \* that may be inserted, the removals, the days, the faults and the
                 \* restarts of a behaviour

Forms == [exact : BOOLEAN, fast : BOOLEAN, asc : BOOLEAN]
\* An id is given once.
ExportConstants ==
  /\ Row0 \subseteq Int /\ IsFiniteSet(Row0)
  /\ ExportPage \in Nat \ {0}
  /\ \A b \in ExportBudgets : b.forms \subseteq Forms /\ b.rows \subseteq Int /\ b.rows \cap Row0 = {}
ASSUME ExportAssumption == ExportConstants

VARIABLES
  logRows, dangling,
  jobs,            \* the map of jobs: [status, canceled, fresh, form]
  file,            \* per job: its file, "none", "part" or "whole"
  exportAt,        \* per job: where its goroutine is
  page, got, out,  \* per job: its page, the rows of it, the pages written
  start,           \* per job: the form of its query, and, as a history, the rows when its
                   \* first page was read and those that came since
  late,            \* history: jobs cancelled after their last look at the flag
  orphans,         \* history: files left by a restart
  exportsLeft      \* what is left of the run's budget

locals == <<exportAt, page, got, out, start>>
exportVars == <<logRows, dangling, jobs, file, locals, late, orphans, exportsLeft>>

NoPage == [rows |-> {}, more |-> FALSE]
Final == {"success", "failed", "canceled"}

-----------------------------------------------------------------------------
(* The list of logs.                                                        *)

\* The rows of R from a place on, at most n of them: ORDER BY, LIMIT and OFFSET.
Precedes(q, r, asc) == IF asc THEN q < r ELSE q > r
Rank(r, R, asc) == Cardinality({q \in R : Precedes(q, r, asc)})
Cut(R, asc, from, n) == {r \in R : from <= Rank(r, R, asc) /\ Rank(r, R, asc) < from + n}
\* One more than a page is read when the total is not counted.
Limit(form) == IF form.exact THEN ExportPage ELSE ExportPage + 1
FastPage(form, n) == Cut(logRows, form.asc, (n - 1) * ExportPage, Limit(form)) \ dangling
SlowPage(form, n) == Cut(logRows \ dangling, form.asc, (n - 1) * ExportPage, Limit(form))
Page(form, n) == IF form.fast THEN FastPage(form, n) ELSE SlowPage(form, n)
Trimmed(form, R) == Cut(R, form.asc, 0, ExportPage)
\* The count does not join the rows with their names.
Pages == (Cardinality(logRows) + ExportPage - 1) \div ExportPage

-----------------------------------------------------------------------------
(* The map of jobs.                                                         *)

Exists(j) == j \in DOMAIN jobs
Without(J) == [k \in DOMAIN jobs \ J |-> jobs[k]]
Stale == {k \in DOMAIN jobs : ~jobs[k].fresh}
\* update: nothing when the job was dropped.
Update(j, status) ==
  jobs' = IF Exists(j) THEN [jobs EXCEPT ![j].status = status, ![j].fresh = TRUE] ELSE jobs
\* Mutant of IsCanceled: the flag of a running job is not looked at.
StatusCanceled(j) == ~Exists(j) \/ jobs[j].status = "canceled"
IsCanceled(j) == ~Exists(j) \/ jobs[j].canceled \/ jobs[j].status = "canceled"

\* A request for the status or the list, or a new job, drops what is stale.
DropStale ==
  /\ file' = [k \in Jobs |-> IF k \in Stale THEN "none" ELSE file[k]]
  /\ UNCHANGED <<logRows, dangling, late, orphans, exportsLeft>>
Look == /\ Stale # {} /\ jobs' = Without(Stale) /\ DropStale /\ UNCHANGED locals
NewJob(form) == [status |-> "pending", canceled |-> FALSE, fresh |-> TRUE, form |-> form]
Create(j, form) ==
  /\ exportAt[j] = "new" /\ j \in exportsLeft.jobs
  /\ jobs' = [k \in DOMAIN Without(Stale) \cup {j} |->
                IF k = j THEN NewJob(form) ELSE jobs[k]]
  /\ exportAt' = [exportAt EXCEPT ![j] = "begin"]
  /\ start' = [start EXCEPT ![j].form = form]
  /\ DropStale
  /\ UNCHANGED <<page, got, out>>
\* The same parameters as those of a job that exists, whatever its status.
Retry(j, k) == Exists(k) /\ Create(j, jobs[k].form)

Cancel(j) ==
  /\ Exists(j) /\ jobs[j].status \notin Final
  /\ jobs' = [jobs EXCEPT ![j].canceled = TRUE,
                          ![j].status = IF @ = "pending" THEN "canceled" ELSE @,
                          ![j].fresh = IF jobs[j].status = "pending" THEN TRUE ELSE @]
  /\ late' = IF exportAt[j] \in {"read", "write", "succeed"} THEN late \cup {j} ELSE late
  /\ UNCHANGED <<logRows, dangling, file, locals, orphans, exportsLeft>>

-----------------------------------------------------------------------------
(* The goroutine of a job.                                                   *)

Go(j, from, to) == exportAt[j] = from /\ exportAt' = [exportAt EXCEPT ![j] = to]
Kept == UNCHANGED <<logRows, dangling, late, orphans, exportsLeft>>

Begin(j) ==
  /\ IF IsCanceled(j) THEN Go(j, "begin", "giveUp") ELSE Go(j, "begin", "run")
  /\ UNCHANGED <<jobs, file, page, got, out, start>> /\ Kept
RunJob(j) ==
  /\ Go(j, "run", "path") /\ Update(j, "running")
  /\ UNCHANGED <<file, page, got, out, start>> /\ Kept
GetPath(j) ==
  /\ IF Exists(j) THEN Go(j, "path", "open") ELSE Go(j, "path", "done")
  /\ UNCHANGED <<jobs, file, page, got, out, start>> /\ Kept
Open(j) ==
  /\ Go(j, "open", "look")
  /\ file' = [file EXCEPT ![j] = "part"]
  /\ page' = [page EXCEPT ![j] = 1]
  /\ UNCHANGED <<jobs, got, out, start>> /\ Kept
LookAtFlag(j) ==
  /\ IF IsCanceled(j) THEN Go(j, "look", "giveUp") ELSE Go(j, "look", "read")
  /\ UNCHANGED <<jobs, file, page, got, out, start>> /\ Kept
Read(j) ==
  LET s == Page(start[j].form, page[j]) IN
  /\ Go(j, "read", IF s = {} THEN "write" ELSE "count")
  /\ got' = [got EXCEPT ![j].rows = s]
  /\ start' = IF page[j] = 1 THEN [start EXCEPT ![j].rows = logRows, ![j].came = {}] ELSE start
  /\ UNCHANGED <<jobs, file, page, out>> /\ Kept
\* Mutant of More: the page that has just been read is counted as one to come.
MoreButLast(j) == IF start[j].form.exact THEN page[j] + 1 < Pages
                  ELSE Cardinality(got[j].rows) > ExportPage
More(j) == IF start[j].form.exact THEN page[j] < Pages \/ Pages = 0
           ELSE Cardinality(got[j].rows) > ExportPage
Count(j) ==
  /\ Go(j, "count", "append")
  /\ got' = [got EXCEPT ![j].more = More(j)]
  /\ UNCHANGED <<jobs, file, page, out, start>> /\ Kept
\* The flag is looked at again at the first row of the page.
AppendPage(j) ==
  LET next == IF got[j].more THEN "look" ELSE "write" IN
  /\ IF IsCanceled(j)
     THEN Go(j, "append", "giveUp") /\ UNCHANGED <<jobs, out>>
     ELSE /\ Go(j, "append", next)
          /\ out' = [out EXCEPT ![j] = Append(@, Trimmed(start[j].form, got[j].rows))]
          /\ jobs' = [jobs EXCEPT ![j].fresh = TRUE]
  /\ page' = [page EXCEPT ![j] = @ + 1]
  /\ got' = [got EXCEPT ![j] = NoPage]
  /\ UNCHANGED <<file, start>> /\ Kept
\* The file may have been removed with its job: then nothing is left of it.
Write(j) ==
  /\ Go(j, "write", "succeed")
  /\ file' = [file EXCEPT ![j] = IF @ = "part" THEN "whole" ELSE @]
  /\ UNCHANGED <<jobs, page, got, out, start>> /\ Kept
Succeed(j) ==
  /\ Go(j, "succeed", "done") /\ Update(j, "success")
  /\ UNCHANGED <<file, page, got, out, start>> /\ Kept
\* Mutant of GiveUp: the file is not removed.
GiveUpLeavingFile(j) ==
  /\ Go(j, "giveUp", "done") /\ Update(j, "canceled")
  /\ UNCHANGED <<file, page, got, out, start>> /\ Kept
GiveUp(j) ==
  /\ Go(j, "giveUp", "done") /\ Update(j, "canceled")
  /\ file' = [file EXCEPT ![j] = "none"]
  /\ UNCHANGED <<page, got, out, start>> /\ Kept
\* Mutant of Fail: the job is not told.
FailSilently(j) ==
  /\ exportAt[j] \in {"open", "read", "count", "append", "write"} /\ exportsLeft.faults > 0
  /\ exportAt' = [exportAt EXCEPT ![j] = "done"]
  /\ file' = [file EXCEPT ![j] = "none"]
  /\ exportsLeft' = [exportsLeft EXCEPT !.faults = @ - 1]
  /\ UNCHANGED <<logRows, dangling, jobs, page, got, out, start, late, orphans>>
\* Any call to the database, the workbook or the file.
Fail(j) ==
  /\ exportAt[j] \in {"open", "read", "count", "append", "write"} /\ exportsLeft.faults > 0
  /\ exportAt' = [exportAt EXCEPT ![j] = "done"] /\ Update(j, "failed")
  /\ file' = [file EXCEPT ![j] = "none"]
  /\ exportsLeft' = [exportsLeft EXCEPT !.faults = @ - 1]
  /\ UNCHANGED <<logRows, dangling, page, got, out, start, late, orphans>>

-----------------------------------------------------------------------------
(* What happens around the jobs.                                            *)

DayPasses ==
  /\ exportsLeft.days > 0 /\ exportsLeft' = [exportsLeft EXCEPT !.days = @ - 1]
  /\ jobs' = [k \in DOMAIN jobs |-> [jobs[k] EXCEPT !.fresh = FALSE]]
  /\ UNCHANGED <<logRows, dangling, file, locals, late, orphans>>
\* A row is inserted, at its place in time; the retention removes the oldest.
Insert(r) ==
  /\ logRows' = logRows \cup {r} /\ exportsLeft' = [exportsLeft EXCEPT !.rows = @ \ {r}]
  /\ start' = [j \in Jobs |-> [start[j] EXCEPT !.came = @ \cup {r}]]
  /\ UNCHANGED <<dangling, jobs, file, exportAt, page, got, out, late, orphans>>
Retention ==
  /\ logRows # {} /\ exportsLeft.removals > 0 /\ exportsLeft' = [exportsLeft EXCEPT !.removals = @ - 1]
  /\ logRows' = logRows \ {Min(logRows)}
  /\ UNCHANGED <<dangling, jobs, file, locals, late, orphans>>
\* The map and the goroutines are gone, the files are not.
Restart ==
  /\ exportsLeft.restarts > 0 /\ exportsLeft' = [exportsLeft EXCEPT !.restarts = @ - 1]
  /\ jobs' = <<>>
  /\ exportAt' = [j \in Jobs |-> IF exportAt[j] = "new" THEN "new" ELSE "done"]
  /\ orphans' = {j \in Jobs : file[j] # "none"}
  /\ UNCHANGED <<logRows, dangling, file, page, got, out, start, late>>

ExportInit ==
  /\ logRows = Row0 /\ dangling \in Dangling
  /\ jobs = <<>> /\ file = [j \in Jobs |-> "none"]
  /\ exportAt = [j \in Jobs |-> "new"]
  /\ page = [j \in Jobs |-> 0] /\ got = [j \in Jobs |-> NoPage] /\ out = [j \in Jobs |-> <<>>]
  /\ start = [j \in Jobs |-> [form |-> [exact |-> TRUE, fast |-> TRUE, asc |-> FALSE],
                              rows |-> {}, came |-> {}]]
  /\ late = {} /\ orphans = {}
  /\ exportsLeft \in ExportBudgets

Goroutine(j) ==
  \/ Begin(j) \/ RunJob(j) \/ GetPath(j) \/ Open(j) \/ LookAtFlag(j) \/ Read(j) \/ Count(j)
  \/ AppendPage(j) \/ Write(j) \/ Succeed(j) \/ GiveUp(j)
ExportNext ==
  \/ \E j \in Jobs :
       \/ Goroutine(j) \/ Fail(j) \/ Cancel(j)
       \/ \E f \in exportsLeft.forms : Create(j, f)
       \/ \E k \in Jobs : Retry(j, k)
  \/ \E r \in exportsLeft.rows : Insert(r)
  \/ Look \/ DayPasses \/ Retention \/ Restart

ExportSpec == ExportInit /\ [][ExportNext]_exportVars /\ \A j \in Jobs : WF_exportVars(Goroutine(j))
-----------------------------------------------------------------------------
(* Properties                                                              *)

Shows(j, status) == Exists(j) /\ jobs[j].status = status

\* What a job shows agrees with its file: a file that is offered is whole, and a
\* file that nobody will offer or remove any more was left by a restart.
FilesOwned ==
  \A j \in Jobs :
    /\ Shows(j, "success") => file[j] = "whole"
    /\ file[j] # "none" => \/ Exists(j) /\ ~Shows(j, "failed") /\ ~Shows(j, "canceled")
                           \/ exportAt[j] # "done" \/ j \in orphans

\* A job whose cancelling was accepted is not shown as a success, except when
\* its goroutine had looked at the flag for the last time: although a job that
\* is cancelled as it begins is shown as running again.
CancelHonoured == \A j \in Jobs : Shows(j, "success") /\ jobs[j].canceled => j \in late

Written(j) == UNION {out[j][i] : i \in DOMAIN out[j]}

\* The rows that an export from the newest to the oldest finds at its first page
\* are all in its file, whatever is inserted meanwhile, unless the retention
\* removed them or their names are missing.  (A fast query loses whole pages
\* when a name is missing.)
NothingMissed ==
  \A j \in Jobs :
    Shows(j, "success") /\ ~start[j].form.asc /\ (start[j].form.fast => dangling = {})
      => (start[j].rows \cap logRows) \ dangling \subseteq Written(j)

\* An export from the oldest to the newest has no row twice of those it finds at
\* its first page, as long as nothing older is inserted.  (A fast query that does
\* not count may, when a name is missing.)
NothingTwice ==
  \A j \in Jobs :
    /\ start[j].form.asc /\ (start[j].form.fast /\ ~start[j].form.exact => dangling = {})
    /\ \A r \in start[j].came, q \in start[j].rows : q < r
    => \A a, b \in DOMAIN out[j] : a # b => out[j][a] \cap out[j][b] \cap start[j].rows = {}

\* A file has every row once, from either end.
RowsExported == NothingMissed /\ NothingTwice

\* Every job that was begun ends, and then says so as long as it exists.
JobEnds ==
  []<>(\A j \in Jobs : \/ exportAt[j] = "new"
                       \/ exportAt[j] = "done" /\ (Exists(j) => jobs[j].status \in Final))
=============================================================================
