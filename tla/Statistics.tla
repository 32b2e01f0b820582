----------------------------- MODULE Statistics -----------------------------
(******************************************************************************)
(* The statistics of a website (internal/analytics): a request asks a         *)
(* manager, which reads its figures statement by statement, from the tables   *)
(* derived from the rows (DerivedTables) when the pages are not filtered and  *)
(* from the rows when they are; what it answers is cached under the query's   *)
(* text (stats.go, stats_cache.go).  Rows are inserted, and time passes,      *)
(* between any two statements.                                                *)
(*                                                                            *)
(* A line has here also a referer, ref, and the time it took.  Ids are the    *)
(* addresses and the pages themselves.  A query is a record                   *)
(* [kind, range, view, on, pages]: on, whether pages are filtered, and those  *)
(* that the filter lets through.                                              *)
(******************************************************************************)
EXTENDS DerivedTables

CONSTANTS
  Minute,              \* seconds of a minute
  Week, Thirty,        \* days of a week, and of last30days
  MonthStarts,         \* the seconds that months begin with
  ActiveWindow,        \* the 15 minutes of activeVisitorCount
  ForecastWindow, MinWindow,   \* the two hours, and the half hour, of forecastSnapshot
  RealtimeWindow,      \* minutes of the realtime page
  TrendDays, SlowTime, SlowAverage,   \* developerTrendDays, developerSlowThresholdMs,
                                      \* developerIssueAvgSlowMs
  TopSize,             \* limit: entries of a list
  Expiry,              \* cacheExpiry
  Requests,            \* goroutines that answer requests
  Queries,             \* sets of queries, by name
  Cases                \* bounds: records of the rows and times to begin with, and of what is
                       \* left of the queries asked and who asks them, the rows inserted, the
                       \* seconds, the clears and the faults

Kinds == {"overall", "timeseries", "url", "referer", "referer_ip_batch", "session_summary",
          "session", "realtime", "developer_daily"}
TimeRanges == {"today", "yesterday", "week", "last7days", "month", "last30days"}
IsQuery(q) == /\ DOMAIN q = {"kind", "range", "view", "on", "pages"}
              /\ q.kind \in Kinds /\ q.range \in TimeRanges
              /\ q.view \in {"hourly", "daily"} /\ q.on \in BOOLEAN
IsLines(s) ==
  /\ s \in Seq(ToSet(s))
  /\ \A l \in ToSet(s) : /\ {l.ts, l.code, l.bytes, l.took} \subseteq Nat
                         /\ l.pv \in BOOLEAN
\* A second of a month that has one before it and one after it.
InCalendar(t) == t \in Nat /\ \E a, b, e \in MonthStarts : a < b /\ b <= t /\ t < e
Schemas == {"aggregates", "sessions", "logs"}

\* The lengths are constants of the code: a session ends well before a range does.
ASSUME StatAssumption ==
  /\ {Minute, Week, Thirty, MinWindow, RealtimeWindow, TrendDays} \subseteq Nat \ {0}
  /\ {ActiveWindow, ForecastWindow, SlowTime, SlowAverage, TopSize, Expiry} \subseteq Nat
  /\ Gap <= Day - Hour
  /\ MonthStarts \subseteq Nat /\ \A m \in MonthStarts : m % Day = 0
  /\ \A n \in DOMAIN Queries : \A q \in Queries[n] : IsQuery(q)
  /\ \A c \in Cases :
       /\ DOMAIN c.left = {"who", "asks", "ask", "lines", "ticks", "clears", "faults"}
       /\ c.left.ask \in DOMAIN Queries /\ c.schemas \subseteq Schemas
       /\ {c.left.asks, c.left.ticks, c.left.clears, c.left.faults} \subseteq Nat
       /\ IsLines(c.left.lines) /\ \A s \in c.tables : IsLines(s)
       /\ c.nows \subseteq Nat /\ \A n \in c.nows : \A k \in 0..c.left.ticks : InCalendar(n + k)

VARIABLES
  shown, now,
  schema,  \* which derived tables of the sessions there are
  sessionTable,  \* what they hold of each session: its address, its start and its entry page
  skipped, \* history: addresses with a page view that was stored after a later one of theirs
  cache,   \* per query: [ans, at], and its history [epoch, raced]
  req,     \* per request: see NoRequest
  epoch,   \* history: how often the cache was cleared
  spare

statVars == <<shown, now, schema, sessionTable, skipped, cache, req, epoch, spare>>

\* todo: the statements to come; ans: the figures read.  Histories: calm, whether
\* rows and day stayed as they were; failed, the figures that could not be read;
\* raced, whether the cache was cleared meanwhile; behind, how many clears the answer
\* missed; age, of the cached answer.
NoRequest == [pc |-> "idle"]

\* What a statement reads.
Db == [rows |-> shown, now |-> now, schema |-> schema, sessions |-> sessionTable]

-----------------------------------------------------------------------------
(* internal/timeutil, and previousTimeRange.                               *)

Of(from, to) == [from |-> from, to |-> to]
Today(db) == DayOf(db.now)
LastSecond(d) == d + Day - 1
LastHour(d) == d + Day - Hour
DaysBack(d, n) == d - n * Day
WholeDay(d) == Of(d, LastSecond(d))
Monday(d) == (d \div (Week * Day)) * Week * Day
MonthOf(t) == Max({m \in MonthStarts : m <= t})
NextMonth(m) == Min({n \in MonthStarts : n > m})

\* A week and a month end with the first second of their last hour.
TimePeriod(db, range) ==
  CASE range = "today" -> WholeDay(Today(db))
    [] range = "yesterday" -> WholeDay(DaysBack(Today(db), 1))
    [] range = "week" -> Of(Monday(Today(db)), LastHour(Monday(Today(db)) + (Week - 1) * Day))
    [] range = "last7days" -> Of(DaysBack(Today(db), Week - 1), LastSecond(Today(db)))
    [] range = "month" -> LET m == MonthOf(Today(db)) IN
         Of(m, LastHour(DaysBack(NextMonth(m), 1)))
    [] range = "last30days" -> Of(DaysBack(Today(db), Thirty - 1), LastSecond(Today(db)))

Preceding(db, n) == Of(DaysBack(Today(db), 2 * n - 1), LastSecond(DaysBack(Today(db), n)))
PreviousTimeRange(db, range) ==
  CASE range = "today" -> WholeDay(DaysBack(Today(db), 1))
    [] range = "yesterday" -> WholeDay(DaysBack(Today(db), 2))
    [] range = "last7days" -> Preceding(db, Week)
    [] range = "last30days" -> Preceding(db, Thirty)
    [] range = "week" -> LET p == TimePeriod(db, "week") IN
         Of(DaysBack(p.from, Week), DaysBack(p.to, Week))
    [] range = "month" -> LET end == MonthOf(Today(db)) - 1 IN Of(MonthOf(end), end)

\* The points of a chart: hours of one day, hours of several days, or days.
Steps(from, to, size) == {t \in from..to : (t - from) % size = 0}
TimePoints(db, range, view) ==
  LET p == TimePeriod(db, range)
      size == IF range \in {"today", "yesterday"} \/ view = "hourly" THEN Hour ELSE Day
  IN Steps(p.from, LastSecond(DayOf(p.to)), size)

-----------------------------------------------------------------------------
(* What the statements select.                                             *)

DaysOf(p) == Steps(DayOf(p.from), DayOf(p.to), Day)
\* The sum of a column of agg_daily.
Daily(db, p, c) == SumOf([d \in DaysOf(p) |-> Tally(InDay(db.rows, d))[c]])
\* The rows of a range, in the pages of the filter: the range's end is left out.
Raw(db, p, q) ==
  {r \in db.rows : /\ p.from <= r.line.ts /\ r.line.ts < p.to
                   /\ q.on => r.line.url \in q.pages}
Addresses(R) == {r.ip : r \in Views(R)}
Column(db, p, q, c) == IF q.on THEN Tally(Raw(db, p, q))[c] ELSE Daily(db, p, c)
DayVisitors(db, p) == {x[2] : x \in {y \in DayIPs(db.rows) : y[1] \in DaysOf(p)}}
Visitors(db, p, q) == IF q.on THEN Addresses(Raw(db, p, q)) ELSE DayVisitors(db, p)

\* The sessions that the rows of a range make up, one that began before it anew.
FromRows(db, p, q) == SessionsOf(Raw(db, p, q))
Started(S, p) == {s \in S : p.from <= s.start /\ s.start < p.to}
FromLogs(db, q) == q.on \/ db.schema = "logs"
\* Mutant of SessionCount: the sessions of a day begin anew at midnight.
SessionCountByDay(db, p, q) ==
  IF FromLogs(db, q) THEN Cardinality(FromRows(db, p, q))
  ELSE SumOf([d \in DaysOf(p) |-> Cardinality(SessionsOf(InDay(db.rows, d)))])
\* agg_session_daily and agg_entry_daily count the sessions of the table (LogStore).
SessionCount(db, p, q) ==
  IF FromLogs(db, q) THEN Cardinality(FromRows(db, p, q))
  ELSE IF db.schema = "aggregates"
       THEN SumOf([d \in DaysOf(p) |-> SessionsOn(db.sessions, d)])
       ELSE Cardinality(Started(db.sessions, p))
Tabled(db, p) ==
  IF db.schema = "aggregates" THEN {s \in db.sessions : DayOf(s.start) \in DaysOf(p)}
  ELSE Started(db.sessions, p)
EntryCounts(db, p, q) ==
  LET S == IF FromLogs(db, q) THEN FromRows(db, p, q) ELSE Tabled(db, p)
  IN [u \in {s.entry : s \in S} |-> Cardinality({s \in S : s.entry = u})]

\* The first entries of a list in an order, as many as fit; which of two equal ones is
\* left to CHOOSE, as no property is about it.
Top(S, Better(_, _)) ==
  CHOOSE T \in SUBSET S : /\ Cardinality(T) = Min({Cardinality(S), TopSize})
                         /\ \A x \in T, y \in S \ T : ~Better(y, x)
TopEntries(f) ==
  {[key |-> u, count |-> f[u]] : u \in Top(DOMAIN f, LAMBDA a, b : f[a] > f[b])}

-----------------------------------------------------------------------------
(* overall_stats.go.                                                       *)

StatusCodeHits(db, p, q) == [c \in Counters \ {"pv", "traffic"} |-> Column(db, p, q, c)]
ActiveVisitorCount(db, q) == Cardinality(Addresses(Raw(db, Of(db.now - ActiveWindow, db.now), q)))
NewReturning(db, p, q) ==
  LET first == FirstViews(db.rows) V == Visitors(db, p, q) IN
    [new |-> Cardinality({i \in V : p.from <= first[i] /\ first[i] < p.to}),
     returning |-> Cardinality({i \in V : first[i] < p.from})]

NoSnapshot == [pv |-> 0, uv |-> 0, sessions |-> 0]
Snapshot(db, p, q) ==
  [pv |-> Column(db, p, q, "pv"), uv |-> Cardinality(Visitors(db, p, q)),
   sessions |-> SessionCount(db, p, q)]
Round(a, b) == (2 * a + b) \div (2 * b)
CurrentEnd(db, p) == Max({p.from, Min({db.now, p.to})})
Scaled(db, x, p) ==
  LET elapsed == CurrentEnd(db, p) - p.from IN
    IF elapsed = 0 THEN x ELSE Round(x * (p.to - p.from), elapsed)
ForecastWeight(p) ==
  IF p.to - p.from <= Day THEN 7 ELSE IF p.to - p.from <= Week * Day THEN 5 ELSE 3
\* How many of a figure there will be at the end of the range: by the share of the
\* range that has passed, and by what came in a window before now.
Forecast(db, current, p, q, fails) ==
  LET end == CurrentEnd(db, p)
      window == Min({ForecastWindow, end - p.from})
      recent == Snapshot(db, Of(end - window, end), q)
      progress == [f \in DOMAIN current |-> Scaled(db, current[f], p)]
      rate(f) == progress[f] + Round(recent[f] * (p.to - end), window)
      w == ForecastWeight(p)
  IN IF end = p.to \/ window < MinWindow \/ fails \/ recent = NoSnapshot THEN progress
     ELSE [f \in DOMAIN current |-> Round(w * rate(f) + (10 - w) * progress[f], 10)]
\* Mutant of SameEnd: the range before may be shorter than what has passed of this one.
SameEndUncapped(prev, elapsed) == prev.from + elapsed
SameEnd(prev, elapsed) == Min({prev.from + elapsed, prev.to})
\* The range before is asked for again, with the time as it is now; a part that
\* fails is replaced.
Compare(db, range, p, q, current, failing) ==
  LET before == PreviousTimeRange(db, range)
      end == SameEnd(before, CurrentEnd(db, p) - p.from)
      prev == IF "previous" \in failing THEN NoSnapshot ELSE Snapshot(db, before, q)
  IN [previous |-> prev,
      sameTime |-> IF end = before.from \/ "sameTime" \in failing THEN prev
                   ELSE Snapshot(db, Of(before.from, end), q),
      forecast |-> Forecast(db, current, p, q, "forecast" \in failing)]

-----------------------------------------------------------------------------
(* timeseries_stats.go.                                                    *)

BucketOf(t, view) == IF view = "hourly" THEN HourOf(t) ELSE DayOf(t)
BucketSize(view) == IF view = "hourly" THEN Hour ELSE Day
\* Of several points in one bucket the last one has its figures.
Charted(P, view, f) ==
  [t \in P |-> IF \E u \in P : u > t /\ BucketOf(u, view) = BucketOf(t, view) THEN 0
               ELSE f[BucketOf(t, view)]]
Buckets(P, view) == {BucketOf(t, view) : t \in P}
InBucket(R, b, view) == {r \in R : BucketOf(r.line.ts, view) = b}
ChartRows(db, P, q) == IF q.on THEN Raw(db, Of(Min(P), Max(P) + BucketSize(q.view)), q) ELSE db.rows
PvPoints(db, P, q) ==
  Charted(P, q.view, [b \in Buckets(P, q.view) |->
                        Tally(InBucket(ChartRows(db, P, q), b, q.view))["pv"]])
UvPoints(db, P, q) ==
  Charted(P, q.view, [b \in Buckets(P, q.view) |->
                        Cardinality(Addresses(InBucket(ChartRows(db, P, q), b, q.view)))])

-----------------------------------------------------------------------------
(* client_stats.go, referer_ip_batch_stats.go, session_summary.go,         *)
(* session_stats.go, realtime_stats.go.                                    *)

KeyOf(r, dim) == CASE dim = "url" -> r.line.url [] dim = "referer" -> r.line.ref
                   [] OTHER -> r.ip
\* The list of a dimension: page views and visitors per key.
Clients(R, dim) ==
  LET of(k) == {r \in Views(R) : KeyOf(r, dim) = k}
      keys == {KeyOf(r, dim) : r \in Views(R)}
      f == [k \in keys |-> [pv |-> Cardinality(of(k)), uv |-> Cardinality(Addresses(of(k)))]]
      rank(k) == IF dim = "url" THEN <<f[k].pv, f[k].uv>> ELSE <<f[k].uv, f[k].pv>>
      better(a, b) == \/ rank(a)[1] > rank(b)[1]
                      \/ rank(a)[1] = rank(b)[1] /\ rank(a)[2] > rank(b)[2]
  IN {[key |-> k, pv |-> f[k].pv, uv |-> f[k].uv] : k \in Top(keys, better)}

SourceIs(kind, ref) ==
  CASE kind = "all" -> TRUE
    [] kind = "external" -> ref \notin {"direct", "search"}
    [] OTHER -> ref = kind
RefererIPs(db, p, q, kind) ==
  LET R == {r \in Views(Raw(db, p, q)) : SourceIs(kind, r.line.ref)}
      count(i) == Cardinality({r \in R : r.ip = i})
  IN [total |-> Cardinality(R),
      top |-> {[key |-> i, count |-> count(i)] :
                 i \in Top(Addresses(R), LAMBDA a, b : count(a) > count(b))}]

SummaryOf(S) ==
  [count |-> Cardinality(S), bounces |-> Cardinality({s \in S : s.pages <= 1}),
   duration |-> SumOf([s \in S |-> s.end - s.start])]
SessionList(S) == [total |-> Cardinality(S), page |-> Top(S, LAMBDA a, b : a.start > b.start)]

\* The window that ends when the request began, and its minutes.
RealtimeStart(at) == at - RealtimeWindow * Minute
RealtimeRows(db, at) == Raw(db, Of(RealtimeStart(at), at), [on |-> FALSE])
SeriesBucket(at, i) == RealtimeStart(at) \div Minute + i - 1
ActiveSeries(db, at) ==
  [i \in 1..RealtimeWindow |->
     Cardinality(Addresses(
       {r \in RealtimeRows(db, at) : r.line.ts \div Minute = SeriesBucket(at, i)}))]
RealtimeLists(db, at) ==
  LET R == RealtimeRows(db, at)  S == SessionsOf(R) IN
    [pages |-> Clients(R, "url"), referers |-> Clients(R, "referer"),
     entries |-> TopEntries([u \in {s.entry : s \in S} |->
                               Cardinality({s \in S : s.entry = u})])]

-----------------------------------------------------------------------------
(* developer_daily_stats.go.                                               *)

\* Mutant of DayRows: the day ends with its last second, as the ranges do.
DayRowsShort(db, d, q) == Raw(db, Of(d, LastSecond(d)), q)
DayRows(db, d, q) == Raw(db, Of(d, d + Day), q)
Slow(R) == Cardinality({r \in R : r.line.took >= SlowTime})
Errors(R) == Tally(R)["s5xx"]
DaySnapshot(R) == [total |-> Cardinality(R), s4xx |-> Tally(R)["s4xx"], s5xx |-> Errors(R),
                   slow |-> Slow(R)]
\* The day of the start of the range, whatever its length, and the one of the start
\* of the range before it.
TheDay(p) == DayOf(p.from)
Trend(db, p, q) ==
  [i \in 1..TrendDays |-> DaySnapshot(DayRows(db, DaysBack(TheDay(p), TrendDays - i), q))]
Timed(R) == {r \in R : r.line.took > 0}
SlowOnAverage(R) ==
  Timed(R) # {} /\ SumOf([r \in R |-> r.line.took]) >= SlowAverage * Cardinality(Timed(R))
Issues(R, prev) ==
  LET of(S, u) == {r \in S : r.line.url = u}
      bad == {u \in {r.line.url : r \in R} :
                Errors(of(R, u)) > 0 \/ Slow(of(R, u)) > 0 \/ SlowOnAverage(of(R, u))}
      worse(a, b) == \/ Errors(of(R, a)) > Errors(of(R, b))
                     \/ Errors(of(R, a)) = Errors(of(R, b)) /\ Slow(of(R, a)) > Slow(of(R, b))
  IN {[url |-> u, errors |-> Errors(of(R, u)), slow |-> Slow(of(R, u)),
       delta |-> Errors(of(R, u)) - Errors(of(prev, u))] : u \in Top(bad, worse)}

-----------------------------------------------------------------------------
(* The statements of a manager, each a set of figures read at once.  The          *)
(* statements of the comparison, of a group of referers, of the trend and of the  *)
(* lists of the realtime page are one step each.                                  *)

Plan(db, q) ==
  CASE q.kind = "overall" ->
         (IF q.on THEN <<{"totals", "uv"}>> ELSE <<{"totals"}, {"uv"}>>)
         \o <<{"codes"}, {"prevCodes"}>>
         \o (IF FromLogs(db, q) THEN <<{"sessions", "entries"}>> ELSE <<{"sessions"}, {"entries"}>>)
         \o <<{"active"}, {"visitors"}, {"prevVisitors"}, {"compare"}>>
    [] q.kind = "timeseries" -> IF q.on THEN <<{"pvPoints", "uvPoints"}>>
                                ELSE <<{"pvPoints"}, {"uvPoints"}>>
    [] q.kind \in {"url", "referer"} -> <<{"list"}>>
    [] q.kind = "referer_ip_batch" -> <<{"all"}, {"search"}, {"direct"}, {"external"}>>
    [] q.kind = "session_summary" -> <<{"summary"}>>
    [] q.kind = "session" -> <<{"sessionList"}>>
    [] q.kind = "realtime" -> <<{"activeNow"}, {"series"}, {"lists"}>>
    [] q.kind = "developer_daily" -> <<{"day"}, {"prevDay"}, {"trend"}, {"issues"}>>

\* The figures, of the rows and the time as they are now, for a request that
\* computed its range, and the one before it, when it began.
Figure(db, f, r) ==
  LET q == r.query  p == r.period IN
  CASE f = "totals" -> [pv |-> Column(db, p, q, "pv"), traffic |-> Column(db, p, q, "traffic")]
    [] f = "uv" -> Cardinality(Visitors(db, p, q))
    [] f = "codes" -> StatusCodeHits(db, p, q)
    [] f = "prevCodes" -> StatusCodeHits(db, r.previous, q)
    [] f = "sessions" -> SessionCount(db, p, q)
    [] f = "entries" -> TopEntries(EntryCounts(db, p, q))
    [] f = "active" -> ActiveVisitorCount(db, q)
    [] f = "visitors" -> NewReturning(db, p, q)
    [] f = "prevVisitors" -> NewReturning(db, r.previous, q)
    [] f = "pvPoints" -> PvPoints(db, r.points, q)
    [] f = "uvPoints" -> UvPoints(db, r.points, q)
    [] f = "list" -> Clients(Raw(db, p, q), q.kind)
    [] f \in {"all", "search", "direct", "external"} -> RefererIPs(db, p, q, f)
    [] f = "summary" -> SummaryOf(FromRows(db, p, q))
    [] f = "sessionList" -> SessionList(FromRows(db, p, q))
    [] f = "activeNow" -> Cardinality(Addresses(RealtimeRows(db, r.at)))
    [] f = "series" -> ActiveSeries(db, r.at)
    [] f = "lists" -> RealtimeLists(db, r.at)
    [] f = "day" -> DaySnapshot(DayRows(db, TheDay(p), q))
    [] f = "prevDay" -> DaySnapshot(DayRows(db, DayOf(r.previous.from), q))
    [] f = "trend" -> Trend(db, p, q)
    [] f = "issues" -> Issues(DayRows(db, TheDay(p), q), DayRows(db, DayOf(r.previous.from), q))
Current(ans) == [pv |-> ans.totals.pv, uv |-> ans.uv, sessions |-> ans.sessions]

\* What a manager puts in the place of a figure it cannot read, and only logs.
Nothing(f) ==
  CASE f \in {"codes", "prevCodes"} -> [c \in Counters \ {"pv", "traffic"} |-> 0]
    [] f \in {"visitors", "prevVisitors"} -> [new |-> 0, returning |-> 0]
    [] f = "entries" -> {}
    [] f = "lists" -> [pages |-> {}, referers |-> {}, entries |-> {}]
    [] OTHER -> 0
Optional == {"codes", "prevCodes", "sessions", "entries", "active", "visitors",
             "prevVisitors", "lists"}

-----------------------------------------------------------------------------
(* QueryStats.                                                             *)

Cached(kind) == kind \notin {"logs", "realtime", "session"}
Fresh(q) == q \in DOMAIN cache /\ now - cache[q].at <= Expiry
Begun(q) ==
  [pc |-> "query", query |-> q, at |-> now, period |-> TimePeriod(Db, q.range),
   previous |-> PreviousTimeRange(Db, q.range), points |-> TimePoints(Db, q.range, q.view),
   todo |-> Plan(Db, q), ans |-> <<>>, epoch |-> epoch,
   calm |-> TRUE, failed |-> {}, raced |-> FALSE, behind |-> 0, age |-> 0]
Given(q) ==
  [Begun(q) EXCEPT !.pc = "done", !.todo = <<>>, !.ans = cache[q].ans, !.calm = FALSE,
     !.epoch = cache[q].epoch, !.raced = cache[q].raced,
     !.behind = epoch - cache[q].epoch, !.age = now - cache[q].at]
Kept == UNCHANGED <<shown, now, schema, sessionTable, skipped, epoch>>

Ask(g, q) ==
  /\ req[g].pc \in {"idle", "done"} /\ g \in spare.who /\ spare.asks > 0
  /\ spare' = [spare EXCEPT !.asks = @ - 1]
  /\ req' = [req EXCEPT ![g] = IF Cached(q.kind) /\ Fresh(q) THEN Given(q) ELSE Begun(q)]
  /\ UNCHANGED cache /\ Kept

Reading(g) == req[g].pc = "query" /\ req[g].todo # <<>>
With(ans, F, v) == [f \in DOMAIN ans \cup F |-> IF f \in F THEN v[f] ELSE ans[f]]
ReadFigures(g) ==
  LET r == req[g]  F == Head(r.todo) IN
  /\ Reading(g) /\ F # {"compare"}
  /\ req' = [req EXCEPT ![g].todo = Tail(@),
                        ![g].ans = With(@, F, [f \in F |-> Figure(Db, f, r)])]
  /\ UNCHANGED <<cache, spare>> /\ Kept
CompareRanges(g, failing) ==
  LET r == req[g]
      v == Compare(Db, r.query.range, r.period, r.query, Current(r.ans), failing) IN
  /\ Reading(g) /\ Head(r.todo) = {"compare"} /\ Cardinality(failing) <= spare.faults
  /\ req' = [req EXCEPT ![g].todo = Tail(@), ![g].failed = @ \cup failing,
                        ![g].ans = With(@, {"compare"}, [compare |-> v])]
  /\ spare' = [spare EXCEPT !.faults = @ - Cardinality(failing)]
  /\ UNCHANGED cache /\ Kept
\* What is dropped with a figure that fails: entries and sessions are read together.
DroppedWith(F) == IF F \cap {"sessions", "entries"} # {} THEN {"sessions", "entries"} ELSE F
Without(r, D) == [r EXCEPT !.todo = SelectSeq(Tail(@), LAMBDA G : ~(G \subseteq D)),
                           !.failed = @ \cup D,
                           !.ans = With(@, D, [f \in D |-> Nothing(f)])]
\* A statement fails: its figures are left empty, or the request fails.
ReadFails(g) ==
  LET F == Head(req[g].todo) IN
  /\ Reading(g) /\ F # {"compare"} /\ spare.faults > 0
  /\ spare' = [spare EXCEPT !.faults = @ - 1]
  /\ req' = [req EXCEPT ![g] = IF F \subseteq Optional THEN Without(@, DroppedWith(F))
                               ELSE NoRequest]
  /\ UNCHANGED cache /\ Kept
\* The answer is cached, with figures that could not be read.
Answer(g) ==
  LET r == req[g] IN
  /\ r.pc = "query" /\ r.todo = <<>>
  /\ req' = [req EXCEPT ![g].pc = "done", ![g].behind = epoch - r.epoch]
  /\ cache' = IF Cached(r.query.kind)
              THEN [q \in DOMAIN cache \cup {r.query} |->
                      IF q = r.query THEN [ans |-> r.ans, at |-> now, epoch |-> r.epoch,
                                           raced |-> r.raced]
                      ELSE cache[q]]
              ELSE cache
  /\ UNCHANGED spare /\ Kept

-----------------------------------------------------------------------------
(* What happens meanwhile.                                                 *)

Disturbed ==
  [g \in Requests |-> IF req[g].pc = "idle" THEN req[g] ELSE [req[g] EXCEPT !.calm = FALSE]]
RowOf(line, n) == [n |-> n, ip |-> line.ip, url |-> line.url, line |-> line]
\* The session tables are kept one page view at a time: one opens a session when it is
\* the first of its visitor for longer than the gap, and one that is older than the
\* visitor's last is in none.
Visit(r) == [ip |-> r.ip, start |-> r.line.ts, entry |-> r.url]
ViewsBefore(x) == {r \in Views(shown) : r.ip = x.ip}
OpensVisit(x) == x.line.pv /\ \A r \in ViewsBefore(x) : x.line.ts - r.line.ts > Gap
ComesLate(x) == x.line.pv /\ \E r \in ViewsBefore(x) : x.line.ts < r.line.ts
Insert ==
  LET x == RowOf(Head(spare.lines), Cardinality(shown) + 1) IN
  /\ spare.lines # <<>> /\ spare' = [spare EXCEPT !.lines = Tail(@)]
  /\ shown' = shown \cup {x}
  /\ sessionTable' = IF OpensVisit(x) THEN sessionTable \cup {Visit(x)} ELSE sessionTable
  /\ skipped' = IF ComesLate(x) THEN skipped \cup {x.ip} ELSE skipped
  /\ req' = Disturbed
  /\ UNCHANGED <<now, schema, cache, epoch>>
Tick ==
  /\ spare.ticks > 0 /\ spare' = [spare EXCEPT !.ticks = @ - 1]
  /\ now' = now + 1
  /\ req' = Disturbed
  /\ UNCHANGED <<shown, schema, sessionTable, skipped, cache, epoch>>
\* Mutant of Emptied: what is cached stays.
EmptiedLater(c) == c
Emptied(c) == <<>>
\* An override of an IP, a reparse or a new configuration clears the cache.
ClearCache ==
  /\ spare.clears > 0 /\ spare' = [spare EXCEPT !.clears = @ - 1]
  /\ cache' = Emptied(cache) /\ epoch' = epoch + 1
  /\ req' = [g \in Requests |-> IF req[g].pc = "query" THEN [req[g] EXCEPT !.raced = TRUE]
                                ELSE req[g]]
  /\ UNCHANGED <<shown, now, schema, sessionTable, skipped>>

TableOf(s) == {RowOf(s[n], n) : n \in DOMAIN s}
\* The session tables after a rebuild from the rows.
Rebuilt(R) == {Visit(r) : r \in {v \in Views(R) : Opens(v, R)}}
StatInit ==
  /\ \E c \in Cases : /\ shown \in {TableOf(s) : s \in c.tables} /\ now \in c.nows
                      /\ schema \in c.schemas /\ spare = c.left
  /\ sessionTable = Rebuilt(shown) /\ skipped = {}
  /\ cache = <<>> /\ epoch = 0 /\ req = [g \in Requests |-> NoRequest]
StatNext ==
  \/ \E g \in Requests :
       \/ \E q \in Queries[spare.ask] : Ask(g, q)
       \/ ReadFigures(g) \/ ReadFails(g) \/ Answer(g)
       \/ \E F \in SUBSET {"previous", "sameTime", "forecast"} : CompareRanges(g, F)
  \/ Insert \/ Tick \/ ClearCache
StatSpec == StatInit /\ [][StatNext]_statVars
-----------------------------------------------------------------------------
(* Properties: what different requests show of the same rows fits together.  An   *)
(* answer is settled when it is complete, and nothing was inserted and no second  *)
(* passed since it was begun.                                                     *)

Settled(g, kind) ==
  req[g].pc = "done" /\ req[g].calm /\ req[g].failed = {} /\ req[g].query.kind = kind
\* What a range that ends with its last second, or its last hour, leaves out.
LeftOut(p) == Of(p.to, LastSecond(DayOf(p.to)) + 1)

\* The points of a chart of the same range, of hours or of days, add up to the
\* totals; filtered totals lack the page views of the range's end.
ChartsAgree ==
  \A g \in Requests : Settled(g, "overall") =>
    \A view \in {"hourly", "daily"} :
      LET r == req[g]
          q == [r.query EXCEPT !.view = view]
          P == TimePoints(Db, q.range, view)
      IN /\ SumOf(PvPoints(Db, P, q))
              = r.ans.totals.pv
                + IF q.on THEN Cardinality(Views(Raw(Db, LeftOut(r.period), q))) ELSE 0
         /\ r.ans.uv <= SumOf(UvPoints(Db, P, q))

\* Every visitor of a range is new or came before it, except those whom only the
\* tables of days count, who came first in the range's end.
VisitorsSplit ==
  \A g \in Requests : Settled(g, "overall") =>
    LET r == req[g]
        first == FirstViews(shown)
        late == {i \in DOMAIN first :
                   first[i] >= r.period.to /\ DayOf(first[i]) = DayOf(r.period.to)}
    IN r.ans.uv = r.ans.visitors.new + r.ans.visitors.returning
                  + IF r.query.on THEN 0 ELSE Cardinality(late)

\* The rows of the visitors whose page views were all stored in the order of their times.
InOrder(R) == {r \in R : r.ip \notin skipped}
\* The sessions of a range, by the day tables or by their own, are those that its
\* summary finds in the rows, which begins a session anew that began before the range,
\* and leaves out those that begin in the range's end.  Only for a visitor one of whose
\* page views was stored late, as a backfill's are, the tables may say something else.
SessionsAgree ==
  \A g \in Requests : Settled(g, "overall") /\ ~FromLogs(Db, req[g].query) =>
    LET r == req[g]
        S == SessionsOf(InOrder(shown))
        over == {s \in S : s.start < r.period.from /\ s.end >= r.period.from}
        late == IF schema = "aggregates" THEN Started(S, LeftOut(r.period)) ELSE {}
        others == {s \in Tabled(Db, r.period) : s.ip \in skipped}
    IN /\ r.ans.sessions + Cardinality(over) =
            SummaryOf(SessionsOf(InOrder(Raw(Db, r.period, r.query)))).count
              + Cardinality(late) + Cardinality(others)
       /\ SumOf([e \in r.ans.entries |-> e.count]) <= r.ans.sessions

\* The figures of the overview, the chart and the list of sessions of a range fit
\* together, although the one reads tables of days, the other rows, and the third
\* sessions, each with a bound of its own at the range's end.
OverallAgrees == ChartsAgree /\ VisitorsSplit /\ SessionsAgree

\* Up to the same time, the range before had no more than it has in all, and no less
\* is expected at the end of a range than there is already.
CompareOrdered ==
  \A g \in Requests : Settled(g, "overall") =>
    LET ans == req[g].ans IN
    \A f \in DOMAIN Current(ans) :
      /\ ans.compare.sameTime[f] <= ans.compare.previous[f]
      /\ ans.compare.forecast[f] >= Current(ans)[f]

\* The comparison is labelled "Same time yesterday" (and "... last week", webapp,
\* en-US.ts:522): no page view that is later than that time is counted.
SameTimeIsThen ==
  \A g \in Requests : Settled(g, "overall") =>
    LET r == req[g]
        before == PreviousTimeRange(Db, r.query.range)
        end == SameEnd(before, CurrentEnd(Db, r.period) - r.period.from)
    IN end > before.from =>
         r.ans.compare.sameTime.pv
           <= Cardinality(Views(Raw(Db, Of(before.from, end + 1), r.query)))

\* Every page view came from a search engine, directly, or from elsewhere.
SourcesAddUp ==
  \A g \in Requests : Settled(g, "referer_ip_batch") =>
    LET ans == req[g].ans IN
      ans.all.total = ans.search.total + ans.direct.total + ans.external.total

\* The day of the developer's page, read from the rows, has the errors that the table
\* of the days has, and is the last point of its trend.
DeveloperAgrees ==
  \A g \in Requests : Settled(g, "developer_daily") =>
    LET r == req[g] IN
      /\ ~r.query.on => \A c \in {"s4xx", "s5xx"} :
                           r.ans.day[c] = Daily(Db, WholeDay(TheDay(r.period)), c)
      /\ r.ans.trend[TrendDays] = r.ans.day

\* Whoever is active is in a point of the realtime series, or came in the minute that
\* is running only.
RealtimeCovers ==
  \A g \in Requests : Settled(g, "realtime") =>
    LET r == req[g]
        R == RealtimeRows(Db, r.at)
        running == Addresses({x \in R : x.line.ts \div Minute = r.at \div Minute})
                   \ Addresses({x \in R : x.line.ts \div Minute # r.at \div Minute})
    IN r.ans.activeNow <= SumOf([i \in 1..RealtimeWindow |-> r.ans.series[i]])
                          + Cardinality(running)

\* The pages of the sources, of the developer and of this moment leave nobody out.
PagesAgree == SourcesAddUp /\ DeveloperAgrees /\ RealtimeCovers

\* What is answered was read since the cache was last cleared, or by a request that
\* was under way then; and that is forgotten once it expires.
ClearedOrRaced ==
  \A g \in Requests :
    req[g].pc = "done" /\ req[g].behind > 0 => req[g].raced /\ req[g].age <= Expiry
=============================================================================
