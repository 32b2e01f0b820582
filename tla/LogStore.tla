------------------------------ MODULE LogStore ------------------------------
(***************************************************************************)
(* The tables of one website and everything that writes them:               *)
(* BatchInsertLogsForWebsite (one transaction per batch, called by the scan  *)
(* and by every push at once), CleanOldLogs, ClearLogsForWebsite, the range    *)
(* reparse with RebuildWebsiteDerivedData, and ensureWebsiteSchema at start. *)
(*                                                                         *)
(* A transaction of a batch is a worker's sequence of statements; what it      *)
(* writes is its own until it commits, and what it inserted or locked makes   *)
(* other transactions wait.  PostgreSQL runs at READ COMMITTED: a statement   *)
(* reads what is committed when it runs.  The counters are updated in        *)
(* ascending order under row and advisory locks that last until the commit,  *)
(* so that adding to them is part of the commit here.  The maintenance jobs   *)
(* hold no lock between their statements; what one of their functions does     *)
(* to the tables of one kind (the four counter tables, the session tables)     *)
(* is one statement here.                                                    *)
(***************************************************************************)
EXTENDS DerivedTables

CONSTANTS
  Workers,      \* goroutines that insert
  Batches,      \* the batches they may be given: sequences of lines
  OldLines,     \* lines a database of an earlier version holds
  Cutoff,       \* the retention limit
  Ranges,       \* pairs <<start, end>> a range reparse may be asked for
  MaxAttempts,
  Budgets       \* bounds: records of which batches and how many of them, and of
                \* how many jobs and faults, a behaviour has

Lines == OldLines \cup UNION {ToSet(b) : b \in Batches}
Names == {l.ip : l \in Lines} \cup {l.url : l \in Lines}
Hours == {HourOf(l.ts) : l \in Lines}
Days == {DayOf(l.ts) : l \in Lines}
URLs == {l.url : l \in Lines}
IPs == {l.ip : l \in Lines}

\* A line is one request of one visitor in one second.
ASSUME LinesAssumption ==
  /\ \A l \in Lines : l.ip \in Nat /\ l.url \in Nat /\ l.ts \in Nat /\ l.code \in Nat
                        /\ l.bytes \in Nat
  /\ IPs \cap URLs = {}
  /\ IsFiniteSet(OldLines) /\ \A l \in OldLines : ~l.fp
  /\ IsFiniteSet(Names)
  /\ \A b \in Batches : b \in Seq(Lines) \ {<<>>}
  /\ Cutoff \in Nat /\ MaxAttempts \in Nat \ {0}
  /\ Budgets \subseteq [of : SUBSET Batches, batches : Nat, jobs : Nat, faults : Nat]
ASSUME WorkersAssumption == IsFiniteSet(Workers)

VARIABLES
  dims, nextId,            \* the id of each address and page, 0 when it has none
  old,                     \* the table of an earlier version, before its migration
  rows,
  hourly, hourIPs, daily, dayIPs, firstSeen,
  sessions, sstate, sessDays, entryDays, nextSession,
  tx,                      \* per worker: its transaction
  job,                     \* the maintenance job: the statements it still has to run
  lag,      \* history: what a job left behind its rows and has not yet recomputed
  overlap,  \* history: a batch was committed since the job deleted what it clears
  dropped,  \* history: lines that a job removed
  lost,     \* history: ids removed while a row or a transaction used them
  blurred,  \* history: visitors whose session was written across a job
  left      \* what is left of the run's budget

counts == <<hourly, hourIPs, daily, dayIPs>>
visitTables == <<sessions, sstate, sessDays, entryDays, nextSession>>
history == <<lag, overlap, dropped, lost, blurred>>
vars == <<dims, nextId, old, rows, counts, firstSeen, visitTables, tx, job, history, left>>

NoIds == [v \in Names |-> 0]
Idle == [phase |-> "idle", batch |-> <<>>, at |-> 0, attempt |-> 0, ids |-> NoIds,
         fresh |-> {}, mine |-> {}, visits |-> <<>>, keys |-> {}, cache |-> <<>>,
         new |-> {}, upd |-> <<>>]
NoJob == [kind |-> "none", todo |-> <<>>]
NoState == [session |-> 0, last |-> 0]

Precedes(l, m) == \/ l.ip < m.ip
                  \/ l.ip = m.ip /\ l.ts < m.ts
                  \/ l.ip = m.ip /\ l.ts = m.ts /\ l.url < m.url
\* The batch in the order of its locks, as the set of that one sequence: lines
\* that are alike keep their order (sort.SliceStable).
SortForLocking(b) ==
  {[k \in DOMAIN b |-> b[p[k]]] :
     p \in {q \in Injection(DOMAIN b, DOMAIN b) :
              \A j, k \in DOMAIN b : j < k =>
                \/ Precedes(b[q[j]], b[q[k]])
                \/ ~Precedes(b[q[k]], b[q[j]]) /\ q[j] < q[k]}}

Attempt(b, n) == [Idle EXCEPT !.phase = "dims", !.batch = b, !.at = 1, !.attempt = n]

-----------------------------------------------------------------------------
(* One transaction of a batch.                                              *)

\* The dimension value the transaction needs next: the address, then the page.
NextName(t) ==
  LET l == t.batch[(t.at + 1) \div 2] IN IF t.at % 2 = 1 THEN l.ip ELSE l.url
Stored(l) == l.fp /\ \E r \in rows : r.line = l
\* Mutant of Pending: no unique index on (timestamp, fingerprint).
NothingPending(l, u) == FALSE
Pending(l, u) == l.fp /\ \E r \in tx[u].mine : r.line = l

\* Mutant of Waits: no advisory lock on the visitor.
WaitsForRows(w, u) ==
  LET t == tx[w] IN
  /\ u # w
  /\ \/ /\ t.phase = "dims"
        /\ t.ids[NextName(t)] = 0 /\ dims[NextName(t)] = 0
        /\ NextName(t) \in tx[u].fresh
     \/ /\ t.phase = "rows"
        /\ \E l \in ToSet(t.batch) : ~Stored(l) /\ Pending(l, u)
\* w waits for u: for the row it inserts, or for the lock on a visitor.
Waits(w, u) ==
  LET t == tx[w] IN
  /\ u # w
  /\ \/ /\ t.phase = "dims"
        /\ t.ids[NextName(t)] = 0 /\ dims[NextName(t)] = 0
        /\ NextName(t) \in tx[u].fresh
     \/ /\ t.phase = "rows"
        /\ \E l \in ToSet(t.batch) : ~Stored(l) /\ Pending(l, u)
     \/ /\ t.phase = "visits" /\ t.visits # <<>>
        /\ Head(t.visits).line.pv /\ Head(t.visits).ip \in tx[u].keys
Runs(w, phase) == tx[w].phase = phase /\ ~\E u \in Workers : Waits(w, u)

Begin(w) ==
  /\ tx[w].phase = "idle" /\ job.kind # "start" /\ left.batches > 0
  /\ \E b \in left.of : \E s \in SortForLocking(b) : tx' = [tx EXCEPT ![w] = Attempt(s, 1)]
  /\ left' = [left EXCEPT !.batches = @ - 1]
  /\ UNCHANGED <<dims, nextId, old, rows, counts, firstSeen, visitTables, job, history>>

\* The id the transaction found before, the one that is stored, or a new one.
IdFor(t, v) == IF t.ids[v] # 0 THEN t.ids[v] ELSE IF dims[v] # 0 THEN dims[v] ELSE nextId
\* INSERT ... ON CONFLICT DO NOTHING, then SELECT id.
GetOrCreateDimID(w) ==
  LET t == tx[w]
      v == NextName(t)
      create == IdFor(t, v) = nextId
  IN
  /\ Runs(w, "dims")
  /\ tx' = [tx EXCEPT ![w].ids[v] = IdFor(t, v),
                      ![w].fresh = IF create THEN @ \cup {v} ELSE @,
                      ![w].at = @ + 1,
                      ![w].phase = IF t.at = 2 * Len(t.batch) THEN "rows" ELSE @]
  /\ nextId' = IF create THEN nextId + 1 ELSE nextId
  /\ UNCHANGED <<dims, old, rows, counts, firstSeen, visitTables, job, history, left>>

\* The lines of a batch that become rows: RETURNING (timestamp, fingerprint),
\* and the first of several lines with the same key.
Taken(t) ==
  {i \in 1..Len(t.batch) :
     \/ ~t.batch[i].fp
     \/ ~Stored(t.batch[i]) /\ \A j \in 1..(i - 1) : t.batch[j] # t.batch[i]}
\* The ids of the rows are a series: a row that is inserted has a higher one
\* than every row before it.
Serials == {r.n : r \in rows \cup UNION {tx[u].mine : u \in Workers}}
RankIn(S, i) == Cardinality({j \in S : j <= i})
RowAt(t, i) ==
  LET l == t.batch[i] IN
    [line |-> l, ip |-> t.ids[l.ip], url |-> t.ids[l.url],
     n |-> Max(Serials \cup {0}) + RankIn(Taken(t), i)]
\* The rows that are inserted, in their order.
Inserted(t) ==
  [k \in 1..Cardinality(Taken(t)) |->
     RowAt(t, CHOOSE i \in Taken(t) : RankIn(Taken(t), i) = k)]

BulkInsertLogRows(w) ==
  LET t == tx[w] IN
  /\ Runs(w, "rows")
  /\ tx' = [tx EXCEPT ![w].mine = {RowAt(t, i) : i \in Taken(t)}, ![w].visits = Inserted(t),
                      ![w].phase = "visits"]
  /\ UNCHANGED <<dims, nextId, old, rows, counts, firstSeen, visitTables, job, history, left>>

\* f, and g where f says nothing (the provers cannot expand @@ of TLC).
Over(f, g) ==
  [x \in DOMAIN f \cup DOMAIN g |-> IF x \in DOMAIN f THEN f[x] ELSE g[x]]
Put(f, x, v) == Over([y \in {x} |-> v], f)

\* The session a page view is compared with, once the visitor is locked.
StateFor(t, i) ==
  IF i \in DOMAIN t.cache THEN t.cache[i]
  ELSE IF i \in DOMAIN sstate THEN sstate[i] ELSE NoState
\* What session_state says of i is not what sessions says.
Astray(i) == IF i \in DOMAIN sstate
             THEN \A s \in sessions : s.id # sstate[i].session
             ELSE \E s \in sessions : s.ip = i
Visited(w, i) ==
  /\ Runs(w, "visits") /\ tx[w].visits # <<>>
  /\ blurred' = IF i \notin DOMAIN tx[w].cache /\ Astray(i)
                THEN blurred \cup {i} ELSE blurred
  /\ UNCHANGED <<dims, nextId, old, rows, counts, firstSeen, sessions, sstate,
                 sessDays, entryDays, job, lag, overlap, dropped, lost, left>>

\* Not a page view, or one older than the last of its visitor.
NoVisit(w) ==
  LET r == Head(tx[w].visits)
      st == StateFor(tx[w], r.ip)
  IN
  /\ Visited(w, IF r.line.pv THEN r.ip ELSE 0)
  /\ ~r.line.pv \/ (st.session # 0 /\ r.line.ts < st.last)
  /\ tx' = [tx EXCEPT ![w].visits = Tail(@),
                      ![w].keys = IF r.line.pv THEN @ \cup {r.ip} ELSE @]
  /\ UNCHANGED nextSession

VisitOpens(w) ==
  LET r == Head(tx[w].visits)
      st == StateFor(tx[w], r.ip)
      s == [id |-> nextSession, ip |-> r.ip, start |-> r.line.ts, end |-> r.line.ts,
            entry |-> r.url, exit |-> r.url, pages |-> 1]
  IN
  /\ Visited(w, r.ip)
  /\ r.line.pv
  /\ st.session = 0 \/ (r.line.ts >= st.last /\ r.line.ts - st.last > Gap)
  /\ tx' = [tx EXCEPT ![w].visits = Tail(@), ![w].keys = @ \cup {r.ip},
                      ![w].new = @ \cup {s},
                      ![w].cache = Put(@, r.ip, [session |-> s.id, last |-> r.line.ts])]
  /\ nextSession' = nextSession + 1

VisitExtends(w) ==
  LET r == Head(tx[w].visits)
      st == StateFor(tx[w], r.ip)
      pages == IF st.session \in DOMAIN tx[w].upd THEN tx[w].upd[st.session].pages ELSE 0
      u == [end |-> r.line.ts, exit |-> r.url, pages |-> pages + 1]
  IN
  /\ Visited(w, r.ip)
  /\ r.line.pv
  /\ st.session # 0 /\ r.line.ts >= st.last /\ r.line.ts - st.last <= Gap
  /\ tx' = [tx EXCEPT ![w].visits = Tail(@), ![w].keys = @ \cup {r.ip},
                      ![w].upd = Put(@, st.session, u),
                      ![w].cache = Put(@, r.ip, [session |-> st.session, last |-> r.line.ts])]
  /\ UNCHANGED nextSession

\* UPDATE ... WHERE id = ?: no row, no effect.
Updated(s, upd) ==
  IF s.id \in DOMAIN upd
  THEN [s EXCEPT !.end = upd[s.id].end, !.exit = upd[s.id].exit, !.pages = @ + upd[s.id].pages]
  ELSE s
\* Mutant of Earliest: DO UPDATE SET first_ts = excluded.first_ts.
Later(f, g) == Over(g, f)
\* The earlier of what first_seen has and what the batch has.
Earliest(f, g) ==
  [i \in DOMAIN f \cup DOMAIN g |->
     Min({h[i] : h \in {k \in {f, g} : i \in DOMAIN k}})]
\* The counters of the batch, added to the stored ones.
AddHourly(R) == [h \in Hours |-> Plus(hourly[h], Tally(InHour(R, h)))]
AddDaily(R) == [d \in Days |-> Plus(daily[d], Tally(InDay(R, d)))]
AddHourIPs(R) == hourIPs \cup HourIPs(R)
AddDayIPs(R) == dayIPs \cup DayIPs(R)
AddSessions(S) == [d \in Days |-> sessDays[d] + SessionsOn(S, d)]
UpsertStates(cache) == Over(cache, sstate)

Commit(w) ==
  LET t == tx[w] IN
  /\ t.phase = "visits" /\ t.visits = <<>>
  /\ dims' = [v \in Names |-> IF v \in t.fresh THEN t.ids[v] ELSE dims[v]]
  /\ rows' = rows \cup t.mine
  /\ firstSeen' = Earliest(firstSeen, FirstViews(t.mine))
  /\ hourly' = AddHourly(t.mine) /\ daily' = AddDaily(t.mine)
  /\ hourIPs' = AddHourIPs(t.mine) /\ dayIPs' = AddDayIPs(t.mine)
  /\ sessDays' = AddSessions(t.new)
  /\ entryDays' = AddEntries(entryDays, Entries(t.new))
  /\ sessions' = {Updated(s, t.upd) : s \in sessions \cup t.new}
  /\ sstate' = UpsertStates(t.cache)
  /\ tx' = [tx EXCEPT ![w] = Idle]
  /\ overlap' = TRUE
  /\ UNCHANGED <<nextId, old, nextSession, job, lag, dropped, lost, blurred, left>>

\* PostgreSQL gives up one of a circle of waiting transactions (40P01), which
\* is repeated; any other error ends the batch.
Deadlocked(w) ==
  \E S \in SUBSET Workers : w \in S /\ \A u \in S : \E v \in S : Waits(u, v)
\* Mutant of DeadlockVictim: one attempt too many.
DeadlockVictimOnceMore(w) ==
  /\ Deadlocked(w)
  /\ tx' = [tx EXCEPT ![w] = IF @.attempt <= MaxAttempts
                             THEN Attempt(@.batch, @.attempt + 1) ELSE Idle]
  /\ UNCHANGED <<dims, nextId, old, rows, counts, firstSeen, visitTables, job, history, left>>
DeadlockVictim(w) ==
  /\ Deadlocked(w)
  /\ tx' = [tx EXCEPT ![w] = IF @.attempt < MaxAttempts
                             THEN Attempt(@.batch, @.attempt + 1) ELSE Idle]
  /\ UNCHANGED <<dims, nextId, old, rows, counts, firstSeen, visitTables, job, history, left>>
\* Mutant of Fail: the transaction is not rolled back.
FailOpen(w) ==
  /\ tx[w].phase # "idle" /\ left.faults > 0
  /\ tx' = [tx EXCEPT ![w].phase = "idle"]
  /\ left' = [left EXCEPT !.faults = @ - 1]
  /\ UNCHANGED <<dims, nextId, old, rows, counts, firstSeen, visitTables, job, history>>
Fail(w) ==
  /\ tx[w].phase # "idle" /\ left.faults > 0
  /\ tx' = [tx EXCEPT ![w] = Idle]
  /\ left' = [left EXCEPT !.faults = @ - 1]
  /\ UNCHANGED <<dims, nextId, old, rows, counts, firstSeen, visitTables, job, history>>

-----------------------------------------------------------------------------
(* The maintenance jobs: each statement is a step, batches go on between.    *)

CleanProgram ==
  <<"DeleteOldRows", "DeleteOrphans", "DeleteOldBuckets", "RebuildHour",
    "RebuildDay", "RebuildFirstSeen", "DeleteOldSessions", "DeleteState",
    "InsertState", "DeleteOldSessionDays", "RebuildSessionDay">>
ClearProgram ==
  <<"DeleteRows", "ClearDims", "ClearFirstSeen", "ClearAggregates",
    "ClearSessions", "ClearState", "ClearSessionAggs">>
\* Mutant of RebuildProgram: the counters of sessions before the sessions.
RebuildSwapped ==
  <<"DeleteRange", "BackfillAggregates", "BackfillFirstSeen",
    "BackfillSessionAggs", "BackfillSessions", "DeleteOrphans">>
RebuildProgram ==
  <<"DeleteRange", "BackfillAggregates", "BackfillFirstSeen",
    "BackfillSessions", "BackfillSessionAggs", "DeleteOrphans">>
MigrateProgram ==
  <<"Migrate", "BackfillAggregates", "BackfillFirstSeen",
    "BackfillSessions", "BackfillSessionAggs">>
StartProgram ==
  <<"AggregatesIfEmpty", "FirstSeenIfEmpty", "SessionsIfEmpty", "SessionAggsIfEmpty">>
Program == [clean |-> CleanProgram, clear |-> ClearProgram, rebuild |-> RebuildProgram]

\* ensureWebsiteSchema; the workers are started after it.
StartJob == [kind |-> "start",
             todo |-> IF old # {} THEN MigrateProgram ELSE StartProgram]

BeginJob(kind) ==
  /\ job = NoJob /\ left.jobs > 0
  /\ job' = [kind |-> kind, todo |-> Program[kind]]
  /\ left' = [left EXCEPT !.jobs = @ - 1]
  /\ UNCHANGED <<dims, nextId, old, rows, counts, firstSeen, visitTables, tx, history>>

At(s) == job.todo # <<>> /\ Head(job.todo) = s
Rest(todo) == IF todo = <<>> THEN NoJob ELSE [job EXCEPT !.todo = todo]
Advance == job' = Rest(Tail(job.todo)) /\ UNCHANGED <<tx, left>>

\* CleanOldLogs logs an error of one of its parts and goes on with the next.
Part(s) ==
  CASE s = "DeleteOldRows" -> "rows"
    [] s = "DeleteOrphans" -> "dims"
    [] s \in {"DeleteOldBuckets", "RebuildHour", "RebuildDay", "RebuildFirstSeen"} -> "aggregates"
    [] OTHER -> "sessions"
AfterPart(todo) ==
  SubSeq(todo, 1 + Cardinality({i \in DOMAIN todo : Part(todo[i]) = Part(todo[1])}), Len(todo))
StatementFails ==
  /\ job # NoJob /\ left.faults > 0
  /\ left' = [left EXCEPT !.faults = @ - 1]
  /\ LET s == Head(job.todo) IN
       job' = CASE job.kind = "start" -> StartJob
                [] job.kind = "clean" /\ s # "DeleteOldRows" ->
                     Rest(AfterPart(job.todo))
                [] OTHER -> NoJob
  /\ UNCHANGED <<dims, nextId, old, rows, counts, firstSeen, visitTables, tx, history>>

Crash ==
  /\ left.faults > 0
  /\ left' = [left EXCEPT !.faults = @ - 1]
  /\ tx' = [w \in Workers |-> Idle]
  /\ job' = StartJob
  /\ UNCHANGED <<dims, nextId, old, rows, counts, firstSeen, visitTables, history>>

KeysHeld == UNION {tx[w].keys : w \in Workers}
IdsOf(R) == {r.ip : r \in R} \cup {r.url : r \in R}
IdsHeld == UNION {{tx[w].ids[v] : v \in Names} : w \in Workers}

\* Statements on the rows.
RemoveRows(R, tokens) ==
  /\ rows' = rows \ R
  /\ dropped' = dropped \cup {r.line : r \in R}
  /\ lag' = lag \cup tokens
  /\ UNCHANGED <<dims, nextId, old, counts, firstSeen, visitTables, lost, blurred>>
DeleteOldRows ==
  LET R == {r \in rows : r.line.ts < Cutoff} IN
  /\ At("DeleteOldRows")
  /\ IF R = {}
     THEN /\ job' = NoJob
          /\ UNCHANGED <<rows, lag, tx, left, dims, nextId, old, counts, firstSeen,
                         visitTables, dropped, lost, blurred>>
     ELSE Advance /\ RemoveRows(R, {"hourCut", "dayCut", "first", "pagesCut"})
  /\ UNCHANGED overlap
DeleteRows ==
  /\ At("DeleteRows") /\ Advance /\ RemoveRows(rows, {"counts", "first", "pages"})
  /\ overlap' = FALSE
DeleteRange ==
  /\ At("DeleteRange") /\ Advance
  /\ \E g \in Ranges : RemoveRows({r \in rows : r.line.ts >= g[1] /\ r.line.ts < g[2]},
                              {"counts", "first", "pages"})
  /\ UNCHANGED overlap

\* Statements on the dimension tables.
RemoveIds(I, atRisk) ==
  /\ dims' = [v \in Names |-> IF dims[v] \in I THEN 0 ELSE dims[v]]
  /\ lost' = lost \cup ((I \cap atRisk) \ {0})
  /\ UNCHANGED <<nextId, old, rows, counts, firstSeen, visitTables, lag, overlap, dropped, blurred>>
\* Mutant of DeleteOrphans: only the addresses are looked for in the rows.
DeleteOrphansOfIPs ==
  /\ At("DeleteOrphans") /\ Advance
  /\ RemoveIds({dims[v] : v \in Names} \ {r.ip : r \in rows}, IdsHeld)
DeleteOrphans ==
  /\ At("DeleteOrphans") /\ Advance
  /\ RemoveIds({dims[v] : v \in Names} \ IdsOf(rows), IdsHeld)
ClearDims ==
  /\ At("ClearDims") /\ Advance
  /\ RemoveIds({dims[v] : v \in Names}, IdsHeld \cup IdsOf(rows))

\* migrateLegacyLogs: one transaction.
Migrate ==
  LET lines == SetToSeq(old)
      names == SetToSeq({l.ip : l \in old} \cup {l.url : l \in old})
      ids == [v \in Names |-> IF v \in ToSet(names)
                              THEN nextId - 1 + CHOOSE k \in DOMAIN names : names[k] = v
                              ELSE 0]
  IN
  /\ At("Migrate") /\ old # {} /\ Advance
  /\ dims' = ids
  /\ nextId' = nextId + Len(names)
  /\ rows' = {[line |-> lines[k], n |-> k, ip |-> ids[lines[k].ip],
               url |-> ids[lines[k].url]] : k \in DOMAIN lines}
  /\ old' = {}
  /\ lag' = lag \cup {"counts", "first"}
  /\ UNCHANGED <<counts, firstSeen, visitTables, overlap, dropped, lost, blurred>>

\* Statements on the counters.
SetCounts(h, hi, d, di, done) ==
  /\ hourly' = h /\ hourIPs' = hi /\ daily' = d /\ dayIPs' = di
  /\ lag' = lag \ done
  /\ UNCHANGED <<dims, nextId, old, rows, firstSeen, visitTables, overlap, dropped, lost, blurred>>
DeleteOldBuckets ==
  /\ At("DeleteOldBuckets") /\ Advance
  /\ SetCounts([h \in Hours |-> IF h < HourOf(Cutoff) THEN Zero ELSE hourly[h]],
               {p \in hourIPs : p[1] >= HourOf(Cutoff)},
               [d \in Days |-> IF d < DayOf(Cutoff) THEN Zero ELSE daily[d]],
               {p \in dayIPs : p[1] >= DayOf(Cutoff)}, {})
RebuildHour ==
  LET cut == HourOf(Cutoff) IN
  /\ At("RebuildHour") /\ Advance
  /\ SetCounts([h \in Hours |-> IF h = cut THEN Tally(InHour(rows, h)) ELSE hourly[h]],
               {p \in hourIPs : p[1] # cut} \cup HourIPs(InHour(rows, cut)),
               daily, dayIPs, {"hourCut"})
RebuildDay ==
  LET cut == DayOf(Cutoff) IN
  /\ At("RebuildDay") /\ Advance
  /\ SetCounts(hourly, hourIPs,
               [d \in Days |-> IF d = cut THEN Tally(InDay(rows, d)) ELSE daily[d]],
               {p \in dayIPs : p[1] # cut} \cup DayIPs(InDay(rows, cut)), {"dayCut"})
Recount ==
  SetCounts([h \in Hours |-> Tally(InHour(rows, h))], HourIPs(rows),
            [d \in Days |-> Tally(InDay(rows, d))], DayIPs(rows),
            {"counts", "hourCut", "dayCut"})
BackfillAggregates == At("BackfillAggregates") /\ Advance /\ Recount
AggregatesIfEmpty ==
  /\ At("AggregatesIfEmpty") /\ Advance
  /\ IF (\A h \in Hours : hourly[h] = Zero) /\ rows # {} THEN Recount
     ELSE UNCHANGED <<dims, nextId, old, rows, counts, firstSeen, visitTables, history>>
ClearAggregates ==
  /\ At("ClearAggregates") /\ Advance
  /\ SetCounts([h \in Hours |-> Zero], {}, [d \in Days |-> Zero], {},
               IF overlap THEN {} ELSE {"counts", "hourCut", "dayCut"})

\* Statements on first_seen.
SetFirstSeen(f, done) ==
  /\ firstSeen' = f
  /\ lag' = lag \ done
  /\ UNCHANGED <<dims, nextId, old, rows, counts, visitTables, overlap, dropped, lost, blurred>>
BackfillFirstSeen ==
  /\ At("BackfillFirstSeen") \/ At("RebuildFirstSeen")
  /\ Advance /\ SetFirstSeen(FirstViews(rows), {"first"})
FirstSeenIfEmpty ==
  /\ At("FirstSeenIfEmpty") /\ Advance
  /\ IF DOMAIN firstSeen = {} /\ rows # {} THEN SetFirstSeen(FirstViews(rows), {"first"})
     ELSE UNCHANGED <<dims, nextId, old, rows, counts, firstSeen, visitTables, history>>
ClearFirstSeen ==
  /\ At("ClearFirstSeen") /\ Advance
  /\ SetFirstSeen(<<>>, IF overlap THEN {} ELSE {"first"})

\* Statements on the session tables.
SetSessions(s, st, add, done, astray) ==
  /\ sessions' = s /\ sstate' = st
  /\ lag' = (lag \cup add) \ done
  /\ blurred' = astray \cup KeysHeld
  /\ UNCHANGED <<dims, nextId, old, rows, counts, firstSeen, sessDays, entryDays, dropped, lost>>
DeleteOldSessions ==
  /\ At("DeleteOldSessions") /\ Advance
  /\ SetSessions({s \in sessions : s.start >= Cutoff}, sstate, {"sessCut", "state"}, {"pagesCut"},
                 blurred)
  /\ UNCHANGED <<nextSession, overlap>>
DeleteState ==
  /\ At("DeleteState") /\ Advance
  /\ SetSessions(sessions, <<>>, {"state"}, {}, blurred)
  /\ UNCHANGED <<nextSession, overlap>>
InsertState ==
  /\ At("InsertState") /\ Advance
  /\ SetSessions(sessions, Over(StateOf(sessions), sstate), {}, {"state"}, blurred)
  /\ UNCHANGED <<nextSession, overlap>>
ClearSessions ==
  /\ At("ClearSessions") /\ Advance
  /\ SetSessions({}, sstate, {"state", "sessions"}, {"pages", "pagesCut"}, blurred)
  /\ overlap' = FALSE
  /\ UNCHANGED nextSession
ClearState ==
  /\ At("ClearState") /\ Advance
  /\ SetSessions(sessions, <<>>, {}, IF overlap THEN {} ELSE {"state"}, blurred)
  /\ UNCHANGED <<nextSession, overlap>>
Resession ==
  LET order == SetToSeq(SessionsOf(rows))
      S == {[ip |-> order[k].ip, start |-> order[k].start, end |-> order[k].end,
             entry |-> order[k].entry, exit |-> order[k].exit, pages |-> order[k].pages,
             id |-> nextSession + k - 1] : k \in DOMAIN order}
  IN
  /\ SetSessions(S, StateOf(S), {"sessions"}, {"pages", "pagesCut", "state"}, {})
  /\ nextSession' = nextSession + Len(order)
  /\ UNCHANGED overlap
BackfillSessions == At("BackfillSessions") /\ Advance /\ Resession
SessionsIfEmpty ==
  /\ At("SessionsIfEmpty") /\ Advance
  /\ IF sessions = {} /\ rows # {} THEN Resession
     ELSE UNCHANGED <<dims, nextId, old, rows, counts, firstSeen, visitTables, history>>

\* Statements on the counters of sessions.
SetSessionAggs(sd, ed, done) ==
  /\ sessDays' = sd /\ entryDays' = ed
  /\ lag' = lag \ done
  /\ UNCHANGED <<dims, nextId, old, rows, counts, firstSeen, sessions, sstate, nextSession,
                 overlap, dropped, lost, blurred>>
DeleteOldSessionDays ==
  /\ At("DeleteOldSessionDays") /\ Advance
  /\ SetSessionAggs([d \in Days |-> IF d < DayOf(Cutoff) THEN 0 ELSE sessDays[d]],
                    EntriesWhere(entryDays, {d \in Days : d >= DayOf(Cutoff)}), {})
RebuildSessionDay ==
  LET cut == DayOf(Cutoff) IN
  /\ At("RebuildSessionDay") /\ Advance
  /\ SetSessionAggs([d \in Days |-> IF d = cut THEN SessionsOn(sessions, d) ELSE sessDays[d]],
                    AddEntries(EntriesWhere(entryDays, Days \ {cut}),
                               EntriesWhere(Entries(sessions), {cut})), {"sessCut"})
RecountSessions ==
  SetSessionAggs([d \in Days |-> SessionsOn(sessions, d)], Entries(sessions),
                 {"sessions", "sessCut"})
BackfillSessionAggs == At("BackfillSessionAggs") /\ Advance /\ RecountSessions
SessionAggsIfEmpty ==
  /\ At("SessionAggsIfEmpty") /\ Advance
  /\ IF /\ (\A d \in Days : sessDays[d] = 0) \/ entryDays = <<>>
        /\ sessions # {}
     THEN RecountSessions
     ELSE UNCHANGED <<dims, nextId, old, rows, counts, firstSeen, visitTables, history>>
ClearSessionAggs ==
  /\ At("ClearSessionAggs") /\ Advance
  /\ SetSessionAggs([d \in Days |-> 0], <<>>,
                    IF overlap THEN {} ELSE {"sessions", "sessCut"})

-----------------------------------------------------------------------------
Init ==
  /\ dims = NoIds /\ nextId = 1 /\ rows = {}
  /\ hourly = [h \in Hours |-> Zero] /\ hourIPs = {}
  /\ daily = [d \in Days |-> Zero] /\ dayIPs = {}
  /\ firstSeen = <<>> /\ sessions = {} /\ sstate = <<>> /\ nextSession = 1
  /\ sessDays = [d \in Days |-> 0] /\ entryDays = <<>>
  /\ tx = [w \in Workers |-> Idle]
  /\ old \in {{}, OldLines}
  /\ job = StartJob
  /\ lag = {} /\ overlap = FALSE /\ dropped = {} /\ lost = {} /\ blurred = {}
  /\ left \in Budgets

Statement ==
  \/ DeleteOldRows \/ DeleteRows \/ DeleteRange
  \/ DeleteOrphans \/ ClearDims \/ Migrate
  \/ DeleteOldBuckets \/ RebuildHour \/ RebuildDay
  \/ BackfillAggregates \/ AggregatesIfEmpty \/ ClearAggregates
  \/ BackfillFirstSeen \/ FirstSeenIfEmpty \/ ClearFirstSeen
  \/ DeleteOldSessions \/ DeleteState \/ InsertState
  \/ ClearSessions \/ ClearState \/ BackfillSessions \/ SessionsIfEmpty
  \/ DeleteOldSessionDays \/ RebuildSessionDay
  \/ BackfillSessionAggs \/ SessionAggsIfEmpty \/ ClearSessionAggs
Work(w) ==
  \/ GetOrCreateDimID(w) \/ BulkInsertLogRows(w)
  \/ NoVisit(w) \/ VisitOpens(w) \/ VisitExtends(w) \/ Commit(w)
  \/ DeadlockVictim(w)
Next ==
  \/ \E w \in Workers : Begin(w) \/ Work(w) \/ Fail(w)
  \/ \E k \in {"clean", "clear", "rebuild"} : BeginJob(k)
  \/ Statement \/ StatementFails \/ Crash

Spec == Init /\ [][Next]_vars

\* A transaction goes on until it has to wait, and PostgreSQL ends a circle of
\* waiting ones; a job goes on with its next statement.
FairSpec ==
  Spec /\ WF_vars(Statement) /\ \A w \in Workers : WF_vars(Work(w))
-----------------------------------------------------------------------------
(* Properties                                                              *)

Live(start, limit, token) == start > limit \/ (start = limit /\ token \notin lag)

TypeOK ==
  /\ \A v \in Names : dims[v] \in 0..(nextId - 1)
  /\ \A r \in rows : r.line \in Lines /\ r.n \in Nat \ {0}
  /\ \A w \in Workers : tx[w].phase \in {"idle", "dims", "rows", "visits"}
                        /\ tx[w].attempt \in 0..MaxAttempts
  /\ \A s \in sessions : s.id < nextSession /\ s.start <= s.end /\ s.pages > 0
  /\ Cardinality({s.id : s \in sessions}) = Cardinality(sessions)
  /\ lag \subseteq {"counts", "hourCut", "dayCut", "first", "pages", "pagesCut", "sessions",
                    "sessCut", "state"}

\* The counters and the sets of addresses of every hour and day that is not
\* past its retention are those of the rows of that hour and day: whatever
\* batches are inserted at once, fail, are repeated after a deadlock or carry
\* lines stored before, and whatever is removed and rebuilt between them.
CountsExact ==
  "counts" \notin lag =>
    /\ \A h \in Hours : Live(h, HourOf(Cutoff), "hourCut") =>
         /\ hourly[h] = Tally(InHour(rows, h))
         /\ {p \in hourIPs : p[1] = h} = HourIPs(InHour(rows, h))
    /\ \A d \in Days : Live(d, DayOf(Cutoff), "dayCut") =>
         /\ daily[d] = Tally(InDay(rows, d))
         /\ {p \in dayIPs : p[1] = d} = DayIPs(InDay(rows, d))

\* first_seen is the time of the first page view of every address, although
\* batches are committed in any order and old rows are removed.
FirstSeenExact == "first" \notin lag => firstSeen = FirstViews(rows)

\* The sessions per day and per entry page are those of the session table.
SessionCountsExact ==
  "sessions" \notin lag =>
    \A d \in Days : Live(d, DayOf(Cutoff), "sessCut") =>
      /\ sessDays[d] = SessionsOn(sessions, d)
      /\ EntriesWhere(entryDays, {d}) = EntriesWhere(Entries(sessions), {d})

\* The counters, the addresses and the first sights are what a recount of the rows would
\* make them, and the counters of sessions what one of the session table would (how the
\* sessions relate to the rows is SessionsSound).
TablesExact == CountsExact /\ FirstSeenExact /\ SessionCountsExact

\* A session counts no page view twice, and none that is not stored.
PagesAreViews ==
  {"pages", "pagesCut"} \cap lag = {} =>
    \A s \in sessions :
      s.pages <= Cardinality({r \in Views(rows) : /\ r.ip = s.ip
                                                 /\ r.line.ts \in s.start..s.end})

\* Two sessions of a visitor are more than the gap apart: concurrent batches do
\* not open a session twice.  Only the visitors of a batch that was open, or
\* that read session_state, while a job rewrote it are excepted.
SessionsSeparated ==
  \A s, t \in sessions :
    s # t /\ s.ip = t.ip /\ s.ip \notin blurred =>
      s.end + Gap < t.start \/ t.end + Gap < s.start

\* session_state names the latest session of each visitor and its end.
StateFollowsSessions ==
  "state" \notin lag =>
    /\ DOMAIN sstate \cup blurred = {s.ip : s \in sessions} \cup blurred
    /\ \A i \in DOMAIN sstate \ blurred : sstate[i] = StateOf(sessions)[i]

\* The sessions, kept one visit at a time, are apart, count what is stored, and can be
\* gone on with from session_state.
SessionsSound == PagesAreViews /\ SessionsSeparated /\ StateFollowsSessions

\* An address or a page of a stored row is missing from its dimension table
\* only if it was removed while the batch that stored it was open, or while
\* the website was being cleared.
NoDangling ==
  \A r \in rows : IdsOf({r}) \subseteq {dims[v] : v \in Names} \cup lost

\* A rebuild that no statement fails of leaves every table exact, whatever is
\* inserted while it runs.
RebuildRepairs ==
  [][job.kind = "rebuild" /\ Len(job.todo) = 1 /\ left' = left /\ job' = NoJob
     => lag' = {}]_vars

\* The transactions together do what one insertion after another would do.
Contract == INSTANCE StoreContract WITH
  stored <- {[line |-> r.line, n |-> r.n] : r \in rows}
\* Refinement: LogStore implements StoreContract, with the rows that are committed.
StoresAsPromised == Contract!Spec

\* Every batch ends: a circle of transactions that wait for each other is
\* broken, and broken a bounded number of times.
BatchEnds == \A w \in Workers : tx[w].phase # "idle" ~> tx[w].phase = "idle"
=============================================================================
