--------------------------- MODULE DerivedTables ---------------------------
(***************************************************************************)
(* What the tables derived from the log rows of a website hold: the         *)
(* statements of internal/store/repository_backfill.go that compute them     *)
(* from the rows.  LogStore executes them and Statistics answers from them.  *)
(*                                                                         *)
(* A line is a record [ip, url, ts, pv, code, bytes, fp]: address, page, second,   *)
(* whether it is a page view, status code, size and whether it has a         *)
(* fingerprint.  A row is a stored line: its id n (lines without a            *)
(* fingerprint can be stored many times) and the ids its address and its     *)
(* page had in the dimension tables.  The visitor of a session is an address *)
(* and a user agent; here every address uses one user agent.                 *)
(***************************************************************************)
EXTENDS Integers, FiniteSets, FiniteSetsExt, SequencesExt

CONSTANTS
  Hour, Day,   \* seconds of an hour and of a day
  Gap          \* sessionGapSeconds

ASSUME BucketsAssumption ==
  Hour \in Nat \ {0} /\ Day \in Nat \ {0} /\ Gap \in Nat /\ Day % Hour = 0

HourOf(ts) == (ts \div Hour) * Hour
DayOf(ts) == (ts \div Day) * Day

\* SUM.
SumOf(f) == MapThenSumSet(LAMBDA x : f[x], DOMAIN f)

Counters == {"pv", "traffic", "s2xx", "s3xx", "s4xx", "s5xx", "other"}
StatusClass(code) ==
  CASE code \in 200..299 -> "s2xx"
    [] code \in 300..399 -> "s3xx"
    [] code \in 400..499 -> "s4xx"
    [] code \in 500..599 -> "s5xx"
    [] OTHER -> "other"

\* What one line adds to each counter of its hour and of its day.
Adds(line, c) ==
  CASE c = "pv" -> IF line.pv THEN 1 ELSE 0
    [] c = "traffic" -> IF line.pv THEN line.bytes ELSE 0
    [] OTHER -> IF c = StatusClass(line.code) THEN 1 ELSE 0

Zero == [c \in Counters |-> 0]
Tally(R) == [c \in Counters |-> SumOf([r \in R |-> Adds(r.line, c)])]
Plus(x, y) == [c \in Counters |-> x[c] + y[c]]

Views(R) == {r \in R : r.line.pv}
InHour(R, h) == {r \in R : HourOf(r.line.ts) = h}
InDay(R, d) == {r \in R : DayOf(r.line.ts) = d}
HourIPs(R) == {<<HourOf(r.line.ts), r.ip>> : r \in Views(R)}
DayIPs(R) == {<<DayOf(r.line.ts), r.ip>> : r \in Views(R)}

\* first_seen: the first page view of each address.
FirstViews(R) ==
  [i \in {r.ip : r \in Views(R)} |->
     Min({r.line.ts : r \in {v \in Views(R) : v.ip = i}})]

\* ORDER BY timestamp, id within one visitor.
Before(r, q) == r.line.ts < q.line.ts \/ (r.line.ts = q.line.ts /\ r.n < q.n)
\* A page view that opens a session: LAG(timestamp) is NULL or too old.
Opens(r, R) ==
  ~\E q \in Views(R) : /\ q.ip = r.ip /\ Before(q, r)
                       /\ r.line.ts - q.line.ts <= Gap
PagesFrom(r, R) ==
  {q \in Views(R) : /\ q.ip = r.ip /\ ~Before(q, r)
                    /\ ~\E s \in Views(R) : /\ s.ip = r.ip /\ Opens(s, R)
                                            /\ Before(r, s) /\ ~Before(q, s)}
LastOf(P) == CHOOSE q \in P : \A s \in P : ~Before(q, s)

\* The sessions that the rows make up, without their ids.
SessionOf(r, R) ==
  LET P == PagesFrom(r, R) IN
    [ip |-> r.ip, start |-> r.line.ts, end |-> LastOf(P).line.ts,
     entry |-> r.url, exit |-> LastOf(P).url, pages |-> Cardinality(P)]
SessionsOf(R) == {SessionOf(r, R) : r \in {v \in Views(R) : Opens(v, R)}}

\* session_state: the latest session of each visitor.
Latest(S, i) ==
  CHOOSE s \in S : /\ s.ip = i
                   /\ \A t \in S : t.ip = i =>
                        t.end < s.end \/ (t.end = s.end /\ t.id <= s.id)
StateOf(S) == [i \in {s.ip : s \in S} |->
                 [session |-> Latest(S, i).id, last |-> Latest(S, i).end]]

\* agg_session_daily, and agg_entry_daily: a count per day and entry page.
SessionsOn(S, d) == Cardinality({s \in S : DayOf(s.start) = d})
Entries(S) ==
  [k \in {<<DayOf(s.start), s.entry>> : s \in S} |->
     Cardinality({s \in S : k = <<DayOf(s.start), s.entry>>})]
AddEntries(f, g) ==
  [k \in DOMAIN f \cup DOMAIN g |->
     (IF k \in DOMAIN f THEN f[k] ELSE 0) + (IF k \in DOMAIN g THEN g[k] ELSE 0)]
EntriesWhere(f, K) == [k \in {j \in DOMAIN f : j[1] \in K} |-> f[k]]
=============================================================================
