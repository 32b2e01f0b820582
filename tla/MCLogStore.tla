----------------------------- MODULE MCLogStore -----------------------------
(***************************************************************************)
(* The values Website is checked with.                                       *)
(***************************************************************************)
EXTENDS Website

-----------------------------------------------------------------------------
(* Batches, and jobs.                                                       *)

Line(i, u, t, f) == [ip |-> i, url |-> u, ts |-> t, pv |-> u # 13, code |-> 200,
                     bytes |-> 1, fp |-> f]
\* Two visitors that ask for the pages 11 and 12 in opposite orders, and a
\* batch that sends a line again.
Visits == {<<Line(1, 11, 3, TRUE), Line(1, 12, 4, TRUE)>>,
           <<Line(2, 12, 3, TRUE), Line(2, 11, 6, TRUE)>>,
           <<Line(1, 11, 3, TRUE), Line(1, 13, 2, TRUE)>>}
\* One page view each: the same visitor twice, and within a session.
Single == {<<Line(1, 11, 3, FALSE)>>, <<Line(1, 12, 4, TRUE)>>}
MCBatches == Visits \cup Single
MCOldLines == {Line(1, 12, 0, FALSE)}
MCRanges == {<<3, 4>>}
MCBudgets == {[of |-> Visits, batches |-> 2, jobs |-> 0, faults |-> 1],
              [of |-> Visits, batches |-> 1, jobs |-> 2, faults |-> 0],
              [of |-> Single, batches |-> 2, jobs |-> 1, faults |-> 0],
              [of |-> Single, batches |-> 1, jobs |-> 1, faults |-> 1]}

-----------------------------------------------------------------------------
(* Statistics: a day of four seconds has two hours, and today begins at 12 or 16.  *)
(* The lines lie in the last and the first second of a day, in the last hour of   *)
(* a week and of a month, and make up sessions over midnight.                   *)

Shows(ip, url, ts, pv, code, ref, took) ==
  [ip |-> ip, url |-> url, ts |-> ts, pv |-> pv, code |-> code, bytes |-> 1, fp |-> TRUE,
   ref |-> ref, took |-> took]
v1 == Shows("a", "x", 7, TRUE, 200, "direct", 0)
v2 == Shows("a", "y", 8, TRUE, 200, "search", 2)
v3 == Shows("b", "x", 11, TRUE, 500, "other", 1)
v4 == Shows("b", "y", 13, TRUE, 404, "search", 1)
v5 == Shows("a", "x", 15, TRUE, 500, "direct", 0)
v6 == Shows("b", "x", 16, FALSE, 301, "other", 2)
TablesShown ==
  {<<>>} \cup {<<l>> : l \in {v1, v2, v3, v4, v5, v6}}
  \cup {<<v1, v2>>, <<v3, v4>>, <<v4, v5>>, <<v1, v2, v4>>, <<v1, v2, v3, v4>>,
        <<v2, v3, v5>>, <<v1, v2, v3, v4, v5, v6>>}
Query(k, r, v, P) == [kind |-> k, range |-> r, view |-> v, on |-> P # {}, pages |-> P]
RangeNames == {"today", "yesterday", "week", "last7days", "month", "last30days"}
MCQueries ==
  [all |->
     {Query(k, r, "hourly", P) :
        k \in {"overall", "developer_daily", "referer_ip_batch"}, r \in RangeNames, P \in {{}, {"x"}}}
     \cup {Query("timeseries", r, v, P) :
             r \in {"today", "week"}, v \in {"hourly", "daily"}, P \in {{}, {"x"}}}
     \cup {Query(k, r, "hourly", {}) :
             k \in {"session_summary", "session", "url", "referer", "realtime"},
             r \in {"today", "month"}},
   few |-> {Query("overall", "today", "hourly", {}), Query("session", "today", "hourly", {})},
   days |-> {Query("overall", r, "hourly", {}) : r \in {"yesterday", "last7days"}},
   one |-> {Query("url", "today", "hourly", {})}]
Spare(w, a, q, l, t, c, f) ==
  [who |-> w, asks |-> a, ask |-> q, lines |-> l, ticks |-> t, clears |-> c, faults |-> f]
From(T, n, S, l) == [tables |-> T, nows |-> n, schemas |-> S, left |-> l]
NoStart == From({<<>>}, {12}, {"logs"}, Spare({}, 0, "one", <<>>, 0, 0, 0))
MCCases ==
  {NoStart,
   From(TablesShown, {12, 14, 15, 16, 19}, {"aggregates", "sessions", "logs"},
        Spare({1}, 1, "all", <<>>, 0, 0, 0)),
   From({<<v1, v2>>}, {11}, {"aggregates"}, Spare({1}, 1, "few", <<v5>>, 1, 0, 1)),
   From({<<v3, v5>>}, {15}, {"aggregates", "sessions"},
        Spare({1}, 1, "days", <<v2, v4>>, 0, 0, 0)),
   From({<<v1>>}, {11}, {"aggregates"}, Spare({1, 2}, 3, "one", <<>>, 3, 2, 0))}

-----------------------------------------------------------------------------
(* The part that a behaviour is not of is in one state.                       *)

MCInit ==
  /\ WebsiteInit
  /\ showing = (spare # NoStart.left)
  /\ showing =>
       old = {} /\ left = [of |-> Single, batches |-> 1, jobs |-> 1, faults |-> 1]
MCSpec == MCInit /\ [][WebsiteNext]_websiteVars /\ WebsiteFairness
=============================================================================
