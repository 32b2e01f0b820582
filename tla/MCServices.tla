----------------------------- MODULE MCServices -----------------------------
(***************************************************************************)
(* The values Services is checked with.                                       *)
(***************************************************************************)
EXTENDS Services

CONSTANTS j1, j2, scan, push

\* Export jobs: a job of every form while rows come and go; a job through a day, a
\* fault and a restart; two jobs through a day.
Form(e, f, a) == [exact |-> e, fast |-> f, asc |-> a]
Descending == {Form(TRUE, TRUE, FALSE), Form(FALSE, TRUE, FALSE), Form(FALSE, FALSE, FALSE)}
Ascending == {Form(TRUE, FALSE, TRUE), Form(FALSE, TRUE, TRUE), Form(FALSE, FALSE, TRUE)}
Budget(J, F, R, old, d, f, r) ==
  [jobs |-> J, forms |-> F, rows |-> R, removals |-> old, days |-> d, faults |-> f,
   restarts |-> r]
NoExport == Budget({}, {}, {}, 0, 0, 0, 0)
MCRow0 == {2, 3, 5}
MCDangling == {{}, {3}}
MCExportBudgets ==
  {NoExport,
   Budget({j1}, Descending, {1, 4, 6}, 1, 0, 0, 0),
   Budget({j1}, Ascending, {6, 7}, 1, 0, 0, 0),
   Budget({j1}, {Form(TRUE, TRUE, FALSE)}, {}, 0, 1, 1, 1),
   Budget({j1, j2}, {Form(FALSE, TRUE, FALSE)}, {}, 0, 1, 0, 0)}

\* Remote sources: a bucket, an SFTP server, a poor web server, one with tags only,
\* and gzip files of two of them; a long line at the end of the second object, or
\* before another.
MCWebServers == {<<FALSE, FALSE, FALSE, FALSE>>, <<TRUE, FALSE, FALSE, TRUE>>}
PollLimit(o, h, f, c, r, L) ==
  [objects |-> o, halves |-> h, faults |-> f, crashes |-> c, reparses |-> r, long |-> L]
MCPollLimits ==
  {PollLimit(1, 0, 1, 0, 0, {<<2, 2>>}), PollLimit(1, 0, 0, 1, 0, {}),
   PollLimit(0, 0, 1, 0, 1, {}), PollLimit(0, 0, 0, 1, 1, {}),
   PollLimit(1, 1, 0, 0, 0, {<<2, 1>>}), PollLimit(0, 1, 0, 1, 0, {})}

\* Notices: a scan and a push with hits, through a fault, or a crash, or with
\* failures; failures that a user pages through and clears.
Bound(f, i, t, x, c, u) ==
  [failures |-> f, ingests |-> i, tests |-> t, faults |-> x, crashes |-> c, user |-> u]
MCHits == {<<"r1", "r1", "none", "r2">>}
MCChannels == <<"feishu", "wecom">>
MCNoticeBounds ==
  {Bound(0, 2, 0, 1, 0, 1), Bound(0, 2, 0, 0, 1, 0), Bound(1, 1, 0, 1, 0, 0),
   Bound(3, 0, 0, 0, 0, 3), Bound(2, 0, 1, 0, 1, 0)}

\* The parts that a behaviour is not of are in one state.
OthersRest ==
  /\ part = "gate" \/ initialParsed = {}
  /\ (part = "export" <=> exportsLeft # NoExport) /\ (part = "export" \/ dangling = {})
  /\ \/ part = "remote"
     \/ source = S3Source(FALSE) /\ object.n = 0 /\ pollsLeft = PollLimit(0, 0, 0, 1, 1, {})
  /\ part = "notices" \/ noticesLeft = Bound(0, 2, 0, 0, 1, 0)
MCInit == OneInit /\ OthersRest
MCSpec == MCInit /\ [][OneNext]_allVars /\ OneFairness
=============================================================================
