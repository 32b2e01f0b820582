------------------------------ MODULE Notices ------------------------------
(***************************************************************************)
(* The system notifications: goroutines that meet a failure, or a line whose  *)
(* IP is on the whitelist, write a row of system_notifications or raise the    *)
(* count of the one with the same fingerprint (internal/ingest/notifications.go *)
(* and whitelist.go, internal/store/repository.go); a goroutine for each        *)
(* written failure pushes it to the channels (internal/alertpush); users page    *)
(* through them, mark them as read and clear them (internal/web/handler.go).    *)
(***************************************************************************)
EXTENDS Integers, FiniteSets, FiniteSetsExt, SequencesExt, Functions

CONSTANTS
  Failures, Rules,  \* fingerprints: of failures, of hits of the whitelist
  Scans, Pushes,    \* the ingesters: parseLogLines, and IngestLines
  Hits,             \* what an ingester reads: sequences of rules, NoRule for a line
                    \* that is not on the whitelist
  NoRule,
  NoticeBatch, NoticePage,
  Channels,         \* the channels that are enabled, in the order they are tried
  MaxPushes,        \* bound: pushes
  NoticeBounds      \* records of the failures, tests, faults, crashes and user actions

Prints == Failures \cup Rules
Ingesters == Scans \cup Pushes
NoticesConstants ==
  /\ NoRule \notin Rules /\ Failures \cap Rules = {}
  /\ Hits \subseteq Seq(Rules \cup {NoRule}) /\ IsFiniteSet(Ingesters)
  /\ NoticePage \in Nat \ {0}
ASSUME NoticesAssumption == NoticesConstants

VARIABLES
  notices,   \* the table: by fingerprint, [times, read, at]
  clock,     \* NOW()
  ing,       \* per ingester: [pc, todo, batch, batchHits, hits]
  pushes,    \* the goroutines that push: [want, todo, tried, alive], by number
  reader,    \* a user who reads page after page, see NoReader
  stored,    \* history: hits of the rows stored, per rule
  reread,    \* history: hits of lines of committed batches whose row was there, per rule
  cleared,   \* history: occurrences of the rows that were cleared, per rule
  hitsLost,  \* history: hits that a failure or a crash took, per rule
  noticesLeft

noticesVars == <<notices, clock, ing, pushes, reader, stored, reread, cleared, hitsLost, noticesLeft>>

None == [r \in Rules |-> 0]
Plus(f, g) == [r \in Rules |-> f[r] + g[r]]
Idle == [pc |-> "idle", todo |-> <<>>, batch |-> <<>>, batchHits |-> None, hits |-> None]
\* page: the next page; seen: what was read; start: the table at the first page;
\* touched: what has occurred again, and shifted: something was cleared since.
NoReader == [page |-> 0, seen |-> {}, start |-> {}, touched |-> {}, shifted |-> FALSE]

-----------------------------------------------------------------------------
(* The table.                                                              *)

Listed(f) == f \in DOMAIN notices
Raised(f, n) == IF Listed(f) THEN notices[f].times + n ELSE n
\* CreateSystemNotification, ...WithCount: one statement.
Upsert(f, n) ==
  /\ notices' = [g \in DOMAIN notices \cup {f} |->
                   IF g = f THEN [times |-> Raised(f, n), read |-> FALSE, at |-> clock]
                   ELSE notices[g]]
  /\ clock' = clock + 1
  /\ reader' = [reader EXCEPT !.touched = @ \cup {f}]
Deleted(F) ==
  /\ notices' = Restrict(notices, DOMAIN notices \ F)
  /\ cleared' = [r \in Rules |-> IF r \in F /\ Listed(r) THEN cleared[r] + notices[r].times
                                 ELSE cleared[r]]
  /\ reader' = [reader EXCEPT !.shifted = @ \/ F \cap DOMAIN notices # {}]

-----------------------------------------------------------------------------
(* A failure is met, and pushed.                                            *)

Push(want) ==
  pushes' = Append(pushes, [want |-> want, todo |-> want, tried |-> <<>>, alive |-> TRUE])
Notify(f) ==
  /\ noticesLeft.failures > 0 /\ noticesLeft' = [noticesLeft EXCEPT !.failures = @ - 1]
  /\ Upsert(f, 1)
  /\ Push(Channels)
  /\ UNCHANGED <<ing, stored, reread, cleared, hitsLost>>
\* The row cannot be written: nothing is pushed.
NotifyFails(f) ==
  /\ noticesLeft.failures > 0 /\ noticesLeft.faults > 0
  /\ noticesLeft' = [noticesLeft EXCEPT !.failures = @ - 1, !.faults = @ - 1]
  /\ UNCHANGED <<notices, clock, ing, pushes, reader, stored, reread, cleared, hitsLost>>
\* The test of some channels, which pass for enabled only if they are.
Test(S) ==
  /\ noticesLeft.tests > 0 /\ noticesLeft' = [noticesLeft EXCEPT !.tests = @ - 1]
  /\ Push(SelectSeq(Channels, LAMBDA c : S = {} \/ c \in S))
  /\ UNCHANGED <<notices, clock, ing, reader, stored, reread, cleared, hitsLost>>
Tried(i) == [pushes[i] EXCEPT !.todo = Tail(@), !.tried = Append(@, Head(pushes[i].todo))]
\* Mutant of TrySend: a channel that fails keeps the next ones from being tried.
TrySendOrStop(i) ==
  /\ pushes[i].todo # <<>>
  /\ \/ pushes' = [pushes EXCEPT ![i] = Tried(i)]
     \/ pushes' = [pushes EXCEPT ![i].todo = <<>>]
  /\ UNCHANGED <<notices, clock, ing, reader, stored, reread, cleared, hitsLost, noticesLeft>>
\* A channel answers, fails or times out: then comes the next.
TrySend(i) ==
  /\ pushes[i].todo # <<>>
  /\ pushes' = [pushes EXCEPT ![i] = Tried(i)]
  /\ UNCHANGED <<notices, clock, ing, reader, stored, reread, cleared, hitsLost, noticesLeft>>

-----------------------------------------------------------------------------
(* The hits of the whitelist among the lines that are ingested.                *)

IngestKept == UNCHANGED pushes
BeginIngest(w) ==
  /\ ing[w].pc = "idle" /\ noticesLeft.ingests > 0
  /\ \E s \in Hits : ing' = [ing EXCEPT ![w] = [Idle EXCEPT !.pc = "lines", !.todo = s]]
  /\ noticesLeft' = [noticesLeft EXCEPT !.ingests = @ - 1]
  /\ UNCHANGED <<notices, clock, reader, stored, reread, cleared, hitsLost>> /\ IngestKept
\* A line is put into the batch, and its hit into the hits of the batch.
TakeLine(w) ==
  LET i == ing[w]  r == Head(i.todo) IN
  /\ i.pc = "lines" /\ i.todo # <<>> /\ Len(i.batch) < NoticeBatch
  /\ ing' = [ing EXCEPT ![w].todo = Tail(@), ![w].batch = Append(@, r),
                        ![w].batchHits = IF r = NoRule THEN @ ELSE [@ EXCEPT ![r] = @ + 1]]
  /\ UNCHANGED <<notices, clock, reader, stored, reread, cleared, hitsLost, noticesLeft>> /\ IngestKept
Due(i) == i.pc = "lines" /\ i.batch # <<>> /\ (Len(i.batch) = NoticeBatch \/ i.todo = <<>>)
CountAt(s, P) == [r \in Rules |-> Cardinality({i \in P : s[i] = r})]
CountOf(s) == CountAt(s, DOMAIN s)
\* processBatch: the hits of a batch are counted once it is committed, those of the lines at
\* D too: their rows are there already, from a time they were read before, and the insert
\* drops them (ON CONFLICT DO NOTHING).
StoreBatch(w) ==
  /\ Due(ing[w])
  /\ ing' = [ing EXCEPT ![w].batch = <<>>, ![w].batchHits = None,
                        ![w].hits = Plus(@, ing[w].batchHits)]
  /\ \E D \in SUBSET DOMAIN ing[w].batch :
       /\ reread' = Plus(reread, CountAt(ing[w].batch, D))
       /\ stored' = Plus(stored, CountAt(ing[w].batch, DOMAIN ing[w].batch \ D))
  /\ UNCHANGED <<notices, clock, reader, cleared, hitsLost, noticesLeft>> /\ IngestKept
\* Mutant of Dropped: the hits of the batch are kept.
DroppedRows(i) == [i EXCEPT !.batch = <<>>]
Dropped(i) == [i EXCEPT !.batch = <<>>, !.batchHits = None]
\* A scan goes on without the batch; a push answers with an error at once, without
\* flushing: the hits of its batches that were committed are not told.
BatchFails(w) ==
  /\ Due(ing[w]) /\ noticesLeft.faults > 0 /\ noticesLeft' = [noticesLeft EXCEPT !.faults = @ - 1]
  /\ IF w \in Scans
     THEN ing' = [ing EXCEPT ![w] = Dropped(@)] /\ UNCHANGED hitsLost
     ELSE ing' = [ing EXCEPT ![w] = Idle] /\ hitsLost' = Plus(hitsLost, ing[w].hits)
  /\ UNCHANGED <<notices, clock, reader, stored, reread, cleared>> /\ IngestKept
\* flushWhitelistHits, in any order.
Flush(w, r) ==
  /\ ing[w].pc = "lines" /\ ing[w].todo = <<>> /\ ing[w].batch = <<>> /\ ing[w].hits[r] > 0
  /\ Upsert(r, ing[w].hits[r])
  /\ ing' = [ing EXCEPT ![w].hits[r] = 0]
  /\ UNCHANGED <<stored, reread, cleared, hitsLost, noticesLeft>> /\ IngestKept
FlushFails(w, r) ==
  /\ ing[w].pc = "lines" /\ ing[w].todo = <<>> /\ ing[w].batch = <<>> /\ ing[w].hits[r] > 0
  /\ noticesLeft.faults > 0 /\ noticesLeft' = [noticesLeft EXCEPT !.faults = @ - 1]
  /\ ing' = [ing EXCEPT ![w].hits[r] = 0] /\ hitsLost' = [hitsLost EXCEPT ![r] = @ + ing[w].hits[r]]
  /\ UNCHANGED <<notices, clock, reader, stored, reread, cleared>> /\ IngestKept
EndIngest(w) ==
  /\ ing[w].pc = "lines" /\ ing[w].todo = <<>> /\ ing[w].batch = <<>> /\ ing[w].hits = None
  /\ ing' = [ing EXCEPT ![w] = Idle]
  /\ UNCHANGED <<notices, clock, reader, stored, reread, cleared, hitsLost, noticesLeft>> /\ IngestKept
Crash ==
  /\ noticesLeft.crashes > 0 /\ noticesLeft' = [noticesLeft EXCEPT !.crashes = @ - 1]
  /\ hitsLost' = [r \in Rules |-> hitsLost[r] + MapThenSumSet(LAMBDA w : ing[w].hits[r], Ingesters)]
  /\ ing' = [w \in Ingesters |-> Idle]
  /\ pushes' = [i \in DOMAIN pushes |-> [pushes[i] EXCEPT !.todo = <<>>, !.alive = FALSE]]
  /\ UNCHANGED <<notices, clock, reader, stored, reread, cleared>>

-----------------------------------------------------------------------------
(* The users.                                                              *)

\* The notices that occurred later are listed before.
Ahead(f) == Cardinality({g \in DOMAIN notices : notices[g].at > notices[f].at})
\* One more than a page is read, to tell whether there is a next one.
Window(page) == {f \in DOMAIN notices : Ahead(f) \in ((page - 1) * NoticePage)..(page * NoticePage)}
OnPage(page) == {f \in Window(page) : Ahead(f) < page * NoticePage}
\* Mutant of HasMore: a page more is expected when the rest fills it.
HasMoreThanPage(page) == Cardinality(Window(page)) > NoticePage + 1
HasMore(page) == Cardinality(Window(page)) > NoticePage
UserKept == UNCHANGED <<clock, ing, pushes, stored, reread, hitsLost>>
Spend == noticesLeft.user > 0 /\ noticesLeft' = [noticesLeft EXCEPT !.user = @ - 1]
ReadPage ==
  LET again == reader.page = 0
      page == IF again THEN 1 ELSE reader.page
  IN /\ Spend
     /\ reader' = [page |-> IF HasMore(page) THEN page + 1 ELSE 0,
                   seen |-> (IF again THEN {} ELSE reader.seen) \cup OnPage(page),
                   start |-> IF again THEN DOMAIN notices ELSE reader.start,
                   touched |-> IF again THEN {} ELSE reader.touched,
                   shifted |-> ~again /\ reader.shifted]
     /\ UNCHANGED <<notices, cleared>> /\ UserKept
MarkRead(F) ==
  /\ Spend
  /\ notices' = [f \in DOMAIN notices |->
                   [notices[f] EXCEPT !.read = @ \/ f \in F]]
  /\ UNCHANGED <<reader, cleared>> /\ UserKept
Clear(F) == Spend /\ Deleted(F) /\ UserKept

NoticesInit ==
  /\ notices = <<>> /\ clock = 1 /\ ing = [w \in Ingesters |-> Idle]
  /\ pushes = <<>> /\ reader = NoReader
  /\ stored = None /\ reread = None /\ cleared = None /\ hitsLost = None /\ noticesLeft \in NoticeBounds
IngestStep(w) ==
  \/ TakeLine(w) \/ StoreBatch(w) \/ EndIngest(w) \/ \E r \in Rules : Flush(w, r)
Pushing(i) == i \in DOMAIN pushes /\ TrySend(i)
NoticesNext ==
  \/ \E f \in Failures : Notify(f) \/ NotifyFails(f)
  \/ \E S \in SUBSET ToSet(Channels) : Test(S)
  \/ \E i \in 1..MaxPushes : Pushing(i)
  \/ \E w \in Ingesters : BeginIngest(w) \/ IngestStep(w) \/ BatchFails(w)
                          \/ \E r \in Rules : FlushFails(w, r)
  \/ \E F \in SUBSET DOMAIN notices : F # {} /\ (MarkRead(F) \/ Clear(F))
  \/ ReadPage \/ Crash
\* The pushes are goroutines of their own.
NoticesSpec == NoticesInit /\ [][NoticesNext]_noticesVars /\ \A i \in 1..MaxPushes : WF_noticesVars(Pushing(i))
-----------------------------------------------------------------------------
(* Properties                                                              *)

\* The counts of the whitelist's notices are the hits of the rows that were stored, and
\* those of lines read again (once for every time): each is told once, is still held by its
\* ingester, or was taken by the user who cleared it or by a failure or a crash, the error
\* answer of a push among them, which does not flush what it holds; a batch that was not
\* committed is not told.
HitsCounted ==
  \A r \in Rules :
    stored[r] + reread[r] =
      (IF Listed(r) THEN notices[r].times ELSE 0) + cleared[r] + hitsLost[r]
      + MapThenSumSet(LAMBDA w : ing[w].hits[r], Ingesters)

\* A user who pages to the end has seen every notice that was there from the start
\* and did not occur again, whatever new ones came, unless some were cleared.
ListedAll ==
  reader.page = 0 /\ ~reader.shifted
    => (reader.start \cap DOMAIN notices) \ reader.touched \subseteq reader.seen

\* What is pushed is tried on each of its channels in the end: one that fails keeps
\* no other from it, only a crash does.
PushedToAll ==
  []<>(\A i \in DOMAIN pushes : pushes[i].alive => pushes[i].tried = pushes[i].want)
=============================================================================
