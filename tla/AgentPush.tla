----------------------------- MODULE AgentPush -----------------------------
(***************************************************************************)
(* The delivery of log lines by the agent: cmd/nginxpulse-agent/main.go     *)
(* (one route), the handler of POST /api/ingest/logs with                   *)
(* LogParser.IngestLines, and the de-duplication cache internal/ingest/dedup. *)
(*                                                                         *)
(* The agent polls the files of a route, keeps the lines it read in memory  *)
(* and pushes all of them in one request; a request that fails is repeated  *)
(* after a growing delay.  The server handles each request in a goroutine   *)
(* of its own, which goes on when the agent has given up waiting for it, so *)
(* that a request and its repetition may be handled at the same time.       *)
(*                                                                         *)
(* As in FileScan, line k of a file fills its cells 2k-1 and 2k, and an odd  *)
(* size is a file whose last line is half written.  Lines are numbered      *)
(* through all the files a path has ever been.                              *)
(***************************************************************************)
EXTENDS Integers, Sequences, FiniteSets

CONSTANTS
  Paths,            \* paths of the route
  MaxLines,         \* bound: lines of one path, over all its files
  Text,             \* per path, the text of each of its lines
  Unparsable,       \* texts no row is made of
  Overlong,         \* texts longer than maxLineBytes
  LongHead,         \* those whose first half is already longer
  InitialTail,      \* initialTailBytes in cells, 0 when it is disabled
  InitialMaxLines,  \* 0 for no limit
  BatchSize, MaxPending,
  BackoffMin, BackoffMax, ExitOnMaxBackoff,
  ParseBatchSize,   \* the server's
  Handlers,         \* requests the server can be working on
  MaxFaults,        \* bound: lost requests, timeouts, failing reads and inserts
  MaxCrashes        \* bound: ends of the agent or of the server

ASSUME TextsAssumption ==
  /\ Text \in [Paths -> Seq(STRING)]
  /\ \A p \in Paths : Len(Text[p]) = MaxLines
  /\ LongHead \subseteq Overlong
\* initialTailBytes is at least 1 MiB: longer than a line.
ASSUME SizesAssumption ==
  /\ MaxLines \in Nat /\ InitialTail \in Nat \ {1} /\ InitialMaxLines \in Nat
  /\ BatchSize \in Nat \ {0} /\ MaxPending \in Nat \ {0}
  /\ ParseBatchSize \in Nat \ {0}
  /\ BackoffMin \in Nat \ {0} /\ BackoffMax \in Nat \ {0}
  /\ ExitOnMaxBackoff \in BOOLEAN
  /\ MaxFaults \in Nat /\ MaxCrashes \in Nat

VARIABLES
  base,     \* per path: lines of the files it was before
  size,     \* per path: the size of the file it is now
  offset, partial,  \* per path: fileState; the line whose first half is kept
  pending,  \* rt.pending
  push,     \* the rest of the routeRuntime, see Pushes
  req,      \* per handler: the request it works on
  seen,     \* the de-duplication cache
  rows,     \* the texts that are stored
  readBase, \* history: per path, base of the file the offset is about
  acked,    \* history: items removed from pending after an answer 200
  missed,   \* history: lines the agent cannot have read whole
  dropped,  \* history: texts of a batch that was marked seen and not stored
  spent     \* history: how much of each bound is used

fileVars == <<base, size>>
readVars == <<offset, partial, readBase>>
serverVars == <<req, seen, rows, dropped>>
vars == <<fileVars, readVars, pending, push, serverVars, acked, missed, spent>>

Line == Paths \X (1..MaxLines)

\* A line as the agent read it: two halves, head = 0 when the first is missing.
Items == [path: Paths, head: 0..MaxLines, tail: 1..MaxLines]
LineOf(item) == <<item.path, item.tail>>
Whole(item) == item.head = item.tail
TextOf(item) == Text[item.path][item.tail]
Parses(item) == Whole(item) /\ TextOf(item) \notin Unparsable

\* at: what the route is doing; call: the handler it waits for.
NoCall == "none"
Requests == [todo: Seq(Items), batch: SUBSET STRING,
             status: {"free", "lines", "insert", "ok", "failed"}]
Free == [todo |-> << >>, batch |-> {}, status |-> "free"]

----------------------------------------------------------------------------
(* computeBackoff.                                                          *)
doubled[n \in Nat] ==
  IF n = 0 THEN BackoffMin
  ELSE IF doubled[n - 1] >= BackoffMax THEN BackoffMax ELSE 2 * doubled[n - 1]

Least(a, b) == IF a < b THEN a ELSE b

computeBackoff(failures) ==
  IF failures = 0 THEN BackoffMin ELSE Least(doubled[failures - 1], BackoffMax)

\* The delay has reached its maximum by then: it doubles, from 1 at least.  Counting
\* more failures changes nothing.
FailureCap == BackoffMax

Pushes == [at: {"idle", "push", "wait"}, call: Handlers \cup {NoCall},
           failures: 0..FailureCap, waiting: BOOLEAN, reachedMax: BOOLEAN]
NewPush == [at |-> "idle", call |-> NoCall, failures |-> 0, waiting |-> FALSE,
            reachedMax |-> FALSE]

TypeOK ==
  /\ base \in [Paths -> 0..MaxLines] /\ size \in [Paths -> 0..2 * MaxLines]
  /\ offset \in [Paths -> 0..2 * MaxLines] /\ partial \in [Paths -> 0..MaxLines]
  /\ readBase \in [Paths -> 0..MaxLines]
  /\ pending \in Seq(Items) /\ Len(pending) <= MaxPending
  /\ push \in Pushes
  /\ req \in [Handlers -> Requests]
  /\ acked \subseteq Items /\ missed \subseteq Line
  /\ spent \in [faults: 0..MaxFaults, crashes: 0..MaxCrashes]

Init ==
  /\ base = [p \in Paths |-> 0] /\ size = [p \in Paths |-> 0]
  /\ offset = [p \in Paths |-> 0] /\ partial = [p \in Paths |-> 0]
  /\ readBase = base
  /\ pending = << >> /\ push = NewPush
  /\ req = [h \in Handlers |-> Free]
  /\ seen = {} /\ rows = {}
  /\ acked = {} /\ missed = {} /\ dropped = {}
  /\ spent = [faults |-> 0, crashes |-> 0]

Fault == /\ spent.faults < MaxFaults
         /\ spent' = [spent EXCEPT !.faults = @ + 1]

\* The lines of the present file of p up to the k-th, and from the k-th on.
Upto(p, k) == {<<p, base[p] + j>> : j \in 1..k}
From(p, k) == {<<p, base[p] + j>> : j \in k..(size[p] \div 2)}

----------------------------------------------------------------------------
(* The web server and logrotate.                                            *)

Write(p) ==
  /\ base[p] + size[p] \div 2 < MaxLines
  /\ \E half \in {1, 2} : half <= 2 - (size[p] % 2)
                          /\ size' = [size EXCEPT ![p] = @ + half]
  /\ UNCHANGED <<base, readVars, pending, push, serverVars, acked, missed, spent>>

\* The lines of the old file that were not read are out of the agent's reach.
Rotate(p) ==
  /\ size[p] > 0 /\ size[p] % 2 = 0
  /\ base' = [base EXCEPT ![p] = @ + size[p] \div 2]
  /\ size' = [size EXCEPT ![p] = 0]
  /\ missed' = missed \cup
       From(p, IF readBase[p] = base[p] THEN offset[p] \div 2 + 1 ELSE 1)
  /\ UNCHANGED <<readVars, pending, push, serverVars, acked, spent>>

----------------------------------------------------------------------------
(* readNewLines.                                                            *)

\* The file has become shorter: it was truncated or rotated.
Shrunk(p) == size[p] < offset[p]

Start(p) == IF Shrunk(p) THEN 0 ELSE offset[p]
Seed(p)  == IF Shrunk(p) THEN 0 ELSE partial[p]

\* LastSize is 0 only as long as the offset is.
FirstRead(p) == Start(p) = 0

\* A first read of a long file starts at the cut, or rather with the line after
\* the one the cut is in, or behind.
Cut(p)  == IF FirstRead(p) /\ InitialTail > 0 /\ size[p] > InitialTail
           THEN size[p] - InitialTail ELSE Start(p)
Skip(p) == IF Cut(p) = Start(p) THEN Start(p) ELSE 2 * (Cut(p) \div 2 + 1)

\* How many lines the read may return.
Remaining == MaxPending - Len(pending)
Room(p) == IF FirstRead(p) /\ InitialMaxLines > 0
           THEN Least(InitialMaxLines, Remaining) ELSE Remaining

\* The line that ends in cell 2k, its first half read now or kept from before.
ItemAt(p, k) ==
  [path |-> p, tail |-> base[p] + k,
   head |-> IF 2 * k - 1 > Skip(p) THEN base[p] + k
            ELSE IF Skip(p) = Start(p) THEN Seed(p) ELSE 0]

\* Only whole lines are measured whole: of a line with a long head the second
\* half is left when the first was skipped.
TooLong(item) == Whole(item) /\ TextOf(item) \in Overlong

Ends(p) == (Skip(p) \div 2 + 1)..(size[p] \div 2)
Kept(p, last) == {k \in Ends(p) : k <= last /\ ~TooLong(ItemAt(p, k))}

\* The last line of a read: the one that fills the room, or the file's.
LastOf(p) ==
  IF Cardinality(Kept(p, size[p] \div 2)) < Room(p) THEN size[p] \div 2
  ELSE CHOOSE k \in Ends(p) : k \in Kept(p, k) /\ Cardinality(Kept(p, k)) = Room(p)

\* The lines of a read, in order.
LinesRead(p) ==
  LET kept == Kept(p, LastOf(p))
      nth(i) == CHOOSE k \in kept : Cardinality({j \in kept : j <= k}) = i
  IN  [i \in 1..Cardinality(kept) |-> ItemAt(p, nth(i))]

Stopped(p) == Cardinality(Kept(p, size[p] \div 2)) >= Room(p)

\* Mutant of EndOf: the offset is that of the end of the file.
EndOfFile(p) == size[p]

\* Where a read ends: behind the line that filled the room, or at the end.
EndOf(p) == IF Stopped(p) THEN 2 * LastOf(p) ELSE size[p]

\* Mutant of PartialOf: a half line is not kept.
PartialForgotten(p) == 0

\* The first half of a line that has no end yet is kept for the next read,
\* unless it is too long already.
PartialOf(p) ==
  LET line == base[p] + size[p] \div 2 + 1 IN
  IF Stopped(p) \/ size[p] % 2 = 0 \/ Text[p][line] \in LongHead THEN 0 ELSE line

\* The lines of this file that the read passes over: none, unless the offset was
\* about another file or the read starts at a cut.
GoesOn(p) == readBase[p] = base[p] /\ Skip(p) = Start(p)
Passed(p) == IF GoesOn(p) THEN {} ELSE Upto(p, (Skip(p) + 1) \div 2)

\* The poll of one file; a buffer of batchSize lines is pushed at once.
Poll(p) ==
  /\ push.at = "idle"
  /\ Len(pending) < MaxPending
  /\ size[p] # Start(p)
  /\ pending' = pending \o LinesRead(p)
  /\ offset' = [offset EXCEPT ![p] = EndOf(p)]
  /\ partial' = [partial EXCEPT ![p] = PartialOf(p)]
  /\ readBase' = [readBase EXCEPT ![p] = base[p]]
  /\ missed' = missed \cup Passed(p)
  /\ push' = IF Len(pending') >= BatchSize /\ LinesRead(p) # << >> /\ ~push.waiting
             THEN [push EXCEPT !.at = "push"] ELSE push
  /\ UNCHANGED <<fileVars, serverVars, acked, spent>>

\* A truncated file that is empty: its state is reset, nothing is read.
PollEmpty(p) ==
  /\ push.at = "idle"
  /\ Len(pending) < MaxPending
  /\ Shrunk(p) /\ size[p] = 0
  /\ offset' = [offset EXCEPT ![p] = 0]
  /\ partial' = [partial EXCEPT ![p] = 0]
  /\ readBase' = [readBase EXCEPT ![p] = base[p]]
  /\ UNCHANGED <<fileVars, pending, push, serverVars, acked, missed, spent>>

\* A read that fails at the cut or in some cell: the caller forgets what was
\* read, and the half line kept from before.
PollFails(p) ==
  /\ push.at = "idle"
  /\ Len(pending) < MaxPending
  /\ size[p] # Start(p)
  /\ Fault
  /\ \E cell \in {Cut(p)} \cup Skip(p)..EndOf(p) :
       LET first == IF GoesOn(p) THEN Start(p) \div 2 + 1 ELSE 1 IN
       /\ offset' = [offset EXCEPT ![p] = cell]
       /\ missed' = missed \cup {<<p, base[p] + k>> : k \in first..((cell + 1) \div 2)}
  /\ partial' = [partial EXCEPT ![p] = 0]
  /\ readBase' = [readBase EXCEPT ![p] = base[p]]
  /\ UNCHANGED <<fileVars, pending, push, serverVars, acked>>

----------------------------------------------------------------------------
(* tryPushRoute and pushLines.                                              *)

\* Mutant of Flush: only a full batch is flushed.
FlushFull ==
  /\ push.at = "idle"
  /\ Len(pending) >= BatchSize
  /\ ~push.waiting
  /\ push' = [push EXCEPT !.at = "push"]
  /\ UNCHANGED <<fileVars, readVars, pending, serverVars, acked, missed, spent>>

Flush ==
  /\ push.at = "idle"
  /\ pending # << >>
  /\ ~push.waiting
  /\ push' = [push EXCEPT !.at = "push"]
  /\ UNCHANGED <<fileVars, readVars, pending, serverVars, acked, missed, spent>>

\* The whole buffer is one request, whatever batchSize is.
Send(h) ==
  /\ push.at = "push"
  /\ req[h] = Free
  /\ req' = [req EXCEPT ![h] = [todo |-> pending, batch |-> {}, status |-> "lines"]]
  /\ push' = [push EXCEPT !.at = "wait", !.call = h]
  /\ UNCHANGED <<fileVars, readVars, pending, seen, rows, dropped, acked, missed,
                 spent>>

\* The process ends and is started again: offsets and buffer were in memory.
Forgotten ==
  /\ offset' = [p \in Paths |-> 0] /\ partial' = [p \in Paths |-> 0]
  /\ readBase' = base
  /\ pending' = << >> /\ push' = NewPush
  /\ missed' = missed \cup {LineOf(pending[i]) : i \in
                  {j \in DOMAIN pending : pending[j].tail <= base[pending[j].path]}}

\* A failed push: the buffer stays, and nothing is sent for a while.
Failed ==
  LET failures == Least(push.failures + 1, FailureCap)
      delay == computeBackoff(failures)
  IN
  IF ExitOnMaxBackoff /\ push.reachedMax /\ delay >= BackoffMax
  THEN Forgotten
  ELSE /\ push' = [at |-> "idle", call |-> NoCall, failures |-> failures,
                   waiting |-> TRUE, reachedMax |-> delay >= BackoffMax]
       /\ UNCHANGED <<readVars, pending, missed>>

\* The request does not reach the server.
SendFails ==
  /\ push.at = "push"
  /\ Fault
  /\ Failed
  /\ UNCHANGED <<fileVars, serverVars, acked>>

\* requestTimeout: the handler goes on.
Timeout ==
  /\ push.at = "wait"
  /\ Fault
  /\ Failed
  /\ UNCHANGED <<fileVars, serverVars, acked>>

\* Mutant of Refused: the status of the answer is not looked at.
RefusedUnread ==
  /\ push.at = "wait" /\ req[push.call].status = "failed"
  /\ acked' = acked \cup {pending[i] : i \in DOMAIN pending}
  /\ pending' = << >>
  /\ push' = NewPush
  /\ req' = [req EXCEPT ![push.call] = Free]
  /\ UNCHANGED <<fileVars, readVars, seen, rows, dropped, missed, spent>>

\* The answer is an error.
Refused ==
  /\ push.at = "wait" /\ req[push.call].status = "failed"
  /\ Failed
  /\ req' = [req EXCEPT ![push.call] = Free]
  /\ UNCHANGED <<fileVars, seen, rows, dropped, acked, spent>>

Accepted ==
  /\ push.at = "wait" /\ req[push.call].status = "ok"
  /\ acked' = acked \cup {pending[i] : i \in DOMAIN pending}
  /\ pending' = << >>
  /\ push' = NewPush
  /\ req' = [req EXCEPT ![push.call] = Free]
  /\ UNCHANGED <<fileVars, readVars, seen, rows, dropped, missed, spent>>

\* nextPushAt is reached.
Elapse ==
  /\ push.waiting
  /\ push' = [push EXCEPT !.waiting = FALSE]
  /\ UNCHANGED <<fileVars, readVars, pending, serverVars, acked, missed, spent>>

----------------------------------------------------------------------------
(* IngestLines, one line or one batch at a time.                            *)

\* A line that does not parse or was seen is passed over; a new one is marked
\* seen and joins the batch, which is stored when it is full or the last.
TakeLine(h) ==
  /\ req[h].status = "lines" /\ req[h].todo # << >>
  /\ LET item  == Head(req[h].todo)
         fresh == Parses(item) /\ TextOf(item) \notin seen
         batch == IF fresh THEN req[h].batch \cup {TextOf(item)} ELSE req[h].batch
     IN
     /\ seen' = IF fresh THEN seen \cup {TextOf(item)} ELSE seen
     /\ req' = [req EXCEPT ![h] =
                  [todo |-> Tail(req[h].todo), batch |-> batch,
                   status |-> IF Cardinality(batch) >= ParseBatchSize
                              THEN "insert" ELSE "lines"]]
  /\ UNCHANGED <<fileVars, readVars, pending, push, rows, dropped, acked, missed,
                 spent>>

\* Mutant of EndOfLines: the last batch is not stored unless it is full.
EndOfLinesUnflushed(h) ==
  /\ req[h].status = "lines" /\ req[h].todo = << >>
  /\ req' = [req EXCEPT ![h].status = "ok", ![h].batch = {}]
  /\ UNCHANGED <<fileVars, readVars, pending, push, seen, rows, dropped, acked,
                 missed, spent>>

EndOfLines(h) ==
  /\ req[h].status = "lines" /\ req[h].todo = << >>
  /\ req' = [req EXCEPT ![h].status = IF req[h].batch = {} THEN "ok" ELSE "insert"]
  /\ UNCHANGED <<fileVars, readVars, pending, push, seen, rows, dropped, acked,
                 missed, spent>>

\* BatchInsertLogsForWebsite; the unique index absorbs rows that are there.
Insert(h) ==
  /\ req[h].status = "insert"
  /\ rows' = rows \cup req[h].batch
  /\ req' = [req EXCEPT ![h].status = "lines", ![h].batch = {}]
  /\ UNCHANGED <<fileVars, readVars, pending, push, seen, dropped, acked, missed,
                 spent>>

\* The answer is 500; what the batch held stays marked as seen.
InsertFails(h) ==
  /\ req[h].status = "insert"
  /\ Fault
  /\ dropped' = dropped \cup req[h].batch
  /\ req' = [req EXCEPT ![h] = [Free EXCEPT !.status = "failed"]]
  /\ UNCHANGED <<fileVars, readVars, pending, push, seen, rows, acked, missed>>

\* Nobody waits for the answer any more.
Unheard(h) ==
  /\ req[h].status \in {"ok", "failed"} /\ push.call # h
  /\ req' = [req EXCEPT ![h] = Free]
  /\ UNCHANGED <<fileVars, readVars, pending, push, seen, rows, dropped, acked,
                 missed, spent>>

\* An entry of the cache is too old or the least recently used one of too many.
Expire ==
  /\ \E text \in seen : seen' = seen \ {text}
  /\ UNCHANGED <<fileVars, readVars, pending, push, req, rows, dropped, acked,
                 missed, spent>>

----------------------------------------------------------------------------
Crash == /\ spent.crashes < MaxCrashes
         /\ spent' = [spent EXCEPT !.crashes = @ + 1]

AgentCrash ==
  /\ Crash
  /\ Forgotten
  /\ UNCHANGED <<fileVars, serverVars, acked>>

\* The connection breaks; the cache and the requests were in memory.
ServerCrash ==
  /\ Crash
  /\ seen' = {}
  /\ dropped' = dropped \cup UNION {req[h].batch : h \in Handlers}
  /\ req' = [h \in Handlers |-> IF h = push.call THEN [Free EXCEPT !.status = "failed"]
                                ELSE Free]
  /\ UNCHANGED <<fileVars, readVars, pending, push, rows, acked, missed>>

AgentStep ==
  \/ \E p \in Paths : Poll(p) \/ PollEmpty(p)
  \/ Flush
  \/ \E h \in Handlers : Send(h)
  \/ Refused \/ Accepted \/ Elapse

HandlerStep(h) == TakeLine(h) \/ EndOfLines(h) \/ Insert(h)

Next ==
  \/ \E p \in Paths : Write(p) \/ Rotate(p) \/ PollFails(p)
  \/ AgentStep
  \/ SendFails \/ Timeout
  \/ \E h \in Handlers : HandlerStep(h) \/ InsertFails(h) \/ Unheard(h)
  \/ Expire
  \/ AgentCrash \/ ServerCrash

Spec == Init /\ [][Next]_vars

\* The tickers of the agent and the goroutines of the server go on.
FairSpec ==
  Spec /\ WF_vars(AgentStep) /\ \A h \in Handlers : WF_vars(HandlerStep(h) \/ Unheard(h))

----------------------------------------------------------------------------
(* PROPERTIES *)

Read(p, k) ==
  \/ k <= base[p]
  \/ readBase[p] = base[p] /\ k <= base[p] + offset[p] \div 2

(* Every line the offset has passed is in the buffer, was acknowledged, is    *)
(* too long, or is among those the agent could not read; a line that is      *)
(* written in two parts, a full buffer and a rotation do not lose it         *)
(* (main.go:479-604).                                                        *)
ReadAccounted ==
  \A p \in Paths : \A k \in 1..MaxLines : Read(p, k) =>
    \/ \E i \in DOMAIN pending : LineOf(pending[i]) = <<p, k>>
    \/ \E item \in acked : LineOf(item) = <<p, k>>
    \/ Text[p][k] \in Overlong
    \/ <<p, k>> \in missed

(* What is pushed are whole lines, of two halves that belong together, but    *)
(* for the second half of a line whose first was too long or was missed      *)
(* (main.go:534, 576-588).                                                   *)
WholeLines ==
  \A i \in DOMAIN pending :
    \/ Whole(pending[i])
    \/ Text[pending[i].path][pending[i].tail] \in LongHead
    \/ LineOf(pending[i]) \in missed

Handled == UNION {req[h].batch : h \in Handlers}

(* A line the agent has let go of is stored, or a request that is still       *)
(* handled holds it, or it was in a batch whose insert failed: whatever is   *)
(* repeated while the first request is still handled (main.go:428, 468;      *)
(* log_parser_scan_file.go:571-607).                                         *)
AckedStored ==
  \A item \in acked : Parses(item) => TextOf(item) \in rows \cup dropped \cup Handled

\* A new file of just the old size looks as if nothing had been written.
Unnoticed(p) == readBase[p] # base[p] /\ size[p] = offset[p]

(* Every line that is written is stored in the end, unless the agent could    *)
(* not read it or takes its file for the old one, it is too long or no row   *)
(* is made of it, or its batch failed (main.go:202-305).                     *)
EventuallyStored ==
  \A p \in Paths : \A k \in 1..MaxLines :
    k <= base[p] + size[p] \div 2 ~>
      \/ Text[p][k] \in rows \cup dropped \cup Overlong \cup Unparsable
      \/ <<p, k>> \in missed
      \/ Unnoticed(p)

(* A push that failed is repeated until the lines are stored, as the warning  *)
(* of a failed push says (main.go:455); no batch is excused.                 *)
RetryStores ==
  \A item \in acked : Parses(item) => TextOf(item) \in rows \cup Handled
=============================================================================
