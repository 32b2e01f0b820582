------------------------------ MODULE FileScan ------------------------------
(***************************************************************************)
(* The scan of plain log files of one website: internal/ingest              *)
(* log_parser.go, log_parser_scan_file.go and backfill.go.  A web server    *)
(* appends to a live log that is rotated by renaming it; the periodic task  *)
(* scans the watched files from the offsets of FileState and fills the      *)
(* older part of each file in the background; the offsets are kept in       *)
(* memory (p.states) and saved to a state file at the end of each pass;     *)
(* the process may crash between any two steps.                             *)
(*                                                                         *)
(* Scan, backfill and reparse exclude one another (ParseGate, theorem       *)
(* GateExcludes), so there is one job and one program counter here.         *)
(*                                                                         *)
(* Positions in a file are counted in half lines: line k fills the cells    *)
(* 2k-1 and 2k, and an odd size is a file whose last line is half written.  *)
(***************************************************************************)
EXTENDS Integers, Sequences, FiniteSets

CONSTANTS
  Live, Rotated,   \* the path the server writes, the path it rotates to
  WatchRotated,    \* logPath is a glob that matches the rotated path too
  MaxLines,        \* bound: lines of one file
  MaxTs,           \* bound: seconds of the clock
  MaxGen,          \* bound: files the live path has ever been
  MaxCrashes,      \* bound: crashes of the process
  MaxReparses,     \* bound: full reparses
  BatchSize,       \* parseBatchSize
  LongLines,       \* <<file, line>>: lines of more than the 64 KiB a bufio.Scanner takes
  Crlf,            \* lines end in CR LF
  Ordered,         \* time stamps do not decrease along a file
  TornWrites,      \* a line can be on disk in part
  InsertFails,     \* BatchInsertLogsForWebsite may fail
  IndexFails,      \* findRecentOffset may fail
  ReadFails,       \* a read of a scan may fail
  HasLogsFails,    \* HasLogs may fail at a start
  SaveFails,       \* updateState may fail
  ClearFails,      \* ClearLogsForWebsite may fail half way
  OtherSites       \* another website has rows in the database

ASSUME PathsAssumption == Live # Rotated
ASSUME BoundsAssumption ==
  /\ MaxLines \in Nat /\ MaxTs \in Nat /\ MaxGen \in Nat \ {0}
  /\ MaxCrashes \in Nat /\ MaxReparses \in Nat /\ BatchSize \in Nat \ {0}
ASSUME FlagsAssumption ==
  \A f \in {WatchRotated, Crlf, Ordered, TornWrites, InsertFails, IndexFails,
            ReadFails, HasLogsFails, SaveFails, ClearFails, OtherSites} : f \in BOOLEAN

VARIABLES
  content,  \* per file (generation): the time stamps of its whole lines
  torn,     \* per file: a part of the next line is on disk
  at,       \* per path: the file that has this name, 0 for none
  cutoff,   \* now minus recentLogWindowDays, in whole seconds
  rows,     \* the rows of nginx_logs
  st,       \* p.states: per path, its FileState
  disk,     \* the state file
  pc,       \* where the job is
  job,      \* the local variables of the scan or backfill of one file
  todo,     \* the paths the pass still has to visit
  dropped,  \* history: lines whose batch insert failed, or that a scan that
            \* stopped has left in front of its offset
  faults    \* history: crashes and reparses so far

fileVars == <<content, torn, at, cutoff>>
jobVars  == <<pc, job, todo>>
vars == <<fileVars, rows, st, disk, jobVars, dropped, faults>>

Paths   == {Live, Rotated}
Watched == IF WatchRotated THEN Paths ELSE {Live}
Gens    == 1..MaxGen
Lines   == 1..MaxLines
Cells   == 0..(2 * MaxLines + 2)

\* gen is a history component: the file the offsets are about.
FileStates ==
  [known: BOOLEAN, gen: 0..MaxGen, lastOffset: Cells, lastSize: Cells,
   recent: Cells, fillOffset: Cells, fillEnd: Cells, fillDone: BOOLEAN,
   cutoff: 0..MaxTs]
NoState ==
  [known |-> FALSE, gen |-> 0, lastOffset |-> 0, lastSize |-> 0, recent |-> 0,
   fillOffset |-> 0, fillEnd |-> 0, fillDone |-> FALSE, cutoff |-> 0]
NoStates == [p \in Paths |-> NoState]

\* The fingerprint hashes path, offset and text; drift is how far the computed
\* offset is from the true one, gen and line stand for the text.
Rows == [path: Paths, gen: Gens, line: Lines, drift: 0..MaxLines]

Windows == {"all", "recent", "history"}
Jobs == [path: Paths, gen: Gens, base: 1..(MaxLines + 2),
         next: 1..(MaxLines + 2), window: Windows,
         batch: SUBSET Rows, state: FileStates]
NoJob == [path |-> Live, gen |-> 1, base |-> 1, next |-> 1, window |-> "all",
          batch |-> {}, state |-> NoState]

PCs == {"idle", "scan", "locate", "read", "fill", "fillRead", "cleared"}

TypeOK ==
  /\ content \in [Gens -> Seq(0..MaxTs)]
  /\ \A g \in Gens : Len(content[g]) <= MaxLines
  /\ torn \in [Gens -> BOOLEAN]
  /\ at \in [Paths -> 0..MaxGen] /\ at[Live] # 0
  /\ cutoff \in 0..MaxTs
  /\ rows \subseteq Rows
  /\ st \in [Paths -> FileStates] /\ disk \in [Paths -> FileStates]
  /\ pc \in PCs /\ job \in Jobs /\ job.base <= job.next /\ todo \subseteq Paths
  /\ dropped \subseteq Paths \X Gens \X Lines
  /\ faults \in [crashes: 0..MaxCrashes, reparses: 0..MaxReparses]

Init ==
  /\ content = [g \in Gens |-> << >>]
  /\ torn = [g \in Gens |-> FALSE]
  /\ at = [p \in Paths |-> IF p = Live THEN 1 ELSE 0]
  /\ cutoff = 0
  /\ rows = {} /\ dropped = {}
  /\ st = NoStates /\ disk = NoStates
  /\ pc = "idle" /\ job = NoJob /\ todo = {}
  /\ faults = [crashes |-> 0, reparses |-> 0]

Size(g) == 2 * Len(content[g]) + (IF torn[g] THEN 1 ELSE 0)

----------------------------------------------------------------------------
(* The web server, logrotate and the clock.                                 *)

WriteLine ==
  LET g == at[Live] IN
  /\ Len(content[g]) < MaxLines
  /\ \E ts \in (cutoff + 1)..MaxTs :
       /\ Ordered => \A k \in DOMAIN content[g] : content[g][k] <= ts
       /\ content' = [content EXCEPT ![g] = Append(@, ts)]
  /\ torn' = [torn EXCEPT ![g] = FALSE]
  /\ UNCHANGED <<at, cutoff, rows, st, disk, jobVars, dropped, faults>>

WritePart ==
  /\ TornWrites
  /\ Len(content[at[Live]]) < MaxLines
  /\ torn' = [torn EXCEPT ![at[Live]] = TRUE]
  /\ UNCHANGED <<content, at, cutoff, rows, st, disk, jobVars, dropped, faults>>

\* mv access.log access.log.1, and the server opens a new access.log.
Rotate ==
  /\ at[Live] < MaxGen
  /\ ~torn[at[Live]]
  /\ at' = [at EXCEPT ![Live] = @ + 1, ![Rotated] = at[Live]]
  /\ UNCHANGED <<content, torn, cutoff, rows, st, disk, jobVars, dropped, faults>>

\* logrotate drops the oldest copy.
Remove ==
  /\ at[Rotated] # 0
  /\ at' = [at EXCEPT ![Rotated] = 0]
  /\ UNCHANGED <<content, torn, cutoff, rows, st, disk, jobVars, dropped, faults>>

Tick ==
  /\ cutoff < MaxTs
  /\ cutoff' = cutoff + 1
  /\ UNCHANGED <<content, torn, at, rows, st, disk, jobVars, dropped, faults>>

----------------------------------------------------------------------------
(* BatchInsertLogsForWebsite: all rows of the batch or none; the unique      *)
(* index on the fingerprint absorbs rows that are already there.  When it    *)
(* fails the caller logs the error, empties the batch and goes on.  left is  *)
(* what the caller leaves out besides.                                      *)
LineOf(r) == <<r.path, r.gen, r.line>>

Insert(batch, left) ==
  \/ rows' = rows \cup batch /\ dropped' = dropped \cup left
  \/ /\ InsertFails
     /\ dropped' = dropped \cup left \cup {LineOf(r) : r \in batch}
     /\ UNCHANGED rows

\* updateState: temporary file and rename.
Save(states) == disk' = states \/ (SaveFails /\ UNCHANGED disk)

\* parseWindow.allows.
Allows(window, ts, limit) ==
  CASE window = "recent"  -> ts >= limit
    [] window = "history" -> ts < limit
    [] OTHER              -> TRUE

\* Mutant of LineAt: the line behind the cell.
LineAfter(cell) == cell \div 2 + 2

\* The first whole line at or after a cell, and the line a cell is in.
FirstLine(cell) == (cell + 1) \div 2 + 1
LineAt(cell) == cell \div 2 + 1

----------------------------------------------------------------------------
(* scanNginxLogsInternal: the files of the site, then updateState.          *)
StartScan ==
  /\ pc = "idle"
  /\ pc' = "scan"
  /\ todo' = {p \in Watched : at[p] # 0}
  /\ UNCHANGED <<fileVars, rows, st, disk, job, dropped, faults>>

\* The job opens p to read it from a cell on, with the state it will set.
Open(p, window, cell, state) ==
  job' = [path |-> p, gen |-> at[p], base |-> LineAt(cell),
          next |-> FirstLine(cell), window |-> window, batch |-> {},
          state |-> state]

\* The file has gone since the glob: scanSingleFile reports it and returns.
OpenFails(p) ==
  /\ pc = "scan" /\ p \in todo
  /\ at[p] = 0
  /\ todo' = todo \ {p}
  /\ UNCHANGED <<fileVars, rows, st, disk, pc, job, dropped, faults>>

\* The FileState a first scan starts from, with LastOffset and LastSize as it
\* will set them.
FirstState(p) ==
  [known |-> TRUE, gen |-> at[p], lastOffset |-> Size(at[p]),
   lastSize |-> Size(at[p]), recent |-> 0, fillOffset |-> 0, fillEnd |-> 0,
   fillDone |-> FALSE, cutoff |-> cutoff]

\* Mutant of Shrunk: no test for a rotation.
NeverShrunk(p) == FALSE

\* A file that has become shorter was rotated: its state is dropped.
Shrunk(p) == st[p].known /\ Size(at[p]) < st[p].lastSize

\* scanSingleFile up to the first read: Stat, and the test for a rotation.
StatFile(p) ==
  LET size == Size(at[p])
      s == st[p]
      fresh == ~s.known \/ Shrunk(p)
  IN
  /\ pc = "scan" /\ p \in todo
  /\ at[p] # 0
  /\ st' = IF Shrunk(p) THEN [st EXCEPT ![p] = NoState] ELSE st
  /\ \/ /\ fresh
        /\ Open(p, "recent", 0, FirstState(p))
        /\ pc' = "locate"
        /\ UNCHANGED todo
     \/ /\ ~fresh /\ size > s.lastOffset
        /\ Open(p, "all", s.lastOffset,
                [s EXCEPT !.lastOffset = size, !.lastSize = size])
        /\ pc' = "read"
        /\ UNCHANGED todo
     \/ /\ ~fresh /\ size <= s.lastOffset
        /\ todo' = todo \ {p}
        /\ UNCHANGED <<pc, job>>
  /\ UNCHANGED <<fileVars, rows, disk, dropped, faults>>

\* Mutant of EndsHistory: the cutoff is a second later than the window's.
EndsHistoryLate(g, limit, k) ==
  /\ k > 0 => content[g][k] <= limit + 1
  /\ \A j \in DOMAIN content[g] : j > k => content[g][j] > limit + 1

\* findRecentOffset looks, from the end, for the last line before the cutoff.
\* The cutoff has a fraction of a second that parseWindow and RecentCutoffTs
\* cut off, so a line of the cutoff's own second is before it.
EndsHistory(g, limit, k) ==
  /\ k > 0 => content[g][k] <= limit
  /\ \A j \in DOMAIN content[g] : j > k => content[g][j] > limit

\* The rest of a first scan before parseLogLines, from the offset found on;
\* the search stats the file again.
FirstScan(from, state) ==
  \/ /\ from < state.lastSize
     /\ job' = [job EXCEPT !.state = state, !.base = LineAt(from),
                           !.next = FirstLine(from)]
     /\ pc' = "read"
     /\ UNCHANGED <<st, todo>>
  \/ /\ from >= state.lastSize
     /\ st' = [st EXCEPT ![job.path] = state]
     /\ todo' = todo \ {job.path}
     /\ pc' = "scan"
     /\ UNCHANGED job

LocateRecent ==
  /\ pc = "locate"
  /\ \E k \in 0..Len(content[job.gen]) :
       /\ EndsHistory(job.gen, job.state.cutoff, k)
       /\ FirstScan(2 * k, [job.state EXCEPT !.recent = 2 * k, !.fillEnd = 2 * k,
                                             !.fillDone = (k = 0)])
  /\ UNCHANGED <<fileVars, rows, disk, dropped, faults>>

\* When the search fails the whole file is both recent and history.
LocateFails ==
  /\ pc = "locate"
  /\ IndexFails
  /\ FirstScan(0, [job.state EXCEPT !.fillEnd = job.state.lastSize])
  /\ UNCHANGED <<fileVars, rows, disk, dropped, faults>>

\* Mutant of NextRow: the fingerprint counts from where this scan began.
NextRowRelative ==
  [path |-> job.path, gen |-> job.gen, line |-> job.next, drift |-> job.base - 1]

\* One line of the scanner: its row joins the batch when the window allows it.
\* The half of a line is taken not to parse, nor is what follows it.
NextRow ==
  [path |-> job.path, gen |-> job.gen, line |-> job.next,
   drift |-> IF Crlf /\ job.window # "history" THEN job.next - job.base ELSE 0]

Extended ==
  IF Allows(job.window, content[job.gen][job.next], job.state.cutoff)
  THEN job.batch \cup {NextRow} ELSE job.batch

TakeLine ==
  /\ job.next <= Len(content[job.gen])
  /\ IF Cardinality(Extended) >= BatchSize
     THEN Insert(Extended, {}) /\ job' = [job EXCEPT !.next = @ + 1, !.batch = {}]
     ELSE /\ job' = [job EXCEPT !.next = @ + 1, !.batch = Extended]
          /\ UNCHANGED <<rows, dropped>>

\* The scanner is in front of a line that is too long, or of the rest of one, which
\* may be, when the scan begins inside it.
TooLong == <<job.gen, job.next>> \in LongLines
RestTooLong == job.next = job.base + 1 /\ <<job.gen, job.base>> \in LongLines

\* parseLogLines reads to the end of the file, wherever that is by now.
ReadLine ==
  /\ pc = "read"
  /\ ~TooLong
  /\ TakeLine
  /\ UNCHANGED <<fileVars, st, disk, pc, todo, faults>>

\* Mutant of EndFile: the last, partial batch is not inserted.
EndFileUnflushed ==
  /\ pc = "read"
  /\ job.next > Len(content[job.gen])
  /\ st' = [st EXCEPT ![job.path] = job.state]
  /\ todo' = todo \ {job.path}
  /\ job' = NoJob
  /\ pc' = "scan"
  /\ UNCHANGED <<fileVars, rows, disk, dropped, faults>>

\* Mutant of EndFile: the new FileState forgets how far the backfill is.
EndFileForgetsFill ==
  /\ pc = "read"
  /\ job.next > Len(content[job.gen])
  /\ Insert(job.batch, {})
  /\ st' = [st EXCEPT ![job.path] = [job.state EXCEPT !.fillOffset = 0]]
  /\ todo' = todo \ {job.path}
  /\ job' = NoJob
  /\ pc' = "scan"
  /\ UNCHANGED <<fileVars, disk, faults>>

\* The end of parseLogLines: the last batch, then setFileState.
CloseScan(left) ==
  /\ pc = "read"
  /\ Insert(job.batch, left)
  /\ st' = [st EXCEPT ![job.path] = job.state]
  /\ todo' = todo \ {job.path}
  /\ job' = NoJob
  /\ pc' = "scan"
  /\ UNCHANGED <<fileVars, disk, faults>>

EndFile ==
  /\ job.next > Len(content[job.gen])
  /\ CloseScan({})

\* scanner.Err: the next line is too long, or a read fails.  The error is reported
\* and the state is set as at the end of the file, so that the lines the scan
\* would still have taken are passed unread.
Unread ==
  {<<job.path, job.gen, k>> :
     k \in {j \in job.next..Len(content[job.gen]) :
              /\ 2 * j <= job.state.lastOffset
              /\ Allows(job.window, content[job.gen][j], job.state.cutoff)}}

ScannerStops ==
  /\ job.next <= Len(content[job.gen])
  /\ TooLong \/ RestTooLong \/ ReadFails
  /\ CloseScan(Unread)

FinishScan ==
  /\ pc = "scan"
  /\ todo = {}
  /\ Save(st)
  /\ pc' = "idle"
  /\ UNCHANGED <<fileVars, rows, st, job, todo, dropped, faults>>

----------------------------------------------------------------------------
(* BackfillHistory.                                                         *)
StartBackfill ==
  /\ pc = "idle"
  /\ pc' = "fill"
  /\ todo' = {p \in Paths : st[p].known /\ ~st[p].fillDone}
  /\ job' = NoJob
  /\ UNCHANGED <<fileVars, rows, st, disk, dropped, faults>>

\* backfillPlainFile on an empty section, or on a file that is gone.
SkipFill(p) ==
  /\ pc = "fill" /\ p \in todo
  /\ \/ /\ st[p].fillEnd <= st[p].fillOffset
        /\ st' = [st EXCEPT ![p].fillDone = TRUE]
     \/ /\ st[p].fillEnd > st[p].fillOffset /\ at[p] = 0
        /\ UNCHANGED st
  /\ todo' = todo \ {p}
  /\ UNCHANGED <<fileVars, rows, disk, pc, job, dropped, faults>>

OpenFill(p) ==
  /\ pc = "fill" /\ p \in todo
  /\ st[p].fillEnd > st[p].fillOffset /\ at[p] # 0
  /\ Open(p, "history", st[p].fillOffset, st[p])
  /\ pc' = "fillRead"
  /\ UNCHANGED <<fileVars, rows, st, disk, todo, dropped, faults>>

InSection == 2 * job.next <= job.state.fillEnd

FillLine ==
  /\ pc = "fillRead"
  /\ InSection
  /\ TakeLine
  /\ UNCHANGED <<fileVars, st, disk, pc, todo, faults>>

\* The common end of backfillPlainFile.
CloseFill(done, rest) ==
  /\ Insert(job.batch, {})
  /\ st' = [st EXCEPT ![job.path] =
              [job.state EXCEPT !.fillOffset = 2 * (job.next - 1),
                                !.fillDone = done]]
  /\ todo' = rest
  /\ job' = NoJob
  /\ pc' = "fill"
  /\ UNCHANGED <<fileVars, disk, faults>>

\* The end of the section, or of a file that has become shorter.
EndFill ==
  /\ pc = "fillRead"
  /\ ~InSection \/ job.next > Len(content[job.gen])
  /\ CloseFill(TRUE, todo \ {job.path})

\* The budget of bytes or of time is used up behind some line; the pass
\* leaves the other files for later.
StopFill ==
  /\ pc = "fillRead"
  /\ 2 * (job.next - 1) > job.state.fillOffset
  /\ CloseFill(2 * (job.next - 1) >= job.state.fillEnd, {})

FinishBackfill ==
  /\ pc = "fill"
  /\ todo = {}
  /\ Save(st)
  /\ pc' = "idle"
  /\ UNCHANGED <<fileVars, rows, st, job, todo, dropped, faults>>

----------------------------------------------------------------------------
(* TriggerReparse: ClearLogsForWebsite, ResetScanState, and a scan.         *)
ClearLogs ==
  /\ pc = "idle"
  /\ faults.reparses < MaxReparses
  /\ faults' = [faults EXCEPT !.reparses = @ + 1]
  /\ rows' = {}
  /\ \/ pc' = "cleared"
     \/ ClearFails /\ pc' = "idle"    \* a later statement failed
  /\ UNCHANGED <<fileVars, st, disk, job, todo, dropped>>

\* Mutant of ResetScanState: only the memory is reset.
ResetMemoryOnly ==
  /\ pc = "cleared"
  /\ st' = NoStates
  /\ pc' = "scan"
  /\ todo' = {p \in Watched : at[p] # 0}
  /\ UNCHANGED <<fileVars, rows, disk, job, dropped, faults>>

ResetScanState ==
  /\ pc = "cleared"
  /\ st' = NoStates
  /\ Save(NoStates)
  /\ dropped' = IF disk' = NoStates THEN {} ELSE dropped
  /\ pc' = "scan"
  /\ todo' = {p \in Watched : at[p] # 0}
  /\ UNCHANGED <<fileVars, rows, job, faults>>

----------------------------------------------------------------------------
(* The process dies and starts again: loadState, then resetStateIfEmptyDB,  *)
(* which drops the states when no website has a row, and leaves them when    *)
(* HasLogs fails.                                                            *)
Restart ==
  LET empty == rows = {} /\ ~OtherSites IN
  /\ faults.crashes < MaxCrashes
  /\ faults' = [faults EXCEPT !.crashes = @ + 1]
  /\ \/ empty /\ st' = NoStates /\ Save(NoStates)
     \/ (~empty \/ HasLogsFails) /\ st' = disk /\ UNCHANGED disk
  /\ pc' = "idle" /\ job' = NoJob /\ todo' = {}
  /\ UNCHANGED <<fileVars, rows, dropped>>

----------------------------------------------------------------------------
Environment == WriteLine \/ WritePart \/ Rotate \/ Remove \/ Tick

\* A pass that has begun runs on by itself.
Pass ==
  \/ \E p \in Paths : OpenFails(p) \/ StatFile(p) \/ SkipFill(p) \/ OpenFill(p)
  \/ LocateRecent \/ LocateFails \/ ReadLine \/ EndFile \/ ScannerStops \/ FinishScan
  \/ FillLine \/ EndFill \/ StopFill \/ FinishBackfill
  \/ ResetScanState

Next == Environment \/ Pass \/ StartScan \/ StartBackfill \/ ClearLogs \/ Restart

Spec == Init /\ [][Next]_vars

\* Every period of the scheduler tries a scan and a backfill, and each is
\* refused only while another pass, which ends, has the gate.
FairSpec ==
  Spec /\ WF_vars(Pass) /\ SF_vars(StartScan) /\ SF_vars(StartBackfill)

----------------------------------------------------------------------------
(* PROPERTIES *)

Stored(p, g, k) == \E r \in rows : r.path = p /\ r.gen = g /\ r.line = k

\* What a state file says of line k of the file it is about:
\* the backfill still has to visit it,
AwaitsFill(s, k) ==
  /\ ~s.fillDone
  /\ s.fillOffset < 2 * k /\ 2 * k <= s.fillEnd
  /\ content[s.gen][k] < s.cutoff
\* or both windows leave it out: it is in front of RecentOffset but not old.
Skipped(s, k) == 2 * k <= s.recent /\ content[s.gen][k] >= s.cutoff

\* The states that talk of the file that has the path now.
Current(S) == {p \in Paths : S[p].known /\ S[p].gen = at[p]}

Behind(s) == {k \in DOMAIN content[s.gen] : 2 * k <= s.lastOffset}

Accounts(S, excused(_, _)) ==
  \A p \in Current(S) : \A k \in Behind(S[p]) :
    \/ Stored(p, at[p], k)
    \/ <<p, at[p], k>> \in dropped
    \/ AwaitsFill(S[p], k)
    \/ excused(S[p], k)

\* No offset in memory passes a line that is neither stored nor left to the
\* backfill: a line lost behind LastOffset is lost for good.  Excused are the
\* lines of a failed insert, those behind one at which the scanner stopped (of
\* the same scan: what it had read, what was appended meanwhile and what is the
\* backfill's are not lost with them), and those both windows leave out.
OffsetsAccounted == pc # "cleared" => Accounts(st, Skipped)

\* The same of the state file, which a crash makes the state: whatever was
\* scanned, filled or reparsed since the last save, the saved offsets never
\* claim a line that the database does not have.
SavedOffsetsAccounted == pc # "cleared" => Accounts(disk, Skipped)

\* One row per line: a line read again, after a crash, by the next scan or by
\* both windows, has the fingerprint it had before.
NoDuplicateRows ==
  \A r1, r2 \in rows : LineOf(r1) = LineOf(r2) => r1 = r2

\* When time stamps do not decrease the windows leave out nothing but the one
\* second in which the cutoff fell.
OnlyCutoffSecondSkipped ==
  \A p \in Current(st) : \A k \in Behind(st[p]) :
    Skipped(st[p], k) => content[at[p]][k] = st[p].cutoff

\* The backfill of a file never goes back and its end never moves, except when
\* the states are reset or the file starts over.
BackfillForward ==
  [][\A p \in Paths :
       st[p].known /\ st'[p].known /\ pc' # "idle" =>
         /\ st'[p].fillOffset >= st[p].fillOffset
         /\ st'[p].fillEnd = st[p].fillEnd
         /\ st[p].fillDone => st'[p].fillDone]_vars

\* The size does not tell the live file from the one before it.
Unnoticed ==
  st[Live].known /\ st[Live].gen # at[Live] /\ Size(at[Live]) >= st[Live].lastSize

\* Every line of a file that stays the live one is stored in the end, unless
\* it is in the cutoff's second, its insert failed, a scan stopped in front of
\* it, or the file had grown past the size of the one before it when the scan
\* came.
EventuallyStored ==
  \A g \in Gens, k \in Lines :
    (at[Live] = g /\ k <= Len(content[g])) ~>
      \/ at[Live] # g
      \/ Stored(Live, g, k)
      \/ <<Live, g, k>> \in dropped
      \/ st[Live].gen = g /\ Skipped(st[Live], k)
      \/ Unnoticed
=============================================================================
