---------------------------- MODULE RemoteTarget ----------------------------
(***************************************************************************)
(* The poll of one object of a source (internal/ingest/source_scanner.go):    *)
(* what a bucket, a web server, an SFTP server or a directory says of it is   *)
(* compared with the TargetState of the last poll, and what is new of it is   *)
(* read from the offset reached.  Whoever writes the object appends lines,    *)
(* in one write or in several, or replaces it at any time; every request may  *)
(* fail, a body may break off, and a line may be too long for the scanner.    *)
(*                                                                         *)
(* Polls and reparses exclude one another (ParseGate).  Positions are bytes,   *)
(* with lines of two characters; a line has one time stamp, and the first     *)
(* lines of the first object are older than the window of a first parse.      *)
(* Rows are kept by their fingerprint: the offset counted for a line, and the  *)
(* line (StoreContract, StoredOnce).                                        *)
(***************************************************************************)
EXTENDS Integers, FiniteSets, FiniteSetsExt

CONSTANTS
  WebServers,   \* web servers: tuples of what they tell, <<tagged, dated, sized, ranged>>
  MaxLines,     \* bound: lines of one object
  OldLines,     \* lines of the first object older than recentLogWindowDays
  RemoteBatch,  \* parseBatchSize
  Crlf,         \* lines end in CR LF
  PollLimits    \* bounds: records of the objects, half-written lines, failures, crashes and
                \* reparses, and of the lines <<gen, k>> of more than 64 KiB, which stay

\* tagged, dated, sized: the source tells an ETag, a time, a size;
\* ranged: it serves a range; strict: it refuses one that begins past the end;
\* compressed: the object is a gzip file.
Does(t, d, s, r, x, c) ==
  [tagged |-> t, dated |-> d, sized |-> s, ranged |-> r, strict |-> x, compressed |-> c]
S3Source(c) == Does(TRUE, TRUE, TRUE, TRUE, TRUE, c)
SFTPSource(c) == Does(FALSE, TRUE, TRUE, TRUE, FALSE, c)
LocalSource(c) == SFTPSource(c)
HTTPSource(w, c) == Does(w[1], w[2], w[3], w[4], w[4], c)
Sources ==
  UNION {{S3Source(c), SFTPSource(c), LocalSource(c)} : c \in BOOLEAN}
  \cup {HTTPSource(w, FALSE) : w \in WebServers}

RemoteConstants == MaxLines \in Nat /\ RemoteBatch \in Nat \ {0} /\ Crlf \in BOOLEAN
ASSUME RemoteAssumption == RemoteConstants

VARIABLES
  source,      \* what the source tells, which stays
  object,      \* [gen, n, part]: the object, its lines, and what is written of the next
  st, disk,    \* its TargetState in memory and in the state file
  step,        \* where the poll or the reparse is
  poll,        \* its local variables
  remoteRows,  \* [gen, k, key]: the rows, each of a line and with a fingerprint
  lostLines,   \* history: lines whose batch failed, that were read cut (half written, or
               \* broken off), or that a range reparse deleted
  missed,      \* history: objects that looked like the one before them
  pollsLeft    \* what is left of the run's bounds, and the long lines

remoteVars == <<source, object, st, disk, step, poll, remoteRows, lostLines, missed, pollsLeft>>

Width == IF Crlf THEN 4 ELSE 3
Size(o) == o.n * Width + o.part
Start(k) == (k - 1) * Width
NoTag == [gen |-> 0, n |-> 0, part |-> 0]
\* gen, a history component, is the object the offset is about, 0 if of several.
NoState == [known |-> FALSE, gen |-> 0, off |-> 0, size |-> 0, tag |-> NoTag, mod |-> NoTag]
NoPoll == [meta |-> [size |-> 0, tag |-> NoTag, mod |-> NoTag], new |-> TRUE, start |-> 0,
           keep |-> NoState, of |-> NoTag, pos |-> 0, counted |-> 0, again |-> FALSE]

\* Stat and ListTargets: TargetMeta.  A tag and a date tell every two objects apart.
MetaOf(o) == [size |-> IF source.sized THEN Size(o) ELSE 0,
              tag  |-> IF source.tagged THEN o ELSE NoTag,
              mod  |-> IF source.dated THEN o ELSE NoTag]

-----------------------------------------------------------------------------
(* The writer of the object.                                                *)

AppendLine == /\ object.n < MaxLines
              /\ object' = [object EXCEPT !.n = @ + 1, !.part = 0]
              /\ UNCHANGED <<source, st, disk, step, poll, remoteRows, lostLines, missed,
                             pollsLeft>>
\* A write ends within a line.
WritePart(c) == /\ object.n < MaxLines /\ object.part < c
                /\ pollsLeft.halves > 0 /\ pollsLeft' = [pollsLeft EXCEPT !.halves = @ - 1]
                /\ object' = [object EXCEPT !.part = c]
                /\ UNCHANGED <<source, st, disk, step, poll, remoteRows, lostLines, missed>>
Replace(n) == /\ pollsLeft.objects > 0 /\ pollsLeft' = [pollsLeft EXCEPT !.objects = @ - 1]
              /\ object' = [gen |-> object.gen + 1, n |-> n, part |-> 0]
              /\ UNCHANGED <<source, st, disk, step, poll, remoteRows, lostLines, missed>>

-----------------------------------------------------------------------------
(* scanTarget, up to the request for the body.                               *)

Goes(from, to) == step = from /\ step' = to
Quiet == UNCHANGED <<source, object, pollsLeft>>
ListTargets ==
  /\ Goes("idle", "listed")
  /\ poll' = [NoPoll EXCEPT !.meta = MetaOf(object), !.of = object]
  /\ UNCHANGED <<st, disk, remoteRows, lostLines, missed>> /\ Quiet

Shrunk(s, m) == m.size > 0 /\ s.size > 0 /\ m.size < s.size
\* Mutant of Retagged: an object that is as long is taken for the same.
RetaggedShorter(s, m) == NoTag \notin {m.tag, s.tag} /\ m.tag # s.tag /\ m.size < s.size
Retagged(s, m) == NoTag \notin {m.tag, s.tag} /\ m.tag # s.tag /\ m.size <= s.size
Beyond(s, m) == s.off > 0 /\ m.size > 0 /\ s.off > m.size
Reset(s, m) == s.known /\ (Shrunk(s, m) \/ Retagged(s, m) \/ Beyond(s, m))
Unchanged(s, m) ==
  m.size = s.size /\ IF m.tag # NoTag THEN m.tag = s.tag ELSE m.mod = s.mod
Described(s, m) ==
  [s EXCEPT !.known = TRUE, !.size = m.size, !.tag = m.tag, !.mod = m.mod]

\* Two objects that no source could tell apart: the second is longer, or as long
\* with nothing to tell its content.
Alike(s, m) == m.size > s.size \/ (m.size = s.size /\ m.tag = NoTag)

Decide ==
  LET m == poll.meta
      keep == IF Reset(st, m) THEN NoState ELSE st
      start == IF source.compressed THEN 0 ELSE keep.off
  IN /\ step = "listed"
     /\ poll' = [poll EXCEPT !.new = ~keep.known, !.keep = keep, !.start = start]
     /\ missed' = IF keep.known /\ keep.gen # poll.of.gen /\ Alike(st, m)
                  THEN missed \cup {poll.of.gen} ELSE missed
     /\ \/ /\ source.compressed /\ keep.known /\ Unchanged(keep, m)
           /\ step' = "end" /\ UNCHANGED st
        \/ /\ ~source.compressed /\ m.size > 0 /\ start >= m.size
           /\ step' = "end" /\ st' = Described(keep, m)
        \/ /\ source.compressed => ~(keep.known /\ Unchanged(keep, m))
           /\ ~source.compressed => m.size = 0 \/ start < m.size
           /\ step' = "open" /\ UNCHANGED st
     /\ UNCHANGED <<disk, remoteRows, lostLines>> /\ Quiet

\* OpenRange, and again from the start when ranges are not supported: then the
\* bytes before the offset are read and skipped.
Refused == poll.start > Size(object) \/ (source.strict /\ poll.start > 0 /\ poll.start = Size(object))
OpenRange ==
  /\ step = "open"
  /\ IF source.ranged THEN ~(source.strict /\ Refused) ELSE poll.start <= Size(object)
  /\ step' = "read"
  /\ poll' = [poll EXCEPT !.of = object, !.pos = poll.start]
  /\ UNCHANGED <<st, disk, remoteRows, lostLines, missed>> /\ Quiet
OpenRefused ==
  /\ step = "open"
  /\ IF source.ranged THEN source.strict /\ Refused ELSE poll.start > Size(object)
  /\ step' = "end"
  /\ UNCHANGED <<st, disk, poll, remoteRows, lostLines, missed>> /\ Quiet

-----------------------------------------------------------------------------
(* parseLogLines.                                                          *)

Old(g, k) == g = 1 /\ k <= OldLines
\* The line at a position of a body that ends at stop: whether all its characters
\* are there, where it ends, and the bytes counted for it: its characters, without
\* a CR, and one for its end.
Whole(pos, stop) == pos % Width = 0 /\ pos + 2 <= stop
LineOf(pos) == pos \div Width + 1
EndOf(pos, stop) == Min({Start(LineOf(pos) + 1), stop})
LinesCounted(pos, stop) == Min({EndOf(pos, stop) - pos + 1, Max({1, Start(LineOf(pos)) + 3 - pos})})

\* Mutant of Row: the offset is counted from where the body begins.
RowRelative(p, pos, n) == [gen |-> p.of.gen, k |-> LineOf(pos), key |-> n]
\* The fingerprint's offset is counted from the offset that was asked for.
Row(p, pos, n) == [gen |-> p.of.gen, k |-> LineOf(pos), key |-> p.start + n]

\* The next lines of a body up to stop, at most a batch of them, from the first, of which
\* only the end may be left, to the last: where each is read from, and what is counted
\* before it (each that was passed whole counts three); what they are in all.
At(k) == Max({poll.pos, Start(k)})
CountedBefore(k, stop) ==
  poll.counted + IF k = LineOf(poll.pos) THEN 0
                 ELSE LinesCounted(poll.pos, stop) + (k - LineOf(poll.pos) - 1) * 3
Taken(stop) ==
  LET first == LineOf(poll.pos)
      end == Min({Start(first + RemoteBatch), stop})
      last == LineOf(end - 1)
  IN [pos |-> end, counted |-> CountedBefore(last, stop) + LinesCounted(At(last), stop),
      at |-> {<<At(k), CountedBefore(k, stop)>> : k \in {j \in first..last : Whole(At(j), stop)}}]
Fresh(p, pos) == (p.new /\ ~p.again) => ~Old(p.of.gen, LineOf(pos))
RowsOf(p, t) == {Row(p, x[1], x[2]) : x \in {y \in t.at : Fresh(p, y[1])}}
LinesOf(R) == {<<r.gen, r.k>> : r \in R}

\* bufio.Scanner gives no line of more than 64 KiB: it stops in front of a long line that
\* is there whole.  A part of one it may give, or not.
Long(k) == <<poll.of.gen, k>> \in pollsLeft.long
Passable(stop) == \A k \in 1..MaxLines : Long(k) /\ poll.pos <= Start(k) => stop < Start(k) + 2
\* How far it may come: to the end of the body, or to a long line.
Stops == {e \in {Size(poll.of)} \cup {Start(k) : k \in {j \in 1..MaxLines : Long(j)}} :
            poll.pos < e /\ e <= Size(poll.of) /\ Passable(e)}
\* The line that is cut when reading ends at a place within it.
CutAt(stop) == {<<poll.of.gen, k>> : k \in {j \in 1..MaxLines : Start(j) < stop /\ stop < Start(j) + 2}}

\* One batch: inserted, or dropped because its insert failed.  The half line at the end of
\* an object is taken for a line; a compressed object is read again when it changes.
ReadBatch(stop, stored) ==
  LET t == Taken(stop)
      R == RowsOf(poll, t)
      cut == IF source.compressed THEN {} ELSE CutAt(t.pos)
  IN /\ remoteRows' = IF stored THEN remoteRows \cup R ELSE remoteRows
     /\ poll' = [poll EXCEPT !.pos = t.pos, !.counted = t.counted]
     /\ lostLines' = lostLines \cup cut \cup IF stored THEN {} ELSE LinesOf(R)
ReadOn ==
  /\ step = "read" /\ \E stop \in Stops : ReadBatch(stop, TRUE)
  /\ UNCHANGED <<step, st, disk, missed>> /\ Quiet
InsertFails ==
  /\ step = "read" /\ \E stop \in Stops : ReadBatch(stop, FALSE)
  /\ pollsLeft.faults > 0 /\ pollsLeft' = [pollsLeft EXCEPT !.faults = @ - 1]
  /\ UNCHANGED <<source, object, step, st, disk, missed>>
\* The body breaks off: what came of its last line is taken for a line, and a
\* compressed object for read.
BreakOff(stop) ==
  /\ step = "read" /\ stop \in (poll.pos + 1)..(Size(poll.of) - 1) /\ Passable(stop)
  /\ stop <= Start(LineOf(poll.pos) + RemoteBatch)
  /\ pollsLeft.faults > 0 /\ pollsLeft' = [pollsLeft EXCEPT !.faults = @ - 1]
  /\ LET t == Taken(stop)
         unread == {<<poll.of.gen, k>> : k \in {j \in 1..MaxLines : stop < Start(j) + 2}}
     IN /\ remoteRows' = remoteRows \cup RowsOf(poll, t)
        /\ poll' = [poll EXCEPT !.pos = t.pos, !.counted = t.counted]
        /\ lostLines' = lostLines \cup IF source.compressed THEN unread ELSE CutAt(stop)
  /\ step' = "close"
  /\ UNCHANGED <<source, object, st, disk, missed>>
\* A long line: the poll ends as at the end of the body, and the next one comes to the
\* same line.
ScannerStops ==
  /\ Goes("read", "close") /\ poll.pos < Size(poll.of) /\ Long(LineOf(poll.pos))
  /\ UNCHANGED <<st, disk, poll, remoteRows, lostLines, missed>> /\ Quiet
EndOfBody ==
  /\ Goes("read", "close") /\ poll.pos >= Size(poll.of)
  /\ UNCHANGED <<st, disk, poll, remoteRows, lostLines, missed>> /\ Quiet

\* Mutant of Reached: the size that was told is taken for what was read.
ReachedSize == poll.meta.size
Reached == IF source.compressed THEN poll.meta.size ELSE poll.start + poll.counted
\* The state is that of the meta data asked for before the body.
SetTargetState ==
  /\ Goes("close", "end")
  /\ st' = IF poll.again THEN st
           ELSE [Described(poll.keep, poll.meta) EXCEPT
                   !.off = Reached,
                   !.gen = IF poll.start = 0 \/ @ = poll.of.gen THEN poll.of.gen ELSE 0]
  /\ UNCHANGED <<disk, poll, remoteRows, lostLines, missed>> /\ Quiet
\* Any request, before lines are read: the state is left as it was.
PollFails ==
  /\ step \in {"idle", "listed", "open"}
  /\ pollsLeft.faults > 0 /\ pollsLeft' = [pollsLeft EXCEPT !.faults = @ - 1]
  /\ step' = "end"
  /\ UNCHANGED <<source, object, st, disk, poll, remoteRows, lostLines, missed>>

\* The end of the pass: updateState.
Save == /\ Goes("end", "idle") /\ disk' = st /\ poll' = NoPoll
        /\ UNCHANGED <<st, remoteRows, lostLines, missed>> /\ Quiet

-----------------------------------------------------------------------------
(* Reparses, and restarts.                                                  *)

\* A reparse of the website: its rows and its states are dropped.
Reparse ==
  /\ step = "idle" /\ pollsLeft.reparses > 0 /\ pollsLeft' = [pollsLeft EXCEPT !.reparses = @ - 1]
  /\ remoteRows' = {} /\ st' = NoState /\ disk' = NoState /\ lostLines' = {}
  /\ UNCHANGED <<source, object, step, poll, missed>>
\* A reparse of a range of time, which holds all the lines: the rows are dropped,
\* the states are kept, and every object is read from its start.
ReparseRange ==
  /\ step = "idle" /\ pollsLeft.reparses > 0 /\ pollsLeft' = [pollsLeft EXCEPT !.reparses = @ - 1]
  /\ remoteRows' = {} /\ lostLines' = lostLines \cup LinesOf(remoteRows)
  /\ step' = "open" /\ poll' = [NoPoll EXCEPT !.again = TRUE]
  /\ UNCHANGED <<source, object, st, disk, missed>>
PollCrash ==
  /\ pollsLeft.crashes > 0 /\ pollsLeft' = [pollsLeft EXCEPT !.crashes = @ - 1]
  /\ step' = "idle" /\ st' = disk /\ poll' = NoPoll
  /\ UNCHANGED <<source, object, disk, remoteRows, lostLines, missed>>

RemoteInit ==
  /\ source \in Sources /\ object \in {[gen |-> 1, n |-> n, part |-> 0] : n \in 0..MaxLines}
  /\ st = NoState /\ disk = NoState /\ step = "idle" /\ poll = NoPoll
  /\ remoteRows = {} /\ lostLines = {} /\ missed = {} /\ pollsLeft \in PollLimits
Poll == \/ ListTargets \/ Decide \/ OpenRange \/ OpenRefused \/ ReadOn \/ ScannerStops
        \/ EndOfBody \/ SetTargetState \/ Save
Faults == PollFails \/ InsertFails \/ (\E s \in 1..(MaxLines * Width) : BreakOff(s)) \/ PollCrash
RemoteNext == \/ AppendLine \/ (\E c \in 1..(Width - 1) : WritePart(c)) \/ (\E n \in 0..MaxLines : Replace(n))
              \/ Poll \/ Faults \/ Reparse \/ ReparseRange
\* The task loop comes again and again.
RemoteSpec == RemoteInit /\ [][RemoteNext]_remoteVars /\ WF_remoteVars(Poll)

-----------------------------------------------------------------------------
(* Properties                                                              *)

Stored(g, k) == \E r \in remoteRows : r.gen = g /\ r.k = k

\* A line has one row, from whatever offset it was read again: after a crash, a
\* reset, a body that broke off, a source without ranges, or a reparse.
NoDuplicates == \A r, q \in remoteRows : r.gen = q.gen /\ r.k = q.k => r = q

\* The offset of the state, in memory and in the file, passes no line of its object
\* but those that are stored, that are old, that a failure took, or that were half written
\* when they were read (those it does pass).
OffsetAccounted ==
  \A s \in {st, disk} : \A k \in 1..MaxLines :
    s.known /\ s.gen # 0 /\ s.gen \notin missed /\ ~source.compressed /\ Start(k) + 2 <= s.off
      => Stored(s.gen, k) \/ Old(s.gen, k) \/ <<s.gen, k>> \in lostLines

\* Every line of an object that stays is stored in the end, unless a failure took
\* it, it was half written when it was read, it is old, the object looked like the one
\* before it, only longer, or a line of more than 64 KiB is before it: every later poll
\* stops there.
Missing(k) ==
  /\ k <= object.n /\ object.gen \notin missed
  /\ \A j \in 1..k : <<object.gen, j>> \notin pollsLeft.long
  /\ ~Stored(object.gen, k) /\ ~Old(object.gen, k) /\ <<object.gen, k>> \notin lostLines
EventuallyStored == []<>(\A k \in 1..MaxLines : ~Missing(k))
=============================================================================
