--------------------------- MODULE FileScanProofs ---------------------------
(* Proofs about FileScan, for any number of lines, files, crashes and       *)
(* reparses, and any batch size: the types, one row per line, that no       *)
(* offset, in memory or saved, passes a line that the database does not     *)
(* have (under Benign), that the windows meet, and that backfills go        *)
(* forward.                                                                *)
EXTENDS FileScan, TLAPS

USE PathsAssumption, BoundsAssumption, FlagsAssumption

----------------------------------------------------------------------------
(* TYPE CORRECTNESS *)

(* The cell arithmetic stays in its range.                                  *)
LEMMA LineRange ==
  ASSUME NEW cell \in Cells
  PROVE  /\ FirstLine(cell) \in 1..(MaxLines + 2)
         /\ LineAt(cell) \in 1..(MaxLines + 2)
         /\ LineAt(cell) <= FirstLine(cell)
  BY DEF Cells, FirstLine, LineAt

LEMMA NoStateType == NoState \in FileStates /\ NoStates \in [Paths -> FileStates]
  BY DEF NoState, NoStates, FileStates, Cells

LEMMA DoneType ==
  ASSUME NEW s \in FileStates
  PROVE  [s EXCEPT !.fillDone = TRUE] \in FileStates
  BY DEF FileStates

LEMMA NoJobType == NoJob \in Jobs /\ NoJob.base <= NoJob.next
<1>1. 1 \in Gens /\ 1 \in 1..(MaxLines + 2)
  BY DEF Gens
<1> QED BY <1>1, NoStateType DEF NoJob, Jobs, Paths, Windows

(* A file of the typed model has a size that is a cell.                     *)
LEMMA SizeType ==
  ASSUME TypeOK, NEW g \in Gens
  PROVE  Size(g) \in Cells /\ Len(content[g]) \in 0..MaxLines
<1>1. Len(content[g]) \in Nat /\ Len(content[g]) <= MaxLines
  BY DEF TypeOK
<1>2. CASE torn[g]
  BY <1>1, <1>2 DEF Size, Cells
<1>3. CASE ~torn[g]
  BY <1>1, <1>3 DEF Size, Cells
<1> QED BY <1>2, <1>3

(* The row of the next line is a row.                                       *)
LEMMA NextRowType ==
  ASSUME TypeOK, job.next <= Len(content[job.gen])
  PROVE  NextRow \in Rows /\ Extended \subseteq Rows
<1>1. job \in Jobs /\ job.base <= job.next /\ job.gen \in Gens
  BY DEF TypeOK, Jobs
<1>2. Len(content[job.gen]) \in 0..MaxLines
  BY <1>1, SizeType
<1>3. /\ job.next \in Lines /\ job.path \in Paths
      /\ job.next - job.base \in 0..MaxLines /\ 0 \in 0..MaxLines
      /\ job.batch \subseteq Rows
  BY <1>1, <1>2 DEF Jobs, Lines
<1>4. NextRow \in Rows
  BY <1>1, <1>3 DEF NextRow, Rows
<1> QED BY <1>3, <1>4 DEF Extended

(* An insert keeps rows and history in their types and loses no row.        *)
LEMMA InsertType ==
  ASSUME TypeOK, NEW batch \in SUBSET Rows,
         NEW left \in SUBSET (Paths \X Gens \X Lines), Insert(batch, left)
  PROVE  /\ rows' \subseteq Rows
         /\ dropped' \subseteq Paths \X Gens \X Lines
  BY DEF TypeOK, Insert, LineOf, Rows

(* The initial states have the types.                                       *)
LEMMA InitType == Init => TypeOK
<1> SUFFICES ASSUME Init PROVE TypeOK
  OBVIOUS
<1>1. /\ content \in [Gens -> Seq(0..MaxTs)]
      /\ \A g \in Gens : Len(content[g]) <= MaxLines
  BY DEF Init
<1>2. torn \in [Gens -> BOOLEAN] /\ cutoff \in 0..MaxTs
  BY DEF Init
<1>3. at \in [Paths -> 0..MaxGen] /\ at[Live] # 0
  BY DEF Init, Paths
<1>4. faults \in [crashes: 0..MaxCrashes, reparses: 0..MaxReparses]
  BY DEF Init
<1>5. st \in [Paths -> FileStates] /\ disk \in [Paths -> FileStates]
  BY NoStateType DEF Init
<1>6. rows \subseteq Rows /\ dropped \subseteq Paths \X Gens \X Lines
      /\ pc \in PCs /\ todo \subseteq Paths
  BY DEF Init, PCs
<1> QED BY <1>1, <1>2, <1>3, <1>4, <1>5, <1>6, NoJobType DEF TypeOK, Init

(* The steps of the environment.                                            *)
LEMMA EnvironmentType ==
  ASSUME TypeOK, Environment PROVE TypeOK'
<1> USE DEF TypeOK, jobVars
<1>1. CASE WriteLine
  <2> DEFINE g == at[Live]
  <2>1. g \in Gens
    BY DEF Gens, Paths
  <2>2. PICK ts \in (cutoff + 1)..MaxTs :
          content' = [content EXCEPT ![g] = Append(@, ts)]
    BY <1>1 DEF WriteLine
  <2>3. ts \in 0..MaxTs
    OBVIOUS
  <2>4. /\ content' \in [Gens -> Seq(0..MaxTs)]
        /\ content'[g] = Append(content[g], ts)
        /\ \A h \in Gens : h # g => content'[h] = content[h]
    BY <2>1, <2>2, <2>3
  <2>5. Len(content'[g]) = Len(content[g]) + 1 /\ Len(content[g]) < MaxLines
    BY <1>1, <2>1, <2>3, <2>4 DEF WriteLine
  <2>6. \A h \in Gens : Len(content'[h]) <= MaxLines
    <3> SUFFICES ASSUME NEW h \in Gens PROVE Len(content'[h]) <= MaxLines
      OBVIOUS
    <3>1. Len(content[g]) \in Nat /\ MaxLines \in Nat
      BY <2>1
    <3>2. CASE h = g
      BY <2>5, <3>1, <3>2
    <3>3. CASE h # g
      BY <2>4, <3>3
    <3> QED BY <3>2, <3>3
  <2>7. torn' \in [Gens -> BOOLEAN]
    BY <1>1 DEF WriteLine
  <2> QED BY <1>1, <2>4, <2>6, <2>7 DEF WriteLine
<1>2. CASE WritePart
  BY <1>2 DEF WritePart
<1>3. CASE Rotate
  BY <1>3 DEF Rotate, Paths
<1>4. CASE Remove
  BY <1>4 DEF Remove, Paths
<1>5. CASE Tick
  BY <1>5 DEF Tick
<1> QED BY <1>1, <1>2, <1>3, <1>4, <1>5 DEF Environment

(* Opening a file from a cell gives a job.                                  *)
LEMMA OpenType ==
  ASSUME TypeOK, NEW p \in Paths, at[p] # 0, NEW w \in Windows,
         NEW cell \in Cells, NEW s \in FileStates, Open(p, w, cell, s)
  PROVE  job' \in Jobs /\ job'.base <= job'.next
<1>1. at[p] \in Gens
  BY DEF TypeOK, Gens
<1>2. {} \in SUBSET Rows
  OBVIOUS
<1> QED BY <1>1, <1>2, LineRange DEF Open, Jobs

(* A first scan starts from a state that has the types.                     *)
LEMMA FirstStateType ==
  ASSUME TypeOK, NEW p \in Paths, at[p] # 0
  PROVE  FirstState(p) \in FileStates
<1>1. at[p] \in Gens /\ at[p] \in 0..MaxGen /\ cutoff \in 0..MaxTs
  BY DEF TypeOK, Gens
<1>2. Size(at[p]) \in Cells /\ 0 \in Cells
  BY <1>1, SizeType DEF Cells
<1> QED BY <1>1, <1>2 DEF FileStates, FirstState

(* The steps of a scan up to its first line.                                *)
LEMMA StatType ==
  ASSUME TypeOK, NEW p \in Paths, StatFile(p) PROVE TypeOK'
<1>1. at[p] \in Gens /\ at[p] # 0
  BY DEF TypeOK, StatFile, Gens
<1>2. Size(at[p]) \in Cells
  BY <1>1, SizeType
<1>3. st' \in [Paths -> FileStates]
  BY NoStateType DEF TypeOK, StatFile, Shrunk
<1>4. st[p] \in FileStates
  BY DEF TypeOK
<1>5. job' \in Jobs /\ job'.base <= job'.next /\ pc' \in PCs /\ todo' \subseteq Paths
  <2>1. ASSUME Open(p, "recent", 0, FirstState(p))
        PROVE job' \in Jobs /\ job'.base <= job'.next
    <3>1. FirstState(p) \in FileStates
      BY <1>1, <1>2, FirstStateType
    <3>2. 0 \in Cells /\ "recent" \in Windows
      BY DEF Cells, Windows
    <3> QED BY <1>1, <2>1, <3>1, <3>2, OpenType
  <2>2. ASSUME Open(p, "all", st[p].lastOffset,
                 [st[p] EXCEPT !.lastOffset = Size(at[p]), !.lastSize = Size(at[p])])
        PROVE job' \in Jobs /\ job'.base <= job'.next
    <3>1. [st[p] EXCEPT !.lastOffset = Size(at[p]), !.lastSize = Size(at[p])]
             \in FileStates
      BY <1>2, <1>4 DEF FileStates
    <3>2. st[p].lastOffset \in Cells /\ "all" \in Windows
      BY <1>4 DEF FileStates, Windows
    <3> QED BY <1>1, <2>2, <3>1, <3>2, OpenType
  <2>3. job' = job => job' \in Jobs /\ job'.base <= job'.next
    BY DEF TypeOK
  <2>4. \/ Open(p, "recent", 0, FirstState(p))
        \/ Open(p, "all", st[p].lastOffset,
             [st[p] EXCEPT !.lastOffset = Size(at[p]), !.lastSize = Size(at[p])])
        \/ job' = job
    BY DEF StatFile
  <2>5. pc' \in PCs /\ todo' \subseteq Paths
    BY DEF StatFile, TypeOK, PCs
  <2> QED BY <2>1, <2>2, <2>3, <2>4, <2>5
<1> QED BY <1>3, <1>5 DEF TypeOK, StatFile, fileVars

(* The first read of a first scan.                                          *)
LEMMA FirstScanType ==
  ASSUME TypeOK, NEW from \in Cells, NEW s \in FileStates,
         FirstScan(from, s)
  PROVE  /\ st' \in [Paths -> FileStates]
         /\ job' \in Jobs /\ job'.base <= job'.next
         /\ pc' \in PCs /\ todo' \subseteq Paths
<1>1. /\ FirstLine(from) \in 1..(MaxLines + 2)
      /\ LineAt(from) \in 1..(MaxLines + 2)
      /\ LineAt(from) <= FirstLine(from)
  BY LineRange
<1>4. from \in Int /\ s.lastSize \in Int
  BY DEF FileStates, Cells
<1>2. CASE from < s.lastSize
  <2>1. job \in Jobs
    BY DEF TypeOK
  <2>2. /\ job' = [job EXCEPT !.state = s, !.base = LineAt(from),
                              !.next = FirstLine(from)]
        /\ pc' = "read" /\ st' = st /\ todo' = todo
    BY <1>2, <1>4 DEF FirstScan
  <2>3. job' \in Jobs /\ job'.base <= job'.next
    BY <1>1, <2>1, <2>2 DEF Jobs
  <2> QED BY <2>2, <2>3 DEF TypeOK, PCs
<1>3. CASE from >= s.lastSize
  <2>1. /\ st' = [st EXCEPT ![job.path] = s]
        /\ todo' = todo \ {job.path}
        /\ pc' = "scan" /\ job' = job
    BY <1>3, <1>4 DEF FirstScan
  <2> QED BY <2>1 DEF TypeOK, PCs
<1> QED BY <1>2, <1>3, <1>4

LEMMA LocateType ==
  ASSUME TypeOK, LocateRecent \/ LocateFails PROVE TypeOK'
<1>1. job.state \in FileStates /\ job.gen \in Gens
  BY DEF TypeOK, Jobs
<1>2. CASE LocateRecent
  <2>1. PICK k \in 0..Len(content[job.gen]) :
          FirstScan(2 * k, [job.state EXCEPT !.recent = 2 * k, !.fillEnd = 2 * k,
                                             !.fillDone = (k = 0)])
    BY <1>2 DEF LocateRecent
  <2>2. 2 * k \in Cells
    BY <1>1, SizeType DEF Cells
  <2>3. [job.state EXCEPT !.recent = 2 * k, !.fillEnd = 2 * k, !.fillDone = (k = 0)]
           \in FileStates
    BY <1>1, <2>2 DEF FileStates
  <2> QED BY <1>2, <2>1, <2>2, <2>3, FirstScanType DEF LocateRecent, TypeOK, fileVars
<1>3. CASE LocateFails
  <2>1. FirstScan(0, [job.state EXCEPT !.fillEnd = job.state.lastSize])
    BY <1>3 DEF LocateFails
  <2>2. 0 \in Cells /\ [job.state EXCEPT !.fillEnd = job.state.lastSize] \in FileStates
    BY <1>1 DEF FileStates, Cells
  <2> QED BY <1>3, <2>1, <2>2, FirstScanType DEF LocateFails, TypeOK, fileVars
<1> QED BY <1>2, <1>3

(* Taking a line.                                                           *)
LEMMA TakeLineType ==
  ASSUME TypeOK, TakeLine
  PROVE  /\ rows' \subseteq Rows
         /\ dropped' \subseteq Paths \X Gens \X Lines
         /\ job' \in Jobs /\ job'.base <= job'.next
<1>1. Extended \in SUBSET Rows
  BY NextRowType DEF TakeLine
<1>2. job \in Jobs /\ job.base <= job.next /\ job.gen \in Gens
  BY DEF TypeOK, Jobs
<1>3. Len(content[job.gen]) \in 0..MaxLines /\ job.next <= Len(content[job.gen])
  BY <1>2, SizeType DEF TakeLine
<1>4. job.next + 1 \in 1..(MaxLines + 2) /\ job.base <= job.next + 1
  BY <1>2, <1>3 DEF Jobs
<1>5. /\ [job EXCEPT !.next = @ + 1, !.batch = {}] \in Jobs
      /\ [job EXCEPT !.next = @ + 1, !.batch = Extended] \in Jobs
  BY <1>1, <1>2, <1>4 DEF Jobs
<1>6. job' \in Jobs
  BY <1>5 DEF TakeLine
<1>7. job'.base <= job'.next
  BY <1>2, <1>4 DEF TakeLine, Jobs
<1>8. rows' \subseteq Rows /\ dropped' \subseteq Paths \X Gens \X Lines
  BY <1>1, InsertType DEF TakeLine, TypeOK
<1> QED BY <1>6, <1>7, <1>8

(* The lines a scan leaves unread are lines.                                *)
LEMMA UnreadType ==
  ASSUME TypeOK PROVE Unread \subseteq Paths \X Gens \X Lines
<1>1. job \in Jobs /\ job.path \in Paths /\ job.gen \in Gens /\ job.next \in 1..(MaxLines + 2)
  BY DEF TypeOK, Jobs
<1>2. Len(content[job.gen]) \in 0..MaxLines
  BY <1>1, SizeType
<1>3. job.next..Len(content[job.gen]) \subseteq Lines
  BY <1>1, <1>2 DEF Lines
<1> QED BY <1>1, <1>3 DEF Unread

(* The end of the scan of a file.                                           *)
LEMMA CloseScanType ==
  ASSUME TypeOK, NEW left \in SUBSET (Paths \X Gens \X Lines), CloseScan(left)
  PROVE  TypeOK'
<1>1. job.batch \in SUBSET Rows /\ job.state \in FileStates
  BY DEF TypeOK, Jobs
<1>2. rows' \subseteq Rows /\ dropped' \subseteq Paths \X Gens \X Lines
  BY <1>1, InsertType DEF CloseScan
<1> QED BY <1>1, <1>2, NoJobType DEF CloseScan, TypeOK, fileVars, PCs

(* Closing the file of a backfill.                                          *)
LEMMA CloseFillType ==
  ASSUME TypeOK, NEW done \in BOOLEAN, NEW rest \in SUBSET Paths,
         CloseFill(done, rest)
  PROVE  TypeOK'
<1>1. job.batch \in SUBSET Rows /\ job.state \in FileStates /\ job.path \in Paths
      /\ job.next \in 1..(MaxLines + 2)
  BY DEF TypeOK, Jobs
<1>2. 2 * (job.next - 1) \in Cells
  BY <1>1 DEF Cells
<1>3. st' \in [Paths -> FileStates]
  BY <1>1, <1>2 DEF CloseFill, TypeOK, FileStates
<1>4. rows' \subseteq Rows /\ dropped' \subseteq Paths \X Gens \X Lines
  BY <1>1, InsertType DEF CloseFill
<1> QED BY <1>3, <1>4, NoJobType DEF CloseFill, TypeOK, fileVars, PCs

(* Every step keeps the types.                                              *)
LEMMA StepType == TypeOK /\ [Next]_vars => TypeOK'
<1> SUFFICES ASSUME TypeOK, [Next]_vars PROVE TypeOK'
  OBVIOUS
<1>1. CASE UNCHANGED vars
  BY <1>1 DEF vars, fileVars, jobVars, TypeOK
<1>2. CASE Environment
  BY <1>2, EnvironmentType
<1>3. CASE StartScan
  BY <1>3 DEF StartScan, TypeOK, fileVars, PCs, Watched, Paths
<1>4. CASE StartBackfill
  BY <1>4, NoJobType DEF StartBackfill, TypeOK, fileVars, PCs
<1>5. CASE ClearLogs
  <2>1. faults' \in [crashes: 0..MaxCrashes, reparses: 0..MaxReparses]
    <3>1. faults.reparses \in 0..MaxReparses /\ faults.reparses < MaxReparses
      BY <1>5 DEF ClearLogs, TypeOK
    <3>2. faults.reparses + 1 \in 0..MaxReparses
      BY <3>1
    <3> QED BY <1>5, <3>2 DEF ClearLogs, TypeOK
  <2> QED BY <1>5, <2>1 DEF ClearLogs, TypeOK, fileVars, PCs
<1>6. CASE Restart
  <2>1. disk' \in [Paths -> FileStates] /\ st' \in [Paths -> FileStates]
    BY <1>6, NoStateType DEF Restart, Save, TypeOK
  <2>2. faults' \in [crashes: 0..MaxCrashes, reparses: 0..MaxReparses]
    <3>1. faults.crashes \in 0..MaxCrashes /\ faults.crashes < MaxCrashes
      BY <1>6 DEF Restart, TypeOK
    <3>2. faults.crashes + 1 \in 0..MaxCrashes
      BY <3>1
    <3> QED BY <1>6, <3>2 DEF Restart, TypeOK
  <2> QED BY <1>6, <2>1, <2>2, NoJobType DEF Restart, TypeOK, fileVars, PCs
<1>7. CASE Pass
  <2> USE DEF fileVars, PCs
  <2>1. ASSUME NEW p \in Paths, OpenFails(p) PROVE TypeOK'
    BY <2>1 DEF OpenFails, TypeOK
  <2>2. ASSUME NEW p \in Paths, StatFile(p) PROVE TypeOK'
    BY <2>2, StatType
  <2>3. ASSUME NEW p \in Paths, SkipFill(p) PROVE TypeOK'
    <3>1. st' \in [Paths -> FileStates]
      <4>0. st[p] \in FileStates
        BY DEF TypeOK
      <4>1. [st[p] EXCEPT !.fillDone = TRUE] \in FileStates
        BY <4>0, DoneType
      <4> QED BY <2>3, <4>1 DEF SkipFill, TypeOK
    <3> QED BY <2>3, <3>1 DEF SkipFill, TypeOK
  <2>4. ASSUME NEW p \in Paths, OpenFill(p) PROVE TypeOK'
    <3>1. st[p] \in FileStates /\ st[p].fillOffset \in Cells /\ "history" \in Windows
      BY DEF TypeOK, FileStates, Windows
    <3>2. job' \in Jobs /\ job'.base <= job'.next
      BY <2>4, <3>1, OpenType DEF OpenFill
    <3> QED BY <2>4, <3>2 DEF OpenFill, TypeOK
  <2>5. CASE LocateRecent \/ LocateFails
    BY <2>5, LocateType
  <2>6. CASE ReadLine
    BY <2>6, TakeLineType DEF ReadLine, TypeOK
  <2>7. CASE EndFile
    <3>1. {} \in SUBSET (Paths \X Gens \X Lines)
      OBVIOUS
    <3> QED BY <2>7, <3>1, CloseScanType DEF EndFile
  <2>14. CASE ScannerStops
    BY <2>14, UnreadType, CloseScanType DEF ScannerStops
  <2>8. CASE FinishScan
    BY <2>8 DEF FinishScan, Save, TypeOK
  <2>9. CASE FillLine
    BY <2>9, TakeLineType DEF FillLine, TypeOK
  <2>10. CASE EndFill
    <3>1. todo \ {job.path} \in SUBSET Paths
      BY DEF TypeOK
    <3> QED BY <2>10, <3>1, CloseFillType DEF EndFill
  <2>11. CASE StopFill
    <3>1. (2 * (job.next - 1) >= job.state.fillEnd) \in BOOLEAN
      OBVIOUS
    <3> QED BY <2>11, <3>1, CloseFillType DEF StopFill
  <2>12. CASE FinishBackfill
    BY <2>12 DEF FinishBackfill, Save, TypeOK
  <2>13. CASE ResetScanState
    BY <2>13, NoStateType DEF ResetScanState, Save, TypeOK, Watched, Paths
  <2> QED
    BY <1>7, <2>1, <2>2, <2>3, <2>4, <2>5, <2>6, <2>7, <2>8, <2>9, <2>10, <2>14,
       <2>11, <2>12, <2>13 DEF Pass
<1> QED BY <1>1, <1>2, <1>3, <1>4, <1>5, <1>6, <1>7 DEF Next

(* Type correctness: every variable of the scan stays in its type.          *)
THEOREM TypeCorrect == Spec => []TypeOK
  BY InitType, StepType, PTL DEF Spec

----------------------------------------------------------------------------
(* ONE ROW PER LINE                                                         *)

\* With single-byte line ends the computed offsets are the true ones.
TrueOffsets ==
  /\ \A r \in rows : r.drift = 0
  /\ \A r \in job.batch : r.drift = 0

LEMMA InsertTrue ==
  ASSUME TrueOffsets, NEW batch, NEW left, \A r \in batch : r.drift = 0, Insert(batch, left)
  PROVE  \A r \in rows' : r.drift = 0
  BY DEF TrueOffsets, Insert

LEMMA TakeTrue ==
  ASSUME TypeOK, TrueOffsets, ~Crlf, TakeLine PROVE TrueOffsets'
<1>1. NextRow.drift = 0
  BY DEF NextRow
<1>2. \A r \in Extended : r.drift = 0
  BY <1>1 DEF Extended, TrueOffsets
<1>3. \A r \in rows' : r.drift = 0
  BY <1>2, InsertTrue DEF TakeLine, TrueOffsets
<1>4. job'.batch = {} \/ job'.batch = Extended
  BY DEF TakeLine, TypeOK, Jobs
<1> QED BY <1>2, <1>3, <1>4 DEF TrueOffsets

LEMMA OpenTrue ==
  ASSUME NEW p, NEW w, NEW cell, NEW s, Open(p, w, cell, s)
  PROVE  \A r \in job'.batch : r.drift = 0
  BY DEF Open

LEMMA StepTrue == TypeOK /\ ~Crlf /\ TrueOffsets /\ [Next]_vars => TrueOffsets'
<1> SUFFICES ASSUME TypeOK, ~Crlf, TrueOffsets, [Next]_vars PROVE TrueOffsets'
  OBVIOUS
<1> USE DEF jobVars
<1>0. NoJob.batch = {}
  BY DEF NoJob
<1>1. CASE UNCHANGED vars
  BY <1>1 DEF vars, TrueOffsets
<1>2. CASE Environment
  BY <1>2 DEF Environment, WriteLine, WritePart, Rotate, Remove, Tick, TrueOffsets
<1>3. CASE StartScan \/ StartBackfill \/ ClearLogs \/ Restart
  BY <1>0, <1>3 DEF StartScan, StartBackfill, ClearLogs, Restart, TrueOffsets
<1>4. CASE Pass
  <2>1. ASSUME NEW p \in Paths, OpenFails(p) \/ SkipFill(p) PROVE TrueOffsets'
    BY <2>1 DEF OpenFails, SkipFill, TrueOffsets
  <2>2. ASSUME NEW p \in Paths, StatFile(p) \/ OpenFill(p) PROVE TrueOffsets'
    <3>1. rows' = rows
      BY <2>2 DEF StatFile, OpenFill
    <3>2. \A r \in job'.batch : r.drift = 0
      BY <2>2, OpenTrue DEF StatFile, OpenFill, TrueOffsets
    <3> QED BY <3>1, <3>2 DEF TrueOffsets
  <2>3. CASE LocateRecent \/ LocateFails
    <3>1. rows' = rows
      BY <2>3 DEF LocateRecent, LocateFails
    <3>2. job'.batch = job.batch
      BY <2>3 DEF LocateRecent, LocateFails, FirstScan, TypeOK, Jobs
    <3> QED BY <3>1, <3>2 DEF TrueOffsets
  <2>4. CASE ReadLine \/ FillLine
    BY <2>4, TakeTrue DEF ReadLine, FillLine
  <2>5. CASE EndFile \/ ScannerStops \/ EndFill \/ StopFill
    <3>1. PICK left : Insert(job.batch, left) /\ job' = NoJob
      BY <2>5 DEF EndFile, ScannerStops, CloseScan, EndFill, StopFill, CloseFill
    <3> QED BY <1>0, <3>1, InsertTrue DEF TrueOffsets
  <2>6. CASE FinishScan \/ FinishBackfill \/ ResetScanState
    BY <2>6 DEF FinishScan, FinishBackfill, ResetScanState, TrueOffsets
  <2> QED BY <1>4, <2>1, <2>2, <2>3, <2>4, <2>5, <2>6 DEF Pass
<1> QED BY <1>1, <1>2, <1>3, <1>4 DEF Next

(* One row per line, however often it is read again: by the next scan, after *)
(* a crash, by both windows.  It needs line ends of one byte, because the    *)
(* scanner adds len(line)+1 per line (buildLogLineFingerprint).              *)
THEOREM NoDuplicates == ASSUME ~Crlf PROVE Spec => []NoDuplicateRows
<1>1. Init => TrueOffsets
  BY DEF Init, TrueOffsets, NoJob
<1>2. TypeOK /\ TrueOffsets => NoDuplicateRows
  <2> SUFFICES ASSUME TypeOK, TrueOffsets, NEW r1 \in rows, NEW r2 \in rows,
                      LineOf(r1) = LineOf(r2)
               PROVE  r1 = r2
    BY DEF NoDuplicateRows
  <2>1. r1 \in Rows /\ r2 \in Rows /\ r1.drift = 0 /\ r2.drift = 0
    BY DEF TypeOK, TrueOffsets
  <2>2. r1.path = r2.path /\ r1.gen = r2.gen /\ r1.line = r2.line
    BY DEF LineOf
  <2> QED BY <2>1, <2>2 DEF Rows
<1>3. TypeOK /\ TrueOffsets /\ [Next]_vars => TrueOffsets'
  BY StepTrue
<1> QED BY <1>1, <1>2, <1>3, InitType, StepType, PTL DEF Spec

----------------------------------------------------------------------------
(* WHAT IS ASSUMED OF THE OFFSETS                                           *)

\* Lines are written whole; and when the user may reparse, clearing and saving do
\* not fail half way, a start can look for rows and no other website has any.
Benign ==
  /\ ~TornWrites
  /\ MaxReparses = 0 \/ (~ClearFails /\ ~SaveFails /\ ~HasLogsFails /\ ~OtherSites)

----------------------------------------------------------------------------
(* THE INDUCTIVE INVARIANT                                                  *)

\* A file that path p has, or had, and not one it may still get.
Had(p, g) ==
  /\ g \in Gens
  /\ p = Live => g <= at[Live]
  /\ p = Rotated => g < at[Live] /\ (at[Rotated] # 0 => g <= at[Rotated])

Even(c) == \E n \in 0..c : c = 2 * n

\* Offsets lie between lines, and not beyond the file they are about.
Sane(p, s) ==
  /\ Even(s.lastOffset) /\ Even(s.fillOffset)
  /\ s.known =>
       /\ Had(p, s.gen)
       /\ s.gen = at[p] => s.lastOffset <= 2 * Len(content[s.gen])

InDatabase(p, g, k) == Stored(p, g, k) \/ <<p, g, k>> \in dropped

Accounted(p, s, k) ==
  InDatabase(p, s.gen, k) \/ AwaitsFill(s, k) \/ Skipped(s, k)

AllAccounted(p, s) ==
  s.known /\ s.gen = at[p] => \A k \in Behind(s) : Accounted(p, s, k)

InBatch(j, k) == \E r \in j.batch : LineOf(r) = <<j.path, j.gen, k>>

\* What a job that has a file open relies on.
JobSane(j) ==
  /\ j.state.known
  /\ Sane(j.path, j.state)
  /\ Had(j.path, j.gen)
  /\ j.state.gen <= j.gen

\* A first scan that has not located the recent window: it starts from the
\* state of FirstState.
LocateInv(j) ==
  /\ JobSane(j)
  /\ j.window = "recent" /\ j.batch = {} /\ j.state.gen = j.gen
  /\ j.state.recent = 0 /\ j.state.fillOffset = 0 /\ j.state.fillEnd = 0
  /\ ~j.state.fillDone /\ j.state.lastSize = j.state.lastOffset

\* A scan: the lines it has read are accounted for in the state it will set or
\* wait in the batch; the ones it has not read it will store, or leave to the
\* backfill.
ReadInv(j) ==
  /\ JobSane(j)
  /\ j.window \in {"all", "recent"}
  /\ j.state.gen = at[j.path] =>
       \A k \in Behind(j.state) :
         /\ k < j.next => Accounted(j.path, j.state, k) \/ InBatch(j, k)
         /\ k >= j.next => \/ j.window = "all"
                           \/ content[j.gen][k] >= j.state.cutoff
                           \/ AwaitsFill(j.state, k)

\* A backfill: so are the old lines of the part of the section it has read.
FillInv(j) ==
  /\ JobSane(j)
  /\ j.window = "history"
  /\ j.state = st[j.path]
  /\ 2 * (j.next - 1) >= j.state.fillOffset
  /\ j.state.gen = at[j.path] =>
       \A k \in Behind(j.state) :
         /\ AwaitsFill(j.state, k)
         /\ k < j.next
         => InDatabase(j.path, j.gen, k) \/ InBatch(j, k)

JobInv ==
  /\ pc = "locate" => LocateInv(job)
  /\ pc = "read" => ReadInv(job)
  /\ pc = "fillRead" => FillInv(job)

StatesInv ==
  \A p \in Paths :
    /\ Sane(p, st[p]) /\ Sane(p, disk[p])
    /\ pc # "cleared" => AllAccounted(p, st[p]) /\ AllAccounted(p, disk[p])

\* Lines are whole, and the rotated file is older than the live one.
FilesInv == (\A g \in Gens : ~torn[g]) /\ at[Rotated] < at[Live]

\* A backfill visits files that have a state.
TodoInv == pc \in {"fill", "fillRead"} => \A p \in todo : st[p].known

ClearedInv == pc = "cleared" => rows = {} /\ MaxReparses # 0

IndInv == TypeOK /\ FilesInv /\ ClearedInv /\ StatesInv /\ JobInv /\ TodoInv

----------------------------------------------------------------------------
(* STEPS THAT LOSE NOTHING                                                  *)

\* Files only grow, a path only goes on to newer files, rows and history stay.
Grows ==
  /\ rows \subseteq rows' /\ dropped \subseteq dropped'
  /\ \A g \in Gens :
       /\ Len(content[g]) <= Len(content'[g])
       /\ \A k \in DOMAIN content[g] : content'[g][k] = content[g][k]
  /\ \A p \in Paths, g \in Gens :
       Had(p, g) => Had(p, g)' /\ (g = at'[p] => g = at[p])

(* What was accounted for stays so when nothing is lost.                    *)
LEMMA GrowsKeeps ==
  ASSUME TypeOK, TypeOK', Grows, NEW p \in Paths, NEW s \in FileStates,
         Sane(p, s)
  PROVE  /\ Sane(p, s)'
         /\ AllAccounted(p, s) => AllAccounted(p, s)'
<1>1. s.known => s.gen \in Gens /\ Had(p, s.gen)
  BY DEF Sane, Had
<1>2. s.known /\ s.gen = at'[p] => s.gen = at[p]
  BY <1>1 DEF Grows
<1>3. \A g \in Gens : /\ Len(content[g]) \in Nat /\ DOMAIN content[g] = 1..Len(content[g])
                      /\ Len(content'[g]) \in Nat /\ DOMAIN content'[g] = 1..Len(content'[g])
  BY DEF TypeOK
<1>4. Sane(p, s)'
  <2>1. s.known => Had(p, s.gen)'
    BY <1>1 DEF Grows
  <2>2. s.lastOffset \in Int
    BY DEF FileStates, Cells
  <2>3. s.known /\ s.gen = at'[p] => s.lastOffset <= 2 * Len(content'[s.gen])
    BY <1>1, <1>2, <1>3, <2>2 DEF Sane, Grows
  <2> QED BY <2>1, <2>3 DEF Sane, Even
<1>5. ASSUME AllAccounted(p, s), s.known, s.gen = at'[p], NEW k \in Behind(s)'
      PROVE  Accounted(p, s, k)'
  <2>1. s.gen \in Gens /\ s.gen = at[p]
    BY <1>1, <1>2, <1>5
  <2>2. s.lastOffset \in Int /\ s.lastOffset <= 2 * Len(content[s.gen])
    BY <1>5, <2>1 DEF Sane, FileStates, Cells
  <2>3. k \in Behind(s)
    BY <1>3, <1>5, <2>1, <2>2 DEF Behind
  <2>4. Accounted(p, s, k) /\ content'[s.gen][k] = content[s.gen][k]
    BY <1>5, <2>1, <2>3 DEF AllAccounted, Grows, Behind
  <2> QED BY <2>4 DEF Accounted, InDatabase, Stored, AwaitsFill, Skipped, Grows
<1> QED BY <1>4, <1>5 DEF AllAccounted

(* Such a step that changes no state keeps the invariant of the states.     *)
LEMMA GrowsStates ==
  ASSUME TypeOK, TypeOK', Grows, StatesInv, st' = st, disk' = disk,
         pc' = "cleared" <=> pc = "cleared"
  PROVE  StatesInv'
<1> SUFFICES ASSUME NEW p \in Paths
             PROVE  /\ Sane(p, st[p])' /\ Sane(p, disk[p])'
                    /\ pc' # "cleared" =>
                         AllAccounted(p, st[p])' /\ AllAccounted(p, disk[p])'
  BY DEF StatesInv
<1>1. st[p] \in FileStates /\ disk[p] \in FileStates
  BY DEF TypeOK
<1>2. \A s \in FileStates :
        Sane(p, s) => /\ Sane(p, s)'
                      /\ AllAccounted(p, s) => AllAccounted(p, s)'
  BY GrowsKeeps
<1>3. /\ Sane(p, st[p]) /\ Sane(p, disk[p])
      /\ pc # "cleared" => AllAccounted(p, st[p]) /\ AllAccounted(p, disk[p])
  BY DEF StatesInv
<1>4. Sane(p, st[p])' /\ Sane(p, disk[p])'
  BY <1>1, <1>2, <1>3
<1>5. pc # "cleared" => AllAccounted(p, st[p])' /\ AllAccounted(p, disk[p])'
  BY <1>1, <1>2, <1>3
<1> QED BY <1>4, <1>5

(* And one that leaves the job alone keeps the invariant of the job.        *)
LEMMA GrowsJobSane ==
  ASSUME TypeOK, TypeOK', Grows, NEW j \in Jobs, JobSane(j)
  PROVE  /\ JobSane(j)'
         /\ j.state.gen = at'[j.path] => j.state.gen = at[j.path] /\ j.state.gen = j.gen
         /\ j.state.gen = at[j.path] => j.state.gen = j.gen
         /\ j.state.gen = at'[j.path] => Behind(j.state)' = Behind(j.state)
<1>1. j.path \in Paths /\ j.state \in FileStates
  BY DEF Jobs
<1>2. Sane(j.path, j.state) /\ Had(j.path, j.gen) /\ j.gen \in Gens
      /\ Had(j.path, j.state.gen) /\ j.state.gen \in Gens /\ j.state.gen <= j.gen
  BY DEF JobSane, Had, Sane
<1>3. JobSane(j)'
  BY <1>1, <1>2, GrowsKeeps DEF JobSane, Grows
<1>4. j.state.gen = at[j.path] => j.state.gen = j.gen
  BY <1>1, <1>2 DEF Had, Paths, Gens
<1>5. j.state.gen = at'[j.path] => j.state.gen = at[j.path]
  BY <1>1, <1>2 DEF Grows
<1>6. ASSUME j.state.gen = at'[j.path] PROVE Behind(j.state)' = Behind(j.state)
  <2>1. j.state.lastOffset <= 2 * Len(content[j.state.gen]) /\ j.state.lastOffset \in Int
    BY <1>1, <1>2, <1>5, <1>6 DEF Sane, JobSane, FileStates, Cells
  <2>2. \A g \in Gens : /\ DOMAIN content[g] = 1..Len(content[g])
                        /\ DOMAIN content'[g] = 1..Len(content'[g])
                        /\ Len(content[g]) \in Nat /\ Len(content'[g]) \in Nat
    BY DEF TypeOK
  <2>3. Len(content[j.state.gen]) <= Len(content'[j.state.gen])
    BY <1>2 DEF Grows
  <2>4. j.state.gen \in Gens
    BY <1>2
  <2>5. \A k \in 1..Len(content'[j.state.gen]) :
          2 * k <= j.state.lastOffset => k \in 1..Len(content[j.state.gen])
    BY <2>1, <2>2, <2>4
  <2>6. \A k \in 1..Len(content[j.state.gen]) : k \in 1..Len(content'[j.state.gen])
    BY <2>2, <2>3, <2>4
  <2> QED BY <2>2, <2>4, <2>5, <2>6 DEF Behind
<1> QED BY <1>3, <1>4, <1>5, <1>6

LEMMA GrowsJob ==
  ASSUME TypeOK, TypeOK', Grows, JobInv, job' = job, pc' = pc, st' = st
  PROVE  JobInv'
<1>1. job \in Jobs
  BY DEF TypeOK
<1>2. \A k \in Behind(job.state) :
        job.state.gen \in Gens =>
          /\ content'[job.state.gen][k] = content[job.state.gen][k]
          /\ AwaitsFill(job.state, k) <=> AwaitsFill(job.state, k)'
          /\ Accounted(job.path, job.state, k) => Accounted(job.path, job.state, k)'
          /\ InDatabase(job.path, job.gen, k) => InDatabase(job.path, job.gen, k)'
  <2> SUFFICES ASSUME NEW k \in Behind(job.state), job.state.gen \in Gens
               PROVE  /\ content'[job.state.gen][k] = content[job.state.gen][k]
                      /\ AwaitsFill(job.state, k) <=> AwaitsFill(job.state, k)'
                      /\ Accounted(job.path, job.state, k) => Accounted(job.path, job.state, k)'
                      /\ InDatabase(job.path, job.gen, k) => InDatabase(job.path, job.gen, k)'
    OBVIOUS
  <2>1. content'[job.state.gen][k] = content[job.state.gen][k]
    BY DEF Behind, Grows
  <2>2. AwaitsFill(job.state, k) <=> AwaitsFill(job.state, k)'
    BY <2>1 DEF AwaitsFill
  <2>3. Skipped(job.state, k) <=> Skipped(job.state, k)'
    BY <2>1 DEF Skipped
  <2>4. \A g : InDatabase(job.path, g, k) => InDatabase(job.path, g, k)'
    BY DEF InDatabase, Stored, Grows
  <2> QED BY <2>1, <2>2, <2>3, <2>4 DEF Accounted
<1>3. JobSane(job) =>
        /\ JobSane(job)'
        /\ job.state.gen \in Gens
        /\ job.state.gen = at'[job.path] =>
             /\ job.state.gen = at[job.path] /\ job.state.gen = job.gen
             /\ Behind(job.state)' = Behind(job.state)
  BY <1>1, GrowsJobSane DEF JobSane, Sane, Had
<1>4. \A k : InBatch(job, k) <=> InBatch(job, k)'
  BY DEF InBatch
<1>5. CASE pc = "locate"
  BY <1>3, <1>5 DEF JobInv, LocateInv
<1>6. CASE pc = "read"
  BY <1>2, <1>3, <1>4, <1>6 DEF JobInv, ReadInv
<1>7. CASE pc = "fillRead"
  BY <1>2, <1>3, <1>4, <1>7 DEF JobInv, FillInv
<1> QED BY <1>5, <1>6, <1>7 DEF JobInv

(* The steps of the environment lose nothing.                               *)
LEMMA EnvironmentGrows ==
  ASSUME TypeOK, TypeOK', Environment, Benign, FilesInv
  PROVE  Grows /\ FilesInv'
<1>1. CASE WriteLine
  <2>1. at[Live] \in Gens
    BY DEF TypeOK, Gens, Paths
  <2>2. PICK ts \in (cutoff + 1)..MaxTs :
          content' = [content EXCEPT ![at[Live]] = Append(@, ts)]
    BY <1>1 DEF WriteLine
  <2>3. ASSUME NEW g \in Gens
        PROVE  /\ Len(content[g]) <= Len(content'[g])
               /\ \A k \in DOMAIN content[g] : content'[g][k] = content[g][k]
    <3>1. content[g] \in Seq(0..MaxTs) /\ ts \in 0..MaxTs
      BY DEF TypeOK
    <3>2. CASE g = at[Live]
      <4>1. content'[g] = Append(content[g], ts)
        BY <2>1, <2>2, <3>2 DEF TypeOK
      <4> QED BY <3>1, <4>1
    <3>3. CASE g # at[Live]
      <4>1. content'[g] = content[g]
        BY <2>1, <2>2, <3>3 DEF TypeOK
      <4> QED BY <3>1, <4>1
    <3> QED BY <3>2, <3>3
  <2>4. at' = at /\ rows' = rows /\ dropped' = dropped
    BY <1>1 DEF WriteLine
  <2>5. FilesInv'
    BY <1>1, <2>1 DEF WriteLine, FilesInv, TypeOK
  <2> QED BY <2>3, <2>4, <2>5 DEF Grows, Had
<1>2. CASE WritePart
  BY <1>2 DEF WritePart, Benign
<1>3. CASE Rotate
  <2>1. at[Live] \in Gens /\ at[Rotated] \in 0..MaxGen /\ Paths = {Live, Rotated}
    BY DEF TypeOK, Gens, Paths
  <2>2. at'[Live] = at[Live] + 1 /\ at'[Rotated] = at[Live]
    BY <1>3 DEF Rotate, TypeOK, Paths
  <2>3. \A p \in Paths, g \in Gens :
          Had(p, g) => Had(p, g)' /\ (g = at'[p] => g = at[p])
    BY <2>1, <2>2 DEF Had, Gens
  <2>4. content' = content /\ torn' = torn /\ rows' = rows /\ dropped' = dropped
    BY <1>3 DEF Rotate
  <2>5. FilesInv'
    BY <2>1, <2>2, <2>4 DEF FilesInv, Gens
  <2> QED BY <2>3, <2>4, <2>5 DEF Grows, TypeOK
<1>4. CASE Remove
  <2>1. at[Live] \in Gens /\ at[Rotated] \in 0..MaxGen /\ Paths = {Live, Rotated}
    BY DEF TypeOK, Gens, Paths
  <2>2. at'[Live] = at[Live] /\ at'[Rotated] = 0
    BY <1>4 DEF Remove, TypeOK, Paths
  <2>3. \A p \in Paths, g \in Gens :
          Had(p, g) => Had(p, g)' /\ (g = at'[p] => g = at[p])
    BY <2>1, <2>2 DEF Had, Gens
  <2>4. content' = content /\ torn' = torn /\ rows' = rows /\ dropped' = dropped
    BY <1>4 DEF Remove
  <2>5. FilesInv'
    BY <2>1, <2>2, <2>4 DEF FilesInv, Gens
  <2> QED BY <2>3, <2>4, <2>5 DEF Grows, TypeOK
<1>5. CASE Tick
  BY <1>5 DEF Tick, Grows, FilesInv, TypeOK, Had
<1> QED BY <1>1, <1>2, <1>3, <1>4, <1>5 DEF Environment

----------------------------------------------------------------------------
(* STEPS THAT SET A STATE                                                   *)

\* The state of a path may be set by the step and is sound after it.
Sound(p) == Sane(p, st[p]) /\ AllAccounted(p, st[p])

(* A step that loses nothing, keeps or sets soundly each state, and saves    *)
(* states only as they were, keeps the invariant of the states.             *)
LEMMA StatesStep ==
  ASSUME TypeOK, TypeOK', Grows, StatesInv, pc # "cleared",
         \A p \in Paths : st'[p] = st[p] \/ Sound(p)',
         \A p \in Paths : disk'[p] = disk[p] \/ disk'[p] = st[p]
  PROVE  StatesInv'
<1> SUFFICES ASSUME NEW p \in Paths
             PROVE  /\ Sane(p, st[p])' /\ Sane(p, disk[p])'
                    /\ AllAccounted(p, st[p])' /\ AllAccounted(p, disk[p])'
  BY DEF StatesInv
<1>1. st[p] \in FileStates /\ disk[p] \in FileStates
  BY DEF TypeOK
<1>2. \A s \in FileStates :
        Sane(p, s) /\ AllAccounted(p, s) => Sane(p, s)' /\ AllAccounted(p, s)'
  BY GrowsKeeps
<1>3. /\ Sane(p, st[p]) /\ Sane(p, disk[p])
      /\ AllAccounted(p, st[p]) /\ AllAccounted(p, disk[p])
  BY DEF StatesInv
<1>4. st'[p] = st[p] => Sane(p, st[p])' /\ AllAccounted(p, st[p])'
  BY <1>1, <1>2, <1>3
<1>5. Sound(p)' => Sane(p, st[p])' /\ AllAccounted(p, st[p])'
  BY DEF Sound
<1>6. disk'[p] = disk[p] => Sane(p, disk[p])' /\ AllAccounted(p, disk[p])'
  BY <1>1, <1>2, <1>3
<1>7. disk'[p] = st[p] => Sane(p, disk[p])' /\ AllAccounted(p, disk[p])'
  BY <1>1, <1>2, <1>3
<1> QED BY <1>4, <1>5, <1>6, <1>7

(* What an insert takes is in the database, or in the history of failures.  *)
LEMMA InsertKeeps ==
  ASSUME NEW b, NEW left, Insert(b, left)
  PROVE  /\ rows \subseteq rows' /\ dropped \subseteq dropped'
         /\ \A p, g, k : (\E r \in b : LineOf(r) = <<p, g, k>>) => InDatabase(p, g, k)'
         /\ \A p, g, k : InDatabase(p, g, k) => InDatabase(p, g, k)'
         /\ left \subseteq dropped'
  BY DEF Insert, InDatabase, Stored, LineOf

(* A step that leaves the files alone and inserts loses nothing.            *)
LEMMA QuietGrows ==
  ASSUME TypeOK, content' = content, at' = at,
         rows \subseteq rows', dropped \subseteq dropped'
  PROVE  Grows
  BY DEF Grows, TypeOK, Had

(* Dropping a state is sound.                                               *)
LEMMA NoStateSound ==
  ASSUME NEW p \in Paths, st'[p] = NoState PROVE Sound(p)'
<1>1. Even(0)
  BY DEF Even
<1> QED BY <1>1 DEF Sound, Sane, AllAccounted, NoState

----------------------------------------------------------------------------
(* THE STEPS OF A SCAN                                                      *)

(* What Stat finds is between lines and not beyond the file.                *)
LEMMA WholeSize ==
  ASSUME TypeOK, FilesInv, NEW g \in Gens
  PROVE  Size(g) = 2 * Len(content[g]) /\ Even(Size(g))
<1>0. Len(content[g]) \in Nat /\ ~torn[g]
  BY DEF TypeOK, FilesInv
<1>1. Size(g) = 2 * Len(content[g])
  BY <1>0 DEF Size
<1>2. Len(content[g]) \in 0..(2 * Len(content[g]))
  BY <1>0
<1> QED BY <1>1, <1>2 DEF Even

(* The first line read at an offset between lines is the one behind it.     *)
LEMMA FirstLineEven ==
  ASSUME NEW c \in Cells, Even(c)
  PROVE  /\ FirstLine(c) \in Int /\ 2 * (FirstLine(c) - 1) = c
         /\ \A k \in Int : k < FirstLine(c) <=> 2 * k <= c
<1>1. PICK n \in 0..c : c = 2 * n
  BY DEF Even
<1>2. c \in Int /\ FirstLine(c) = n + 1
  BY <1>1 DEF FirstLine, Cells
<1> QED BY <1>1, <1>2

(* The file a path has now is one it has.                                   *)
LEMMA HasNow ==
  ASSUME TypeOK, FilesInv, NEW p \in Paths, at[p] # 0
  PROVE  at[p] \in Gens /\ Had(p, at[p]) /\ \A g : Had(p, g) => g <= at[p]
  BY DEF TypeOK, FilesInv, Paths, Gens, Had

LEMMA StatKeeps ==
  ASSUME IndInv, TypeOK', NEW p \in Paths, StatFile(p)
  PROVE  IndInv'
<1> USE DEF IndInv
<1>1. /\ pc = "scan" /\ at[p] # 0 /\ content' = content /\ at' = at /\ torn' = torn
      /\ rows' = rows /\ dropped' = dropped /\ disk' = disk
  BY DEF StatFile, fileVars
<1>2. Grows
  BY <1>1, QuietGrows
<1>3. \A q \in Paths : st'[q] = st[q] \/ Sound(q)'
  <2> SUFFICES ASSUME NEW q \in Paths PROVE st'[q] = st[q] \/ Sound(q)'
    OBVIOUS
  <2>1. st'[q] = st[q] \/ st'[q] = NoState
    BY DEF StatFile, TypeOK
  <2> QED BY <2>1, NoStateSound
<1>4. StatesInv'
  BY <1>1, <1>2, <1>3, StatesStep
<1>5. at[p] \in Gens /\ Had(p, at[p]) /\ \A g : Had(p, g) => g <= at[p]
  BY <1>1, HasNow
<1>6. Size(at[p]) = 2 * Len(content[at[p]]) /\ Even(Size(at[p])) /\ Size(at[p]) \in Cells
  BY <1>5, WholeSize, SizeType
<1>7. CASE pc' = "locate"
  <2>1. job' = [path |-> p, gen |-> at[p], base |-> LineAt(0), next |-> FirstLine(0),
                window |-> "recent", batch |-> {}, state |-> FirstState(p)]
    BY <1>1, <1>7 DEF StatFile, Open
  <2>2. Even(0)
    BY DEF Even
  <2>3. Sane(p, FirstState(p))
    BY <1>5, <1>6, <2>2 DEF Sane, FirstState
  <2>4. at[p] <= at[p]
    BY <1>5 DEF Gens
  <2>5. LocateInv(job')
    BY <1>5, <2>1, <2>3, <2>4 DEF LocateInv, JobSane, FirstState
  <2>6. LocateInv(job)'
    BY <1>1, <2>5 DEF LocateInv, JobSane, Sane, Had
  <2> QED BY <1>1, <1>4, <1>7, <2>6 DEF JobInv, FilesInv, ClearedInv, TodoInv
<1>8. CASE pc' = "read"
  <2> DEFINE s == [st[p] EXCEPT !.lastOffset = Size(at[p]), !.lastSize = Size(at[p])]
  <2>1. /\ st[p].known
        /\ job' = [path |-> p, gen |-> at[p], base |-> LineAt(st[p].lastOffset),
                   next |-> FirstLine(st[p].lastOffset), window |-> "all",
                   batch |-> {}, state |-> s]
    BY <1>1, <1>8 DEF StatFile, Open
  <2>2. st[p] \in FileStates /\ Sane(p, st[p]) /\ AllAccounted(p, st[p])
    BY <1>1 DEF StatesInv, TypeOK
  <2>3. /\ s.known /\ s.gen = st[p].gen /\ s.fillOffset = st[p].fillOffset
        /\ s.fillEnd = st[p].fillEnd /\ s.fillDone = st[p].fillDone
        /\ s.cutoff = st[p].cutoff /\ s.recent = st[p].recent
        /\ s.lastOffset = Size(at[p])
    BY <2>1, <2>2 DEF FileStates
  <2> HIDE DEF s
  <2>4. Had(p, s.gen) /\ s.gen <= at[p]
    BY <1>5, <2>1, <2>2, <2>3 DEF Sane
  <2>5. Sane(p, s)
    BY <1>6, <2>2, <2>3, <2>4 DEF Sane
  <2>6. JobSane(job')
    BY <1>5, <2>1, <2>3, <2>4, <2>5 DEF JobSane
  <2>7. ASSUME s.gen = at[p], NEW k \in Behind(s), k < FirstLine(st[p].lastOffset)
        PROVE  Accounted(p, s, k)
    <3>1. k \in DOMAIN content[st[p].gen] /\ k \in Int
      BY <1>5, <2>3, <2>7 DEF Behind, TypeOK
    <3>2. 2 * k <= st[p].lastOffset
      BY <2>2, <2>7, <3>1, FirstLineEven DEF Sane, FileStates
    <3>3. Accounted(p, st[p], k)
      BY <2>1, <2>2, <2>3, <2>7, <3>1, <3>2 DEF AllAccounted, Behind
    <3> QED BY <2>3, <3>3 DEF Accounted, AwaitsFill, Skipped
  <2>8. ReadInv(job')
    BY <2>1, <2>6, <2>7 DEF ReadInv
  <2>9. ReadInv(job)'
    BY <1>1, <2>8 DEF ReadInv, JobSane, Sane, Had, Behind, Accounted, InDatabase,
                      Stored, AwaitsFill, Skipped, InBatch
  <2> QED BY <1>1, <1>4, <1>8, <2>9 DEF JobInv, FilesInv, ClearedInv, TodoInv
<1>9. CASE pc' = "scan"
  BY <1>1, <1>4, <1>9 DEF JobInv, FilesInv, ClearedInv, TodoInv
<1> QED BY <1>1, <1>7, <1>8, <1>9 DEF StatFile

(* A first scan leaves the old lines in front of the offset to the backfill. *)
LEMMA FirstScanKeeps ==
  ASSUME IndInv, TypeOK', pc = "locate", NEW from \in Cells, NEW s \in FileStates,
         FirstScan(from, s),
         UNCHANGED <<fileVars, rows, disk, dropped, faults>>,
         Sane(job.path, s), s.known, s.gen = job.gen, s.lastSize = s.lastOffset,
         s.gen = at[job.path] =>
           \A k \in Behind(s) :
             /\ k < FirstLine(from) \/ 2 * k <= from => Accounted(job.path, s, k)
             /\ k >= FirstLine(from) => \/ content[job.gen][k] >= s.cutoff
                                        \/ AwaitsFill(s, k)
  PROVE  IndInv'
<1> USE DEF IndInv, fileVars
<1>1. Grows
  BY QuietGrows
<1>2. job \in Jobs /\ job.path \in Paths /\ LocateInv(job)
  BY DEF TypeOK, Jobs, JobInv
<1>3. from \in Int /\ s.lastSize \in Int
  BY DEF FileStates, Cells
<1>4. CASE from < s.lastSize
  <2>1. /\ job' = [job EXCEPT !.state = s, !.base = LineAt(from), !.next = FirstLine(from)]
        /\ pc' = "read" /\ st' = st /\ todo' = todo
    BY <1>3, <1>4 DEF FirstScan
  <2>2. StatesInv'
    BY <1>1, <2>1, GrowsStates
  <2>3. /\ job'.path = job.path /\ job'.gen = job.gen /\ job'.window = "recent"
        /\ job'.state = s /\ job'.next = FirstLine(from)
    BY <1>2, <2>1 DEF Jobs, LocateInv
  <2>4. JobSane(job')
    BY <1>2, <2>3 DEF JobSane, LocateInv
  <2>5. ReadInv(job')
    BY <2>3, <2>4 DEF ReadInv
  <2>6. ReadInv(job)'
    BY <2>5 DEF ReadInv, JobSane, Sane, Had, Behind, Accounted, InDatabase,
                Stored, AwaitsFill, Skipped, InBatch
  <2> QED BY <2>1, <2>2, <2>6 DEF JobInv, FilesInv, ClearedInv, TodoInv
<1>5. CASE from >= s.lastSize
  <2>1. st' = [st EXCEPT ![job.path] = s] /\ pc' = "scan"
    BY <1>3, <1>5 DEF FirstScan
  <2>2. AllAccounted(job.path, s)
    <3> SUFFICES ASSUME s.gen = at[job.path], NEW k \in Behind(s)
                 PROVE  Accounted(job.path, s, k)
      BY DEF AllAccounted
    <3>1. s.gen \in Gens
      BY DEF Sane, Had
    <3>2. k \in Int
      BY <3>1 DEF Behind, TypeOK
    <3>3. 2 * k <= from
      BY <1>3, <1>5, <3>2 DEF Behind
    <3> QED BY <3>3
  <2>3. \A q \in Paths : st'[q] = st[q] \/ Sound(q)'
    <3> SUFFICES ASSUME NEW q \in Paths PROVE st'[q] = st[q] \/ Sound(q)'
      OBVIOUS
    <3>1. CASE q # job.path
      BY <2>1, <3>1 DEF TypeOK
    <3>2. CASE q = job.path
      <4>1. st'[q] = s
        BY <2>1, <3>2 DEF TypeOK
      <4>2. Sane(q, s)' /\ AllAccounted(q, s)'
        BY <1>1, <2>2, <3>2, GrowsKeeps
      <4> QED BY <4>1, <4>2 DEF Sound
    <3> QED BY <3>1, <3>2
  <2>4. StatesInv'
    BY <1>1, <2>1, <2>3, StatesStep
  <2> QED BY <2>1, <2>4 DEF JobInv, FilesInv, ClearedInv, TodoInv
<1> QED BY <1>3, <1>4, <1>5

LEMMA LocateKeeps ==
  ASSUME IndInv, TypeOK', LocateRecent \/ LocateFails
  PROVE  IndInv'
<1> USE DEF IndInv
<1>1. /\ pc = "locate" /\ LocateInv(job) /\ job.state \in FileStates
      /\ job.gen \in Gens /\ job.path \in Paths
  BY DEF LocateRecent, LocateFails, JobInv, TypeOK, Jobs
<1>2. job.state.known /\ Sane(job.path, job.state)
  BY <1>1 DEF LocateInv, JobSane
<1>3. \A k \in Behind(job.state) :
        k \in Int /\ k > 0 /\ k \in DOMAIN content[job.gen] /\ content[job.gen][k] \in Int
  <2>1. content[job.gen] \in Seq(0..MaxTs) /\ job.state.gen = job.gen
    BY <1>1 DEF LocateInv, TypeOK
  <2> QED BY <2>1 DEF Behind
<1>4. Even(0) /\ 0 \in Cells
  BY DEF Even, Cells
<1>5. job.state.lastOffset \in Int /\ job.state.cutoff \in Int
  BY <1>1 DEF FileStates, Cells
<1>6. CASE LocateRecent
  <2>1. PICK n \in 0..Len(content[job.gen]) :
          /\ EndsHistory(job.gen, job.state.cutoff, n)
          /\ FirstScan(2 * n, [job.state EXCEPT !.recent = 2 * n, !.fillEnd = 2 * n,
                                                !.fillDone = (n = 0)])
    BY <1>6 DEF LocateRecent
  <2> DEFINE s == [job.state EXCEPT !.recent = 2 * n, !.fillEnd = 2 * n,
                                    !.fillDone = (n = 0)]
  <2>2. 2 * n \in Cells /\ n \in Int /\ n \in 0..(2 * n)
    BY <1>1, SizeType DEF Cells
  <2>3. /\ s \in FileStates /\ s.known = job.state.known /\ s.gen = job.state.gen
        /\ s.lastOffset = job.state.lastOffset /\ s.lastSize = job.state.lastSize
        /\ s.cutoff = job.state.cutoff
    BY <1>1, <2>2 DEF FileStates
  <2>4. /\ s.recent = 2 * n /\ s.fillEnd = 2 * n /\ s.fillDone = (n = 0)
        /\ s.fillOffset = 0
    BY <1>1, <2>2 DEF FileStates, LocateInv
  <2>5. FirstScan(2 * n, s)
    BY <2>1
  <2> HIDE DEF s
  <2>6. Sane(job.path, s) /\ s.known /\ s.gen = job.gen /\ s.lastSize = s.lastOffset
        /\ Behind(s) = Behind(job.state)
    BY <1>1, <1>2, <1>4, <2>3, <2>4 DEF Sane, LocateInv, Behind
  <2>7. FirstLine(2 * n) \in Int /\ \A k \in Int : k < FirstLine(2 * n) <=> 2 * k <= 2 * n
    <3>1. Even(2 * n)
      BY <2>2 DEF Even
    <3> QED BY <2>2, <3>1, FirstLineEven
  <2>8. ASSUME NEW k \in Behind(s)
        PROVE  /\ k < FirstLine(2 * n) \/ 2 * k <= 2 * n => Accounted(job.path, s, k)
               /\ k >= FirstLine(2 * n) => content[job.gen][k] >= s.cutoff
    <3>1. k \in Int /\ k > 0 /\ k \in DOMAIN content[job.gen] /\ content[job.gen][k] \in Int
      BY <1>3, <2>6
    <3>2. ASSUME 2 * k <= 2 * n PROVE Accounted(job.path, s, k)
      <4>1. n # 0
        BY <2>2, <3>1, <3>2
      <4>2. CASE content[s.gen][k] < s.cutoff
        <5>1. ~s.fillDone
          BY <2>4, <4>1
        <5>2. s.fillOffset < 2 * k /\ 2 * k <= s.fillEnd
          BY <2>4, <3>1, <3>2
        <5> QED BY <4>2, <5>1, <5>2 DEF Accounted, AwaitsFill
      <4>3. CASE content[s.gen][k] >= s.cutoff
        BY <2>4, <3>2, <4>3 DEF Accounted, Skipped
      <4> QED BY <1>5, <2>3, <2>6, <3>1, <4>2, <4>3
    <3>3. ASSUME k > n PROVE content[job.gen][k] >= s.cutoff
      <4>1. content[job.gen][k] > job.state.cutoff
        BY <2>1, <3>1, <3>3 DEF EndsHistory
      <4> QED BY <1>5, <2>3, <3>1, <4>1
    <3>4. k < FirstLine(2 * n) <=> 2 * k <= 2 * n
      BY <2>7, <3>1
    <3>5. k < FirstLine(2 * n) \/ 2 * k <= 2 * n => Accounted(job.path, s, k)
      BY <3>2, <3>4
    <3>6. ASSUME k >= FirstLine(2 * n) PROVE content[job.gen][k] >= s.cutoff
      <4>1. k > n
        BY <2>2, <2>7, <3>1, <3>4, <3>6
      <4> QED BY <3>3, <4>1
    <3> QED BY <3>5, <3>6
  <2>9. UNCHANGED <<fileVars, rows, disk, dropped, faults>>
    BY <1>6 DEF LocateRecent
  <2> QED BY <1>1, <2>2, <2>3, <2>5, <2>6, <2>8, <2>9, FirstScanKeeps
<1>7. CASE LocateFails
  <2> DEFINE s == [job.state EXCEPT !.fillEnd = job.state.lastSize]
  <2>1. FirstScan(0, s) /\ UNCHANGED <<fileVars, rows, disk, dropped, faults>>
    BY <1>7 DEF LocateFails
  <2>2. /\ s \in FileStates /\ s.known = job.state.known /\ s.gen = job.state.gen
        /\ s.lastOffset = job.state.lastOffset /\ s.lastSize = job.state.lastSize
        /\ s.cutoff = job.state.cutoff
    BY <1>1 DEF FileStates
  <2>3. s.fillEnd = job.state.lastOffset /\ ~s.fillDone /\ s.fillOffset = 0
    BY <1>1 DEF FileStates, LocateInv
  <2> HIDE DEF s
  <2>4. Sane(job.path, s) /\ s.known /\ s.gen = job.gen /\ s.lastSize = s.lastOffset
        /\ Behind(s) = Behind(job.state)
    BY <1>1, <1>2, <1>4, <2>2, <2>3 DEF Sane, LocateInv, Behind
  <2>5. \A k \in Int : k < FirstLine(0) <=> 2 * k <= 0
    BY <1>4, FirstLineEven
  <2>6. ASSUME NEW k \in Behind(s)
        PROVE  /\ ~(k < FirstLine(0) \/ 2 * k <= 0)
               /\ content[job.gen][k] >= s.cutoff \/ AwaitsFill(s, k)
    <3>1. k \in Int /\ k > 0 /\ content[job.gen][k] \in Int
      BY <1>3, <2>4
    <3>2. 2 * k <= s.fillEnd
      BY <2>2, <2>3, <2>4 DEF Behind
    <3>3. ASSUME content[s.gen][k] < s.cutoff PROVE AwaitsFill(s, k)
      <4>1. s.fillOffset < 2 * k
        BY <2>3, <3>1
      <4> QED BY <2>3, <3>2, <3>3, <4>1 DEF AwaitsFill
    <3> QED BY <1>5, <2>2, <2>4, <2>5, <3>1, <3>3
  <2> QED BY <1>1, <1>4, <2>1, <2>2, <2>4, <2>6, FirstScanKeeps
<1> QED BY <1>6, <1>7

----------------------------------------------------------------------------
(* READING LINES                                                            *)

(* The row of the next line is the one of this line.                        *)
LEMMA NextRowLine == LineOf(NextRow) = <<job.path, job.gen, job.next>>
  BY DEF LineOf, NextRow

(* A line that was taken is in the batch or was inserted with it; the one    *)
(* taken now too, if its window allows it.                                  *)
LEMMA TakeKeeps ==
  ASSUME TypeOK, TakeLine
  PROVE  /\ job'.path = job.path /\ job'.gen = job.gen /\ job'.window = job.window
         /\ job'.state = job.state /\ job'.next = job.next + 1
         /\ rows \subseteq rows' /\ dropped \subseteq dropped'
         /\ \A k : InBatch(job, k) \/ (k = job.next /\
                      Allows(job.window, content[job.gen][k], job.state.cutoff))
                   => InBatch(job', k) \/ InDatabase(job.path, job.gen, k)'
<1>1. job \in Jobs
  BY DEF TypeOK
<1>2. \/ Insert(Extended, {}) /\ job' = [job EXCEPT !.next = @ + 1, !.batch = {}]
      \/ /\ job' = [job EXCEPT !.next = @ + 1, !.batch = Extended]
         /\ rows' = rows /\ dropped' = dropped
  BY DEF TakeLine
<1>3. /\ job'.path = job.path /\ job'.gen = job.gen /\ job'.window = job.window
      /\ job'.state = job.state /\ job'.next = job.next + 1
  BY <1>1, <1>2 DEF Jobs
<1>4. rows \subseteq rows' /\ dropped \subseteq dropped'
  BY <1>2, InsertKeeps
<1>5. ASSUME NEW k, InBatch(job, k) \/ (k = job.next /\
                      Allows(job.window, content[job.gen][k], job.state.cutoff))
      PROVE  InBatch(job', k) \/ InDatabase(job.path, job.gen, k)'
  <2>1. \E r \in Extended : LineOf(r) = <<job.path, job.gen, k>>
    BY <1>5, NextRowLine DEF Extended, InBatch
  <2>2. CASE Insert(Extended, {})
    BY <1>3, <2>1, <2>2, InsertKeeps DEF InDatabase, Stored
  <2>3. CASE job' = [job EXCEPT !.next = @ + 1, !.batch = Extended]
    <3>1. job'.batch = Extended
      BY <1>1, <2>3 DEF Jobs
    <3> QED BY <1>3, <2>1, <3>1 DEF InBatch
  <2> QED BY <1>2, <2>2, <2>3
<1> QED BY <1>3, <1>4, <1>5

LEMMA ReadKeeps ==
  ASSUME IndInv, TypeOK', ReadLine
  PROVE  IndInv'
<1> USE DEF IndInv
<1>1. /\ pc = "read" /\ pc' = pc /\ st' = st /\ disk' = disk /\ todo' = todo
      /\ content' = content /\ at' = at /\ torn' = torn /\ TakeLine
  BY DEF ReadLine, fileVars
<1>2. job \in Jobs /\ job.path \in Paths /\ job.gen \in Gens /\ job.next \in Int
      /\ ReadInv(job) /\ JobSane(job)
  BY <1>1 DEF TypeOK, Jobs, JobInv, ReadInv
<1>3. Grows
  BY <1>1, TakeKeeps, QuietGrows
<1>4. StatesInv'
  BY <1>1, <1>3, GrowsStates
<1>5. /\ job'.path = job.path /\ job'.gen = job.gen /\ job'.window = job.window
      /\ job'.state = job.state /\ job'.next = job.next + 1
  BY <1>1, TakeKeeps
<1>6. JobSane(job)'
  BY <1>1, <1>2, <1>5 DEF JobSane, Sane, Had
<1>7. ASSUME job.state.gen = at[job.path], NEW k \in Behind(job.state)
      PROVE  /\ k < job.next + 1 => Accounted(job.path, job.state, k)' \/ InBatch(job', k)
             /\ k >= job.next + 1 => \/ job.window = "all"
                                     \/ content[job.gen][k] >= job.state.cutoff
                                     \/ AwaitsFill(job.state, k)
  <2>1. job.state.gen = job.gen
    BY <1>2, <1>3, <1>7, GrowsJobSane
  <2>2. k \in Int
    BY <1>2, <2>1 DEF Behind, TypeOK
  <2>3. Accounted(job.path, job.state, k) => Accounted(job.path, job.state, k)'
    BY <1>1, <1>3, <1>5 DEF Grows, Accounted, InDatabase, Stored, AwaitsFill, Skipped
  <2>4. InDatabase(job.path, job.gen, k)' => Accounted(job.path, job.state, k)'
    BY <1>5, <2>1 DEF Accounted, InDatabase, Stored
  <2>5. CASE k < job.next
    BY <1>1, <1>2, <1>7, <2>2, <2>3, <2>4, <2>5, TakeKeeps DEF ReadInv
  <2>6. CASE k = job.next
    <3>1. \/ job.window = "all"
          \/ job.window = "recent" /\ content[job.gen][k] >= job.state.cutoff
          \/ AwaitsFill(job.state, k)
      BY <1>2, <1>7, <2>2, <2>6 DEF ReadInv
    <3>2. CASE AwaitsFill(job.state, k)
      BY <1>2, <2>3, <2>6, <3>2 DEF Accounted
    <3>3. CASE Allows(job.window, content[job.gen][k], job.state.cutoff)
      BY <1>1, <1>2, <2>4, <2>6, <3>3, TakeKeeps
    <3> QED BY <3>1, <3>2, <3>3 DEF Allows
  <2>7. CASE k > job.next
    BY <1>2, <1>7, <2>2, <2>7 DEF ReadInv
  <2> QED BY <1>2, <2>2, <2>5, <2>6, <2>7
<1>8. ReadInv(job)'
  <2>1. \A k : InBatch(job', k) <=> InBatch(job, k)'
    BY DEF InBatch
  <2>2. Behind(job.state)' = Behind(job.state)
    BY <1>1, <1>5 DEF Behind
  <2>3. \A k : AwaitsFill(job.state, k) => AwaitsFill(job.state, k)'
    BY <1>1, <1>5 DEF AwaitsFill
  <2>4. job'.window \in {"all", "recent"}
    BY <1>2, <1>5 DEF ReadInv
  <2>5. ASSUME job'.state.gen = at'[job'.path], NEW k \in Behind(job.state)'
        PROVE  /\ k < job'.next => Accounted(job.path, job.state, k)' \/ InBatch(job, k)'
               /\ k >= job'.next => \/ job'.window = "all"
                                   \/ content'[job'.gen][k] >= job'.state.cutoff
                                   \/ AwaitsFill(job.state, k)'
    <3>1. job.state.gen = at[job.path] /\ k \in Behind(job.state)
      BY <1>1, <1>5, <2>2, <2>5
    <3>2. k < job.next + 1 => Accounted(job.path, job.state, k)' \/ InBatch(job, k)'
      BY <1>7, <2>1, <3>1
    <3>3. k >= job.next + 1 => \/ job.window = "all"
                              \/ content[job.gen][k] >= job.state.cutoff
                              \/ AwaitsFill(job.state, k)
      BY <1>7, <3>1
    <3> QED BY <1>1, <1>5, <2>3, <3>2, <3>3
  <2> QED BY <1>6, <2>4, <2>5 DEF ReadInv
<1> QED BY <1>1, <1>4, <1>8 DEF JobInv, FilesInv, ClearedInv, TodoInv

(* A state set at the end of a file: with it the other states stay sound.    *)
LEMMA SetKeeps ==
  ASSUME IndInv, TypeOK', Grows, pc # "cleared", disk' = disk,
         NEW p \in Paths, NEW s \in FileStates, st' = [st EXCEPT ![p] = s],
         Sane(p, s)', AllAccounted(p, s)'
  PROVE  StatesInv'
<1>1. \A q \in Paths : st'[q] = st[q] \/ Sound(q)'
  <2> SUFFICES ASSUME NEW q \in Paths PROVE st'[q] = st[q] \/ Sound(q)'
    OBVIOUS
  <2>1. CASE q # p
    BY <2>1 DEF IndInv, TypeOK
  <2>2. CASE q = p
    <3>1. st'[p] = s
      BY DEF IndInv, TypeOK
    <3> QED BY <2>2, <3>1 DEF Sound
  <2> QED BY <2>1, <2>2
<1> QED BY <1>1, StatesStep DEF IndInv

\* What the batch of a job that has ended becomes.
LEMMA BatchKeeps ==
  ASSUME NEW j, NEW left, Insert(j.batch, left), NEW k, InBatch(j, k)
  PROVE  InDatabase(j.path, j.gen, k)'
  BY InsertKeeps DEF InBatch

LEMMA EndKeeps ==
  ASSUME IndInv, TypeOK', EndFile \/ ScannerStops
  PROVE  IndInv'
<1> USE DEF IndInv
<1>1. PICK j \in Jobs : j = job
  BY DEF TypeOK
<1>0. PICK left : /\ CloseScan(left)
                  /\ j.next > Len(content[j.gen]) \/ left = Unread
  BY <1>1 DEF EndFile, ScannerStops
<1>2. /\ pc = "read" /\ pc' = "scan" /\ disk' = disk
      /\ content' = content /\ at' = at /\ torn' = torn /\ Insert(j.batch, left)
      /\ st' = [st EXCEPT ![j.path] = j.state]
  BY <1>0, <1>1 DEF CloseScan, fileVars
<1>3. j.path \in Paths /\ j.gen \in Gens /\ j.next \in Int
      /\ j.state \in FileStates /\ ReadInv(j) /\ JobSane(j) /\ Sane(j.path, j.state)
  BY <1>1, <1>2 DEF Jobs, JobInv, ReadInv, JobSane
<1>4. Grows
  BY <1>2, InsertKeeps, QuietGrows
<1>5. ASSUME j.state.gen = at[j.path], NEW k \in Behind(j.state)
      PROVE  Accounted(j.path, j.state, k)'
  <2>1. j.state.gen = j.gen
    BY <1>3, <1>4, <1>5, GrowsJobSane
  <2>2. /\ k \in 1..Len(content[j.gen]) /\ Len(content[j.gen]) \in Nat /\ k \in Int
        /\ 2 * k <= j.state.lastOffset
    <3>1. content[j.gen] \in Seq(0..MaxTs)
      BY <1>3 DEF TypeOK
    <3> QED BY <2>1, <3>1 DEF Behind
  <2>3. k < j.next => Accounted(j.path, j.state, k) \/ InBatch(j, k)
    BY <1>3, <1>5 DEF ReadInv
  <2>4. InBatch(j, k) => InDatabase(j.path, j.gen, k)'
    BY <1>2, BatchKeeps
  <2>5. Accounted(j.path, j.state, k) => Accounted(j.path, j.state, k)'
    BY <1>2, <1>4 DEF Grows, Accounted, InDatabase, Stored, AwaitsFill, Skipped
  <2>6. ASSUME k >= j.next PROVE AwaitsFill(j.state, k) \/ InDatabase(j.path, j.gen, k)'
    <3>1. left = Unread
      BY <1>0, <1>3, <2>2, <2>6
    <3>2. \/ Allows(j.window, content[j.gen][k], j.state.cutoff)
          \/ AwaitsFill(j.state, k)
      BY <1>3, <1>5, <2>6 DEF ReadInv, Allows
    <3>3. ASSUME Allows(j.window, content[j.gen][k], j.state.cutoff)
          PROVE  <<j.path, j.gen, k>> \in left
      BY <1>1, <1>3, <2>2, <2>6, <3>1, <3>3 DEF Unread
    <3>4. left \subseteq dropped'
      BY <1>2, InsertKeeps
    <3> QED BY <3>2, <3>3, <3>4 DEF InDatabase
  <2>7. k < j.next \/ k >= j.next
    BY <1>3, <2>2
  <2>8. AwaitsFill(j.state, k) => Accounted(j.path, j.state, k)
    BY DEF Accounted
  <2> QED BY <2>1, <2>3, <2>4, <2>5, <2>6, <2>7, <2>8 DEF Accounted
<1>6. AllAccounted(j.path, j.state)'
  BY <1>2, <1>5 DEF AllAccounted, Behind
<1>7. Sane(j.path, j.state)'
  BY <1>3, <1>4, GrowsKeeps
<1>8. StatesInv'
  BY <1>2, <1>3, <1>4, <1>6, <1>7, SetKeeps
<1> QED BY <1>2, <1>8 DEF JobInv, FilesInv, ClearedInv, TodoInv

----------------------------------------------------------------------------
(* THE STEPS OF A BACKFILL                                                  *)

LEMMA SkipKeeps ==
  ASSUME IndInv, TypeOK', NEW p \in Paths, SkipFill(p)
  PROVE  IndInv'
<1> USE DEF IndInv
<1>1. /\ pc = "fill" /\ pc' = pc /\ disk' = disk /\ content' = content /\ at' = at
      /\ torn' = torn /\ rows' = rows /\ dropped' = dropped /\ todo' = todo \ {p}
  BY DEF SkipFill, fileVars
<1>2. Grows
  BY <1>1, QuietGrows
<1>3. CASE st' = st
  BY <1>1, <1>2, <1>3, GrowsStates DEF JobInv, FilesInv, ClearedInv, TodoInv
<1>4. CASE /\ st[p].fillEnd <= st[p].fillOffset
           /\ st' = [st EXCEPT ![p].fillDone = TRUE]
  <2>1. PICK s \in FileStates : s = st[p]
    BY DEF TypeOK
  <2>2. PICK t \in FileStates : t = [s EXCEPT !.fillDone = TRUE]
    BY <2>1 DEF FileStates
  <2>3. /\ t.known = s.known /\ t.gen = s.gen /\ t.lastOffset = s.lastOffset
        /\ t.recent = s.recent /\ t.fillOffset = s.fillOffset /\ t.cutoff = s.cutoff
        /\ t.fillEnd = s.fillEnd
    BY <2>2 DEF FileStates
  <2>4. st' = [st EXCEPT ![p] = t]
    BY <1>4, <2>1, <2>2 DEF TypeOK
  <2>5. Sane(p, s) /\ AllAccounted(p, s)
    BY <1>1, <2>1 DEF StatesInv
  <2>6. \A k \in Behind(s) : k \in Int \/ s.gen \notin Gens
    BY DEF Behind, TypeOK
  <2>7. \A k \in Int : ~AwaitsFill(s, k)
    BY <1>4, <2>1 DEF AwaitsFill, FileStates, Cells
  <2>8. Sane(p, t)
    BY <2>3, <2>5 DEF Sane
  <2>9. AllAccounted(p, t)
    BY <2>3, <2>5, <2>6, <2>7 DEF AllAccounted, Accounted, Skipped, Behind, Sane, Had
  <2>10. StatesInv'
    <3>1. Sane(p, t)' /\ AllAccounted(p, t)'
      BY <1>2, <2>8, <2>9, GrowsKeeps
    <3> QED BY <1>1, <1>2, <2>4, <3>1, SetKeeps
  <2>11. \A q \in Paths : st[q].known => st'[q].known
    BY <2>1, <2>3, <2>4 DEF TypeOK
  <2> QED BY <1>1, <2>10, <2>11 DEF JobInv, FilesInv, ClearedInv, TodoInv, TypeOK
<1> QED BY <1>3, <1>4 DEF SkipFill

LEMMA OpenFillKeeps ==
  ASSUME IndInv, TypeOK', NEW p \in Paths, OpenFill(p)
  PROVE  IndInv'
<1> USE DEF IndInv
<1>1. /\ pc = "fill" /\ pc' = "fillRead" /\ disk' = disk /\ st' = st
      /\ content' = content /\ at' = at /\ at[p] # 0 /\ p \in todo
      /\ torn' = torn /\ rows' = rows /\ dropped' = dropped /\ todo' = todo
      /\ st[p].fillEnd > st[p].fillOffset
  BY DEF OpenFill, fileVars
<1>2. Grows
  BY <1>1, QuietGrows
<1>3. StatesInv'
  BY <1>1, <1>2, GrowsStates
<1>4. PICK s \in FileStates : s = st[p]
  BY DEF TypeOK
<1>5. job' = [path |-> p, gen |-> at[p], base |-> LineAt(s.fillOffset),
              next |-> FirstLine(s.fillOffset), window |-> "history",
              batch |-> {}, state |-> s]
  BY <1>4 DEF OpenFill, Open
<1>6. s.known /\ Sane(p, s)
  BY <1>1, <1>4 DEF TodoInv, StatesInv
<1>7. at[p] \in Gens /\ Had(p, at[p]) /\ \A g : Had(p, g) => g <= at[p]
  BY <1>1, HasNow
<1>8. JobSane(job')
  BY <1>5, <1>6, <1>7 DEF JobSane, Sane
<1>9. s.fillOffset \in Cells /\ s.fillOffset \in Int /\ Even(s.fillOffset)
  BY <1>6 DEF FileStates, Sane, Cells
<1>10. /\ FirstLine(s.fillOffset) \in Int
       /\ 2 * (FirstLine(s.fillOffset) - 1) >= s.fillOffset
       /\ \A k \in Int : k < FirstLine(s.fillOffset) <=> 2 * k <= s.fillOffset
  BY <1>9, FirstLineEven
<1>11. \A k \in Behind(s) : ~(AwaitsFill(s, k) /\ k < FirstLine(s.fillOffset))
  <2> SUFFICES ASSUME NEW k \in Behind(s), AwaitsFill(s, k),
                      k < FirstLine(s.fillOffset)
               PROVE  FALSE
    OBVIOUS
  <2>1. s.gen \in Gens
    BY <1>6 DEF Sane, Had
  <2>2. k \in Int
    BY <2>1 DEF Behind, TypeOK
  <2> QED BY <1>9, <1>10, <2>2 DEF AwaitsFill
<1>12. FillInv(job')
  BY <1>4, <1>5, <1>8, <1>10, <1>11 DEF FillInv
<1>13. FillInv(job)'
  BY <1>1, <1>12 DEF FillInv, JobSane, Sane, Had, Behind, InDatabase, Stored,
                     AwaitsFill, InBatch
<1> QED BY <1>1, <1>3, <1>13 DEF JobInv, FilesInv, ClearedInv, TodoInv

LEMMA FillKeeps ==
  ASSUME IndInv, TypeOK', FillLine
  PROVE  IndInv'
<1> USE DEF IndInv
<1>1. /\ pc = "fillRead" /\ pc' = pc /\ st' = st /\ disk' = disk /\ todo' = todo
      /\ content' = content /\ at' = at /\ torn' = torn /\ TakeLine
  BY DEF FillLine, fileVars
<1>2. PICK j \in Jobs : j = job
  BY DEF TypeOK
<1>3. j.path \in Paths /\ j.gen \in Gens /\ j.next \in Int
      /\ FillInv(j) /\ JobSane(j) /\ j.state \in FileStates
  BY <1>1, <1>2 DEF Jobs, JobInv, FillInv
<1>4. Grows
  BY <1>1, TakeKeeps, QuietGrows
<1>5. StatesInv'
  BY <1>1, <1>4, GrowsStates
<1>6. /\ job'.path = j.path /\ job'.gen = j.gen /\ job'.window = j.window
      /\ job'.state = j.state /\ job'.next = j.next + 1
      /\ \A k : InBatch(j, k) \/ (k = j.next /\
                   Allows(j.window, content[j.gen][k], j.state.cutoff))
                => InBatch(job', k) \/ InDatabase(j.path, j.gen, k)'
  <2>1. /\ job'.path = job.path /\ job'.gen = job.gen /\ job'.window = job.window
        /\ job'.state = job.state /\ job'.next = job.next + 1
    BY <1>1, TakeKeeps
  <2>2. \A k : InDatabase(job.path, job.gen, k)' => InDatabase(j.path, j.gen, k)'
    BY <1>2, <2>1 DEF InDatabase, Stored
  <2> QED BY <1>1, <1>2, <2>1, <2>2, TakeKeeps
<1>7. JobSane(job)'
  BY <1>1, <1>3, <1>6 DEF JobSane, Sane, Had
<1>8. ASSUME j.state.gen = at[j.path], NEW k \in Behind(j.state),
             AwaitsFill(j.state, k), k < j.next + 1
      PROVE  InDatabase(j.path, j.gen, k)' \/ InBatch(job', k)
  <2>1. j.state.gen = j.gen
    BY <1>3, <1>4, <1>8, GrowsJobSane
  <2>2. k \in Int
    BY <1>3, <2>1 DEF Behind, TypeOK
  <2>3. CASE k < j.next
    <3>1. InDatabase(j.path, j.gen, k) => InDatabase(j.path, j.gen, k)'
      BY <1>4 DEF InDatabase, Stored, Grows
    <3> QED BY <1>3, <1>6, <1>8, <2>3, <3>1 DEF FillInv
  <2>4. CASE k = j.next
    <3>1. Allows(j.window, content[j.gen][k], j.state.cutoff)
      BY <1>3, <1>8, <2>1 DEF Allows, FillInv, AwaitsFill
    <3> QED BY <1>6, <2>4, <3>1
  <2> QED BY <1>3, <1>8, <2>2, <2>3, <2>4
<1>9. FillInv(job)'
  <2>1. job'.window = "history" /\ job'.state = st'[job'.path]
    BY <1>1, <1>3, <1>6 DEF FillInv
  <2>2. 2 * (job'.next - 1) >= job'.state.fillOffset
    <3>1. j.state.fillOffset \in Int
      BY <1>3 DEF FileStates, Cells
    <3> QED BY <1>3, <1>6, <3>1 DEF FillInv
  <2>3. ASSUME job'.state.gen = at'[job'.path], NEW k \in Behind(job.state)',
               AwaitsFill(job.state, k)', k < job'.next
        PROVE  InDatabase(job.path, job.gen, k)' \/ InBatch(job, k)'
    <3>1. j.state.gen = at[j.path] /\ k \in Behind(j.state) /\ AwaitsFill(j.state, k)
      BY <1>1, <1>6, <2>3 DEF Behind, AwaitsFill
    <3>2. InDatabase(j.path, j.gen, k)' \/ InBatch(job', k)
      BY <1>6, <1>8, <2>3, <3>1
    <3> QED BY <1>6, <3>2 DEF InDatabase, Stored, InBatch
  <2> QED BY <1>7, <2>1, <2>2, <2>3 DEF FillInv
<1> QED BY <1>1, <1>5, <1>9 DEF JobInv, FilesInv, ClearedInv, TodoInv

(* Closing a section: when it is done nothing in it was left unread.         *)
LEMMA CloseKeeps ==
  ASSUME IndInv, TypeOK', NEW done \in BOOLEAN, NEW rest \in SUBSET todo,
         pc = "fillRead", CloseFill(done, rest),
         done => \/ 2 * job.next > job.state.fillEnd
                 \/ job.next > Len(content[job.gen])
  PROVE  IndInv'
<1> USE DEF IndInv
<1>1. PICK j \in Jobs : j = job
  BY DEF TypeOK
<1>2. PICK s \in FileStates : s = j.state
  BY DEF Jobs
<1>3. j.path \in Paths /\ j.gen \in Gens /\ j.next \in Int /\ j.next >= 1
      /\ FillInv(j) /\ JobSane(j) /\ s.known /\ s = st[j.path]
      /\ 2 * (j.next - 1) \in Cells
  BY <1>1, <1>2 DEF Jobs, JobInv, FillInv, JobSane, Cells
<1>4. PICK t \in FileStates :
        t = [s EXCEPT !.fillOffset = 2 * (j.next - 1), !.fillDone = done]
  BY <1>3 DEF FileStates
<1>5. /\ t.known = s.known /\ t.gen = s.gen /\ t.lastOffset = s.lastOffset
      /\ t.recent = s.recent /\ t.cutoff = s.cutoff /\ t.fillEnd = s.fillEnd
      /\ t.fillOffset = 2 * (j.next - 1) /\ t.fillDone = done
  BY <1>4 DEF FileStates
<1>6. /\ pc' = "fill" /\ disk' = disk /\ content' = content /\ at' = at
      /\ torn' = torn /\ Insert(j.batch, {}) /\ todo' = rest
      /\ st' = [st EXCEPT ![j.path] = t]
  BY <1>1, <1>2, <1>4 DEF CloseFill, fileVars
<1>7. Grows
  BY <1>6, InsertKeeps, QuietGrows
<1>8. Sane(j.path, s) /\ AllAccounted(j.path, s)
  BY <1>3 DEF StatesInv
<1>9. Sane(j.path, t)'
  <2>1. Even(2 * (j.next - 1))
    <3>1. j.next - 1 \in 0..(2 * (j.next - 1))
      BY <1>3
    <3> QED BY <3>1 DEF Even
  <2>2. Sane(j.path, t)
    BY <1>5, <1>8, <2>1 DEF Sane
  <2> QED BY <1>3, <1>7, <2>2, GrowsKeeps
<1>10. ASSUME s.gen = at[j.path], NEW k \in Behind(s)
       PROVE  Accounted(j.path, t, k)'
  <2>1. s.gen = j.gen
    BY <1>2, <1>3, <1>7, <1>10, GrowsJobSane
  <2>2. k \in 1..Len(content[j.gen]) /\ Len(content[j.gen]) \in Nat
    <3>1. content[j.gen] \in Seq(0..MaxTs)
      BY <1>3 DEF TypeOK
    <3> QED BY <2>1, <3>1 DEF Behind
  <2>3. Accounted(j.path, s, k)
    BY <1>3, <1>8, <1>10 DEF AllAccounted
  <2>4. CASE InDatabase(j.path, s.gen, k)
    BY <1>5, <1>7, <2>4 DEF Accounted, InDatabase, Stored, Grows
  <2>5. CASE Skipped(s, k)
    BY <1>5, <1>6, <2>5 DEF Accounted, Skipped
  <2>6. CASE AwaitsFill(s, k) /\ k < j.next
    <3>1. InDatabase(j.path, j.gen, k) \/ InBatch(j, k)
      BY <1>2, <1>3, <1>10, <2>6 DEF FillInv
    <3>2. InDatabase(j.path, j.gen, k)'
      BY <1>6, <1>7, <3>1, BatchKeeps DEF InDatabase, Stored, Grows
    <3> QED BY <1>5, <2>1, <3>2 DEF Accounted
  <2>7. CASE AwaitsFill(s, k) /\ k >= j.next
    <3>1. s.fillEnd \in Int
      BY DEF FileStates, Cells
    <3>2. 2 * k <= s.fillEnd /\ content[s.gen][k] < s.cutoff
      BY <2>7 DEF AwaitsFill
    <3>3. ~done
      BY <1>1, <1>2, <1>3, <2>2, <2>7, <3>1, <3>2
    <3>4. t.fillOffset < 2 * k
      BY <1>3, <1>5, <2>2, <2>7
    <3>5. AwaitsFill(t, k)'
      BY <1>5, <1>6, <3>2, <3>3, <3>4 DEF AwaitsFill
    <3> QED BY <3>5 DEF Accounted
  <2> QED BY <1>3, <2>2, <2>3, <2>4, <2>5, <2>6, <2>7 DEF Accounted
<1>11. AllAccounted(j.path, t)'
  BY <1>3, <1>5, <1>6, <1>10 DEF AllAccounted, Behind
<1>12. StatesInv'
  BY <1>3, <1>6, <1>7, <1>9, <1>11, SetKeeps
<1>13. \A q \in Paths : st[q].known => st'[q].known
  BY <1>3, <1>5, <1>6 DEF TypeOK
<1> QED BY <1>6, <1>12, <1>13 DEF JobInv, FilesInv, ClearedInv, TodoInv, TypeOK

LEMMA EndFillKeeps ==
  ASSUME IndInv, TypeOK', EndFill \/ StopFill
  PROVE  IndInv'
<1>1. pc = "fillRead" /\ job \in Jobs /\ todo \in SUBSET todo
      /\ todo \ {job.path} \in SUBSET todo /\ {} \in SUBSET todo
  BY DEF EndFill, StopFill, IndInv, TypeOK
<1>2. job.next \in Int /\ job.state.fillEnd \in Int
  BY <1>1 DEF Jobs, FileStates, Cells
<1>3. CASE EndFill
  <2>1. 2 * job.next > job.state.fillEnd \/ job.next > Len(content[job.gen])
    BY <1>2, <1>3 DEF EndFill, InSection
  <2> QED BY <1>1, <1>3, <2>1, CloseKeeps DEF EndFill
<1>4. CASE StopFill
  <2> DEFINE done == 2 * (job.next - 1) >= job.state.fillEnd
  <2>1. done \in BOOLEAN
    OBVIOUS
  <2>2. done => 2 * job.next > job.state.fillEnd
    BY <1>2
  <2>3. CloseFill(done, {})
    BY <1>4 DEF StopFill
  <2> HIDE DEF done
  <2> QED BY <1>1, <2>1, <2>2, <2>3, CloseKeeps
<1> QED BY <1>3, <1>4

----------------------------------------------------------------------------
(* THE OTHER STEPS                                                          *)

LEMMA EnvironmentKeeps ==
  ASSUME IndInv, TypeOK', Benign, Environment
  PROVE  IndInv'
<1> USE DEF IndInv
<1>1. Grows /\ FilesInv'
  BY EnvironmentGrows
<1>2. /\ st' = st /\ disk' = disk /\ pc' = pc /\ job' = job /\ todo' = todo
      /\ rows' = rows
  BY DEF Environment, WriteLine, WritePart, Rotate, Remove, Tick, jobVars
<1> QED BY <1>1, <1>2, GrowsStates, GrowsJob DEF ClearedInv, TodoInv

(* Steps that begin or end a pass, or leave out a file that has gone.        *)
LEMMA PassKeeps ==
  ASSUME IndInv, TypeOK',
         \/ StartScan \/ StartBackfill \/ FinishScan \/ FinishBackfill
         \/ \E p \in Paths : OpenFails(p)
  PROVE  IndInv'
<1> USE DEF IndInv
<1>1. /\ content' = content /\ at' = at /\ torn' = torn /\ rows' = rows
      /\ dropped' = dropped /\ st' = st /\ pc # "cleared"
      /\ pc' \in {"scan", "fill", "idle"}
      /\ disk' = disk \/ disk' = st
      /\ pc' = "fill" => \A p \in todo' : st[p].known
  BY DEF StartScan, StartBackfill, FinishScan, FinishBackfill, OpenFails,
         fileVars, Save
<1>2. Grows
  BY <1>1, QuietGrows
<1>3. StatesInv'
  BY <1>1, <1>2, StatesStep
<1> QED BY <1>1, <1>3 DEF JobInv, FilesInv, ClearedInv, TodoInv

(* A reparse and a restart: the states go with the rows.                    *)
LEMMA ResetKeeps ==
  ASSUME IndInv, TypeOK', Benign, ClearLogs \/ ResetScanState \/ Restart
  PROVE  IndInv'
<1> USE DEF IndInv
<1>1. content' = content /\ at' = at /\ torn' = torn
  BY DEF ClearLogs, ResetScanState, Restart, fileVars
<1>2. \A p \in Paths, s \in FileStates : Sane(p, s) => Sane(p, s)'
  BY <1>1 DEF Sane, Had
<1>3. \A p \in Paths : /\ Sane(p, st[p]) /\ Sane(p, disk[p])
                        /\ st[p] \in FileStates /\ disk[p] \in FileStates
  BY DEF StatesInv, TypeOK
<1>4. ASSUME st' = NoStates, disk' = NoStates PROVE StatesInv'
  <2>1. \A p \in Paths : st'[p] = NoState /\ disk'[p] = NoState
    BY <1>4 DEF NoStates
  <2>2. Even(0)
    BY DEF Even
  <2> QED BY <2>1, <2>2 DEF StatesInv, Sane, AllAccounted, NoState
<1>5. CASE ClearLogs
  <2>1. MaxReparses # 0
    BY <1>5, BoundsAssumption DEF ClearLogs, TypeOK
  <2>2. pc' = "cleared" /\ rows' = {} /\ st' = st /\ disk' = disk
    BY <1>5, <2>1 DEF ClearLogs, Benign
  <2>3. StatesInv'
    BY <1>2, <1>3, <2>2 DEF StatesInv
  <2> QED BY <1>1, <2>1, <2>2, <2>3 DEF JobInv, FilesInv, ClearedInv, TodoInv
<1>6. CASE ResetScanState
  <2>1. st' = NoStates /\ disk' = NoStates /\ pc' = "scan"
    BY <1>6 DEF ResetScanState, Save, ClearedInv, Benign
  <2> QED BY <1>1, <1>4, <2>1 DEF JobInv, FilesInv, ClearedInv, TodoInv
<1>7. CASE Restart
  <2>1. rows' = rows /\ dropped' = dropped /\ pc' = "idle"
    BY <1>7 DEF Restart
  <2>2. CASE pc = "cleared"
    <3>1. st' = NoStates /\ disk' = NoStates
      BY <1>7, <2>2 DEF Restart, Save, ClearedInv, Benign
    <3> QED BY <1>1, <1>4, <2>1, <3>1 DEF JobInv, FilesInv, ClearedInv, TodoInv
  <2>3. CASE pc # "cleared"
    <3>1. Grows
      BY <1>1, <2>1, QuietGrows
    <3>2. /\ \A p \in Paths : /\ Sane(p, disk[p])' \/ disk'[p] # disk[p]
                              /\ AllAccounted(p, disk[p])' \/ disk'[p] # disk[p]
      <4>1. \A p \in Paths : AllAccounted(p, disk[p])
        BY <2>3 DEF StatesInv
      <4>2. \A p \in Paths, s \in FileStates :
              Sane(p, s) /\ AllAccounted(p, s) => Sane(p, s)' /\ AllAccounted(p, s)'
        BY <3>1, GrowsKeeps
      <4> QED BY <1>3, <4>1, <4>2
    <3>3. \A p \in Paths : st'[p] = NoState \/ st'[p] = disk[p]
      BY <1>7 DEF Restart, NoStates
    <3>4. \A p \in Paths : disk'[p] = NoState \/ disk'[p] = disk[p]
      BY <1>7 DEF Restart, Save, NoStates
    <3>5. \A p \in Paths : Sane(p, st[p])' /\ AllAccounted(p, st[p])'
      <4> SUFFICES ASSUME NEW p \in Paths
                   PROVE Sane(p, st[p])' /\ AllAccounted(p, st[p])'
        OBVIOUS
      <4>1. CASE st'[p] = NoState
        BY <4>1, NoStateSound DEF Sound
      <4>2. CASE st'[p] = disk[p]
        <5>1. \A s \in FileStates :
                Sane(p, s) /\ AllAccounted(p, s) => Sane(p, s)' /\ AllAccounted(p, s)'
          BY <3>1, GrowsKeeps
        <5>2. AllAccounted(p, disk[p])
          BY <2>3 DEF StatesInv
        <5> QED BY <1>3, <4>2, <5>1, <5>2
      <4> QED BY <3>3, <4>1, <4>2
    <3>6. \A p \in Paths : Sane(p, disk[p])' /\ AllAccounted(p, disk[p])'
      <4>1. Even(0)
        BY DEF Even
      <4>2. \A p \in Paths : disk'[p] = NoState =>
              Sane(p, disk[p])' /\ AllAccounted(p, disk[p])'
        BY <4>1 DEF Sane, AllAccounted, NoState
      <4> QED BY <3>2, <3>4, <4>2
    <3>7. StatesInv'
      BY <3>5, <3>6 DEF StatesInv
    <3> QED BY <1>1, <2>1, <3>7 DEF JobInv, FilesInv, ClearedInv, TodoInv
  <2> QED BY <2>2, <2>3
<1> QED BY <1>5, <1>6, <1>7

----------------------------------------------------------------------------
(* THE THEOREM                                                              *)

LEMMA InitInd == Init => IndInv
<1> SUFFICES ASSUME Init PROVE IndInv
  OBVIOUS
<1>1. Even(0)
  BY DEF Even
<1>2. \A p \in Paths : st[p] = NoState /\ disk[p] = NoState
  BY DEF Init, NoStates
<1>3. StatesInv
  BY <1>1, <1>2 DEF StatesInv, Sane, AllAccounted, NoState
<1>4. FilesInv
  BY DEF Init, FilesInv, Paths
<1>5. JobInv /\ ClearedInv /\ TodoInv
  BY DEF Init, JobInv, ClearedInv, TodoInv
<1> QED BY InitType, <1>3, <1>4, <1>5 DEF IndInv

LEMMA StepInd == Benign /\ IndInv /\ [Next]_vars => IndInv'
<1> SUFFICES ASSUME Benign, IndInv, [Next]_vars PROVE IndInv'
  OBVIOUS
<1>1. TypeOK'
  BY StepType DEF IndInv
<1>2. CASE UNCHANGED vars
  BY <1>2 DEF IndInv, vars, fileVars, jobVars, TypeOK, FilesInv, ClearedInv, TodoInv,
     StatesInv, JobInv, LocateInv, ReadInv, FillInv, JobSane, Sane, Had, AllAccounted,
     Behind, Accounted, InDatabase, Stored, AwaitsFill, Skipped
<1>3. CASE Environment
  BY <1>1, <1>3, EnvironmentKeeps
<1>4. CASE StartScan \/ StartBackfill
  BY <1>1, <1>4, PassKeeps
<1>5. CASE ClearLogs \/ Restart
  BY <1>1, <1>5, ResetKeeps
<1>6. CASE Pass
  <2>1. ASSUME NEW p \in Paths, OpenFails(p) \/ StatFile(p) \/ SkipFill(p) \/ OpenFill(p)
        PROVE  IndInv'
    BY <1>1, <2>1, PassKeeps, StatKeeps, SkipKeeps, OpenFillKeeps
  <2>2. CASE LocateRecent \/ LocateFails
    BY <1>1, <2>2, LocateKeeps
  <2>3. CASE ReadLine
    BY <1>1, <2>3, ReadKeeps
  <2>4. CASE EndFile \/ ScannerStops
    BY <1>1, <2>4, EndKeeps
  <2>5. CASE FillLine
    BY <1>1, <2>5, FillKeeps
  <2>6. CASE EndFill \/ StopFill
    BY <1>1, <2>6, EndFillKeeps
  <2>7. CASE FinishScan \/ FinishBackfill
    BY <1>1, <2>7, PassKeeps
  <2>8. CASE ResetScanState
    BY <1>1, <2>8, ResetKeeps
  <2> QED BY <1>6, <2>1, <2>2, <2>3, <2>4, <2>5, <2>6, <2>7, <2>8 DEF Pass
<1> QED BY <1>2, <1>3, <1>4, <1>5, <1>6 DEF Next

LEMMA IndAccounts == IndInv => OffsetsAccounted /\ SavedOffsetsAccounted
<1> SUFFICES ASSUME IndInv, pc # "cleared"
             PROVE  Accounts(st, Skipped) /\ Accounts(disk, Skipped)
  BY DEF OffsetsAccounted, SavedOffsetsAccounted
<1>1. \A p \in Paths : AllAccounted(p, st[p]) /\ AllAccounted(p, disk[p])
  BY DEF IndInv, StatesInv
<1> QED BY <1>1 DEF Accounts, Current, AllAccounted, Accounted, InDatabase

(* Nothing is lost behind an offset: whatever the scan, the backfill, the    *)
(* rotation and the crashes do, each line in front of an offset, in memory   *)
(* or in the state file, is a row, or left to the backfill, or was in a      *)
(* failed batch, or is one that both windows leave out.                      *)
THEOREM NothingLost ==
  ASSUME Benign PROVE Spec => [](OffsetsAccounted /\ SavedOffsetsAccounted)
<1>1. IndInv /\ [Next]_vars => IndInv'
  BY StepInd
<1> QED BY <1>1, InitInd, IndAccounts, PTL DEF Spec
----------------------------------------------------------------------------
(* THE SECOND OF THE CUTOFF                                                 *)

\* The time stamps of a file that only grows in order.
Ascending(files) ==
  \A g \in Gens : \A j, k \in DOMAIN files[g] : j <= k => files[g][j] <= files[g][k]

\* In front of RecentOffset no line is younger than the cutoff.
Marked(files, s) ==
  s.known =>
    /\ s.gen \in Gens
    /\ \A k \in Nat \ {0} : 2 * k <= s.recent =>
         k \in DOMAIN files[s.gen] /\ files[s.gen][k] <= s.cutoff

\* Every state is marked, the one a job will set included; the search for the
\* cutoff reads the file that the state is about.
MarksInv ==
  /\ Ascending(content)
  /\ \A p \in Paths : Marked(content, st[p]) /\ Marked(content, disk[p])
  /\ Marked(content, job.state)
  /\ pc = "locate" => job.state.gen = job.gen

LEMMA NoStateMarked ==
  ASSUME NEW files
  PROVE  Marked(files, NoState) /\ \A p \in Paths : Marked(files, NoStates[p])
  BY DEF Marked, NoState, NoStates

(* Only what a state says of its file and its cutoff counts.                *)
LEMMA MarkedSame ==
  ASSUME NEW files, NEW s, NEW t, Marked(files, s),
         t.known = s.known, t.gen = s.gen, t.recent = s.recent, t.cutoff = s.cutoff
  PROVE  Marked(files, t)
  BY DEF Marked

(* A file that the server writes keeps the marks and, in order, the order.   *)
LEMMA EnvironmentMarked ==
  ASSUME TypeOK, MarksInv, Ordered, Environment
  PROVE  MarksInv'
<1>1. st' = st /\ disk' = disk /\ job' = job /\ pc' = pc
  BY DEF Environment, WriteLine, WritePart, Rotate, Remove, Tick, jobVars
<1>2. CASE content' = content
  BY <1>1, <1>2 DEF MarksInv
<1>3. CASE WriteLine
  <2> DEFINE h == at[Live]
  <2>1. h \in Gens /\ content \in [Gens -> Seq(0..MaxTs)]
    BY DEF TypeOK, Gens, Paths
  <2>2. PICK ts \in (cutoff + 1)..MaxTs :
          /\ \A k \in DOMAIN content[h] : content[h][k] <= ts
          /\ content' = [content EXCEPT ![h] = Append(@, ts)]
    BY <1>3 DEF WriteLine
  <2>3. content[h] \in Seq(0..MaxTs) /\ ts \in Int
    BY <2>1, <2>2 DEF TypeOK
  <2>4. /\ content'[h] = Append(content[h], ts)
        /\ \A g \in Gens : g # h => content'[g] = content[g]
    BY <2>1, <2>2
  <2> HIDE DEF h
  <2>5. Len(content[h]) \in Nat /\ DOMAIN content[h] = 1..Len(content[h])
        /\ DOMAIN content'[h] = 1..(Len(content[h]) + 1)
    BY <2>3, <2>4
  <2>6. /\ \A k \in DOMAIN content[h] : content'[h][k] = content[h][k]
        /\ content'[h][Len(content[h]) + 1] = ts
    BY <2>3, <2>4, <2>5
  <2>7. \A k \in DOMAIN content[h] : content[h][k] \in Int
    BY <2>3
  <2>8. Ascending(content')
    <3> SUFFICES ASSUME NEW g \in Gens, NEW j \in DOMAIN content'[g],
                        NEW k \in DOMAIN content'[g], j <= k
                 PROVE  content'[g][j] <= content'[g][k]
      BY DEF Ascending
    <3>1. CASE g # h
      BY <2>4, <3>1 DEF MarksInv, Ascending
    <3>2. CASE g = h /\ k \in DOMAIN content[h]
      <4>1. j \in DOMAIN content[h]
        BY <2>5, <3>2
      <4> QED BY <2>1, <2>6, <3>2, <4>1 DEF MarksInv, Ascending
    <3>3. CASE g = h /\ k = Len(content[h]) + 1
      <4>1. CASE j \in DOMAIN content[h]
        BY <2>2, <2>6, <3>3, <4>1 DEF h
      <4>2. CASE j = k
        BY <2>3, <2>6, <3>3, <4>2
      <4> QED BY <2>5, <3>3, <4>1, <4>2
    <3> QED BY <2>5, <3>1, <3>2, <3>3
  <2>9. \A s : Marked(content, s) => Marked(content', s)
    <3> SUFFICES ASSUME NEW s, Marked(content, s), s.known
                 PROVE  /\ s.gen \in Gens
                        /\ \A k \in Nat \ {0} : 2 * k <= s.recent =>
                             k \in DOMAIN content'[s.gen] /\ content'[s.gen][k] <= s.cutoff
      BY DEF Marked
    <3> SUFFICES ASSUME NEW k \in Nat \ {0}, 2 * k <= s.recent
                 PROVE  k \in DOMAIN content'[s.gen] /\ content'[s.gen][k] <= s.cutoff
      BY DEF Marked
    <3>1. s.gen \in Gens /\ k \in DOMAIN content[s.gen] /\ content[s.gen][k] <= s.cutoff
      BY DEF Marked
    <3>2. CASE s.gen = h
      <4>1. k \in DOMAIN content'[h]
        BY <2>5, <3>1, <3>2
      <4> QED BY <2>6, <3>1, <3>2, <4>1
    <3> QED BY <2>4, <3>1, <3>2
  <2> QED BY <1>1, <2>8, <2>9 DEF MarksInv
<1> QED BY <1>2, <1>3 DEF Environment, WritePart, Rotate, Remove, Tick

(* The search for the cutoff in a file in order leaves no younger line in    *)
(* front of the offset it finds.                                            *)
LEMMA FoundMarked ==
  ASSUME TypeOK, Ascending(content), NEW g \in Gens, NEW limit \in Int,
         NEW k \in 0..Len(content[g]), EndsHistory(g, limit, k),
         NEW j \in Nat \ {0}, 2 * j <= 2 * k
  PROVE  j \in DOMAIN content[g] /\ content[g][j] <= limit
<1>1. content[g] \in Seq(0..MaxTs) /\ Len(content[g]) \in Nat
  BY DEF TypeOK
<1>2. j \in DOMAIN content[g] /\ k \in DOMAIN content[g] /\ j <= k /\ k > 0
  BY <1>1
<1>3. content[g][j] \in Int /\ content[g][k] \in Int
  BY <1>1, <1>2
<1>4. content[g][j] <= content[g][k] /\ content[g][k] <= limit
  BY <1>2 DEF Ascending, EndsHistory
<1> QED BY <1>2, <1>3, <1>4

LEMMA FirstScanMarked ==
  ASSUME TypeOK, MarksInv, NEW from, NEW s \in FileStates, Marked(content, s),
         FirstScan(from, s), content' = content, disk' = disk
  PROVE  MarksInv'
<1>1. job \in Jobs /\ st \in [Paths -> FileStates]
  BY DEF TypeOK
<1>2. pc' # "locate"
  BY DEF FirstScan
<1>3. job'.state = s \/ job' = job
  BY <1>1 DEF FirstScan, Jobs
<1>4. \A p \in Paths : st'[p] = st[p] \/ st'[p] = s
  BY <1>1 DEF FirstScan
<1> QED BY <1>2, <1>3, <1>4 DEF MarksInv

LEMMA LocateMarked ==
  ASSUME TypeOK, MarksInv, LocateRecent \/ LocateFails
  PROVE  MarksInv'
<1>0. content' = content /\ disk' = disk /\ pc = "locate" /\ job.state.gen = job.gen
  BY DEF LocateRecent, LocateFails, fileVars, MarksInv
<1>1. job.state \in FileStates /\ job.gen \in Gens /\ job.state.cutoff \in Int
  BY DEF TypeOK, Jobs, FileStates
<1>2. CASE LocateRecent
  <2>1. PICK k \in 0..Len(content[job.gen]) :
          /\ EndsHistory(job.gen, job.state.cutoff, k)
          /\ FirstScan(2 * k, [job.state EXCEPT !.recent = 2 * k, !.fillEnd = 2 * k,
                                                !.fillDone = (k = 0)])
    BY <1>2 DEF LocateRecent
  <2> DEFINE s == [job.state EXCEPT !.recent = 2 * k, !.fillEnd = 2 * k,
                                    !.fillDone = (k = 0)]
  <2>2. 2 * k \in Cells
    BY <1>1, SizeType DEF Cells
  <2>3. s \in FileStates
    BY <1>1, <2>2 DEF FileStates
  <2>4. s.gen = job.gen /\ s.recent = 2 * k /\ s.cutoff = job.state.cutoff
    BY <1>0, <1>1 DEF FileStates
  <2> HIDE DEF s
  <2>5. \A j \in Nat \ {0} : 2 * j <= s.recent =>
          j \in DOMAIN content[s.gen] /\ content[s.gen][j] <= s.cutoff
    BY <1>1, <2>1, <2>4, FoundMarked DEF MarksInv
  <2>6. Marked(content, s)
    BY <1>1, <2>4, <2>5 DEF Marked
  <2> QED BY <1>0, <2>1, <2>3, <2>6, FirstScanMarked DEF s
<1>3. CASE LocateFails
  <2> DEFINE s == [job.state EXCEPT !.fillEnd = job.state.lastSize]
  <2>1. s \in FileStates
    BY <1>1 DEF FileStates
  <2>2. /\ s.known = job.state.known /\ s.gen = job.state.gen
        /\ s.recent = job.state.recent /\ s.cutoff = job.state.cutoff
    BY <1>1 DEF FileStates
  <2>3. FirstScan(0, s)
    BY <1>3 DEF LocateFails
  <2> HIDE DEF s
  <2>4. Marked(content, s)
    BY <2>2, MarkedSame DEF MarksInv
  <2> QED BY <1>0, <2>1, <2>3, <2>4, FirstScanMarked
<1> QED BY <1>2, <1>3

LEMMA StatMarked ==
  ASSUME TypeOK, MarksInv, NEW p \in Paths, StatFile(p)
  PROVE  MarksInv'
<1>0. content' = content /\ disk' = disk /\ at[p] # 0 /\ at[p] \in Gens
      /\ st \in [Paths -> FileStates] /\ st[p] \in FileStates
  BY DEF StatFile, fileVars, TypeOK, Gens
<1>1. \A q \in Paths : Marked(content', st'[q])
  BY <1>0, NoStateMarked DEF StatFile, MarksInv
<1>2. CASE Open(p, "recent", 0, FirstState(p)) /\ pc' = "locate"
  <2>1. /\ FirstState(p).gen = at[p] /\ FirstState(p).recent = 0
    BY DEF FirstState
  <2>2. Marked(content', FirstState(p))
    BY <1>0, <2>1 DEF Marked
  <2>3. job'.state = FirstState(p) /\ job'.gen = at[p]
    BY <1>2 DEF Open
  <2> QED BY <1>0, <1>1, <2>1, <2>2, <2>3 DEF MarksInv
<1>3. CASE pc' = "read" /\
           Open(p, "all", st[p].lastOffset,
                [st[p] EXCEPT !.lastOffset = Size(at[p]), !.lastSize = Size(at[p])])
  <2> DEFINE s == [st[p] EXCEPT !.lastOffset = Size(at[p]), !.lastSize = Size(at[p])]
  <2>1. /\ s.known = st[p].known /\ s.gen = st[p].gen
        /\ s.recent = st[p].recent /\ s.cutoff = st[p].cutoff
    BY <1>0 DEF FileStates
  <2>2. job'.state = s
    BY <1>3 DEF Open
  <2> HIDE DEF s
  <2>3. Marked(content', s)
    BY <1>0, <2>1, MarkedSame DEF MarksInv
  <2> QED BY <1>0, <1>1, <1>3, <2>2, <2>3 DEF MarksInv
<1>4. CASE pc' = pc /\ job' = job
  BY <1>0, <1>1, <1>4 DEF MarksInv
<1> QED BY <1>2, <1>3, <1>4 DEF StatFile

LEMMA StepMarked == Ordered /\ TypeOK /\ MarksInv /\ [Next]_vars => MarksInv'
<1> SUFFICES ASSUME Ordered, TypeOK, MarksInv, [Next]_vars PROVE MarksInv'
  OBVIOUS
<1>0. /\ st \in [Paths -> FileStates] /\ job \in Jobs
      /\ job.path \in Paths /\ job.state \in FileStates
  BY DEF TypeOK, Jobs
<1>n. NoJob.state = NoState
  BY DEF NoJob
<1>1. CASE UNCHANGED vars
  BY <1>1 DEF vars, fileVars, jobVars, MarksInv
<1>2. CASE Environment
  BY <1>2, EnvironmentMarked
<1>3. CASE StartScan \/ ClearLogs
  BY <1>3 DEF StartScan, ClearLogs, fileVars, MarksInv
<1>4. CASE StartBackfill
  BY <1>4, <1>n, NoStateMarked DEF StartBackfill, fileVars, MarksInv
<1>5. CASE Restart
  <2>1. content' = content /\ pc' = "idle" /\ job' = NoJob
        /\ (st' = NoStates \/ st' = disk) /\ (disk' = NoStates \/ disk' = disk)
    BY <1>5 DEF Restart, Save, fileVars
  <2> QED BY <1>n, <2>1, NoStateMarked DEF MarksInv
<1>6. CASE Pass
  <2>1. ASSUME NEW p \in Paths, OpenFails(p) PROVE MarksInv'
    BY <2>1 DEF OpenFails, fileVars, MarksInv
  <2>2. ASSUME NEW p \in Paths, StatFile(p) PROVE MarksInv'
    BY <2>2, StatMarked
  <2>3. ASSUME NEW p \in Paths, SkipFill(p) PROVE MarksInv'
    <3>1. content' = content /\ disk' = disk /\ job' = job /\ pc' = pc
      BY <2>3 DEF SkipFill, fileVars
    <3>2. \A q \in Paths : /\ st'[q].known = st[q].known /\ st'[q].gen = st[q].gen
                           /\ st'[q].recent = st[q].recent
                           /\ st'[q].cutoff = st[q].cutoff
      BY <1>0, <2>3 DEF SkipFill, FileStates
    <3>3. \A q \in Paths : Marked(content, st'[q])
      BY <3>2, MarkedSame DEF MarksInv
    <3> QED BY <3>1, <3>3 DEF MarksInv
  <2>4. ASSUME NEW p \in Paths, OpenFill(p) PROVE MarksInv'
    <3>1. /\ content' = content /\ st' = st /\ disk' = disk
          /\ pc' = "fillRead" /\ job'.state = st[p]
      BY <2>4 DEF OpenFill, Open, fileVars
    <3> QED BY <3>1 DEF MarksInv
  <2>5. CASE LocateRecent \/ LocateFails
    BY <2>5, LocateMarked
  <2>6. CASE ReadLine \/ FillLine
    <3>1. content' = content /\ st' = st /\ disk' = disk
          /\ job'.state = job.state /\ pc' # "locate"
      BY <1>0, <2>6 DEF ReadLine, FillLine, TakeLine, fileVars, Jobs
    <3> QED BY <3>1 DEF MarksInv
  <2>7. CASE EndFile \/ ScannerStops
    <3>1. content' = content /\ disk' = disk /\ job' = NoJob /\ pc' = "scan"
          /\ st' = [st EXCEPT ![job.path] = job.state]
      BY <2>7 DEF EndFile, ScannerStops, CloseScan, fileVars
    <3>2. \A q \in Paths : st'[q] = st[q] \/ st'[q] = job.state
      BY <1>0, <3>1
    <3> QED BY <1>n, <3>1, <3>2, NoStateMarked DEF MarksInv
  <2>8. ASSUME NEW done, NEW rest, CloseFill(done, rest) PROVE MarksInv'
    <3> DEFINE s == [job.state EXCEPT !.fillOffset = 2 * (job.next - 1),
                                      !.fillDone = done]
    <3>1. content' = content /\ disk' = disk /\ job' = NoJob /\ pc' = "fill"
          /\ st' = [st EXCEPT ![job.path] = s]
      BY <2>8 DEF CloseFill, fileVars
    <3>2. /\ s.known = job.state.known /\ s.gen = job.state.gen
          /\ s.recent = job.state.recent /\ s.cutoff = job.state.cutoff
      BY <1>0 DEF FileStates
    <3> HIDE DEF s
    <3>3. Marked(content, s)
      BY <3>2, MarkedSame DEF MarksInv
    <3>4. \A q \in Paths : st'[q] = st[q] \/ st'[q] = s
      BY <1>0, <3>1
    <3> QED BY <1>n, <3>1, <3>3, <3>4, NoStateMarked DEF MarksInv
  <2>9. CASE FinishScan \/ FinishBackfill
    <3>1. content' = content /\ st' = st /\ (disk' = st \/ disk' = disk)
          /\ job' = job /\ pc' = "idle"
      BY <2>9 DEF FinishScan, FinishBackfill, Save, fileVars
    <3> QED BY <3>1 DEF MarksInv
  <2>10. CASE ResetScanState
    <3>1. content' = content /\ st' = NoStates
          /\ (disk' = NoStates \/ disk' = disk) /\ job' = job /\ pc' = "scan"
      BY <2>10 DEF ResetScanState, Save, fileVars
    <3> QED BY <3>1, NoStateMarked DEF MarksInv
  <2> QED BY <1>6, <2>1, <2>2, <2>3, <2>4, <2>5, <2>6, <2>7, <2>8, <2>9, <2>10
          DEF Pass, EndFill, StopFill
<1> QED BY <1>1, <1>2, <1>3, <1>4, <1>5, <1>6 DEF Next

(* The windows of the first scan and of the backfill meet: in a file whose   *)
(* time stamps do not decrease, the lines that the recent window is past and *)
(* the history window leaves out are of the one second in which the cutoff   *)
(* fell (findRecentOffset compares with the fraction, parseWindow without).  *)
THEOREM WindowsMeet == ASSUME Ordered PROVE Spec => []OnlyCutoffSecondSkipped
<1>1. Init => MarksInv
  <2> SUFFICES ASSUME Init PROVE MarksInv
    OBVIOUS
  <2>1. Ascending(content)
    BY DEF Init, Ascending
  <2>2. NoJob.state = NoState
    BY DEF NoJob
  <2> QED BY <2>1, <2>2, NoStateMarked DEF Init, MarksInv
<1>2. TypeOK /\ MarksInv => OnlyCutoffSecondSkipped
  <2> SUFFICES ASSUME TypeOK, MarksInv, NEW p \in Current(st), NEW k \in Behind(st[p]),
                      Skipped(st[p], k)
               PROVE  content[at[p]][k] = st[p].cutoff
    BY DEF OnlyCutoffSecondSkipped
  <2>1. p \in Paths /\ st[p].known /\ st[p].gen = at[p]
    BY DEF Current
  <2>2. st[p] \in FileStates /\ st[p].cutoff \in Int
    BY <2>1 DEF TypeOK, FileStates
  <2>3. at[p] \in Gens /\ content[at[p]] \in Seq(0..MaxTs)
    BY <2>1 DEF TypeOK, MarksInv, Marked
  <2>4. k \in DOMAIN content[at[p]]
    BY <2>1 DEF Behind
  <2>5. k \in Nat \ {0} /\ content[at[p]][k] \in Int
    BY <2>3, <2>4
  <2>6. content[at[p]][k] <= st[p].cutoff
    BY <2>1, <2>5 DEF Skipped, MarksInv, Marked
  <2>7. content[at[p]][k] >= st[p].cutoff
    BY <2>1 DEF Skipped
  <2> QED BY <2>2, <2>5, <2>6, <2>7
<1> QED BY <1>1, <1>2, InitType, StepType, StepMarked, PTL DEF Spec

----------------------------------------------------------------------------
(* THE BACKFILL GOES FORWARD                                                *)

SameFill(s, t) ==
  /\ s.fillOffset = t.fillOffset
  /\ s.fillEnd = t.fillEnd
  /\ s.fillDone = t.fillDone

\* How the state a job will set stands to the state that it replaces: a first
\* scan replaces none, a later scan leaves the backfill's fields alone, and a
\* backfill starts from the state itself, which is not done.
ForwardInv ==
  /\ pc = "locate" => ~st[job.path].known
  /\ pc = "read" /\ st[job.path].known => SameFill(st[job.path], job.state)
  /\ pc = "fillRead" =>
       /\ job.state = st[job.path]
       /\ job.path \in todo
       /\ 2 * (job.next - 1) >= job.state.fillOffset
  /\ pc \in {"fill", "fillRead"} => \A p \in todo : ~st[p].fillDone

\* What BackfillForward says of a step.
Forward ==
  \A p \in Paths :
    st[p].known /\ st'[p].known /\ pc' # "idle" =>
      /\ st'[p].fillOffset >= st[p].fillOffset
      /\ st'[p].fillEnd = st[p].fillEnd
      /\ st[p].fillDone => st'[p].fillDone

LEMMA SameForward ==
  ASSUME TypeOK, \A p \in Paths : st'[p] = st[p] \/ ~st'[p].known
                                  \/ ~st[p].known \/ SameFill(st[p], st'[p])
  PROVE  Forward
<1>1. \A p \in Paths : st[p].fillOffset \in Int
  BY DEF TypeOK, FileStates, Cells
<1> QED BY <1>1 DEF SameFill, Forward

LEMMA StatForward ==
  ASSUME TypeOK, ForwardInv, NEW p \in Paths, StatFile(p)
  PROVE  ForwardInv' /\ Forward
<1>0. st \in [Paths -> FileStates] /\ st[p] \in FileStates /\ pc = "scan"
  BY DEF StatFile, TypeOK
<1>1. \A q \in Paths : st'[q] = st[q] \/ (q = p /\ ~st'[q].known)
  BY <1>0 DEF StatFile, NoState
<1>2. Forward
  BY <1>1, SameForward
<1>3. CASE pc' = "locate" /\ job'.path = p /\ (~st[p].known \/ Shrunk(p))
  <2>1. ~st'[p].known
    BY <1>0, <1>3 DEF StatFile, NoState, Shrunk
  <2> QED BY <1>2, <1>3, <2>1 DEF ForwardInv
<1>4. CASE /\ pc' = "read" /\ job'.path = p /\ st' = st
           /\ job'.state = [st[p] EXCEPT !.lastOffset = Size(at[p]),
                                         !.lastSize = Size(at[p])]
  <2>1. SameFill(st[p], job'.state)
    BY <1>0, <1>4 DEF SameFill, FileStates
  <2> QED BY <1>2, <1>4, <2>1 DEF ForwardInv
<1>5. CASE pc' = "scan"
  BY <1>2, <1>5 DEF ForwardInv
<1>6. \/ pc' = "locate" /\ job'.path = p /\ (~st[p].known \/ Shrunk(p))
      \/ /\ pc' = "read" /\ job'.path = p /\ st' = st
         /\ job'.state = [st[p] EXCEPT !.lastOffset = Size(at[p]),
                                       !.lastSize = Size(at[p])]
      \/ pc' = "scan"
  BY <1>0 DEF StatFile, Open
<1> QED BY <1>2, <1>3, <1>4, <1>5, <1>6

LEMMA LocateForward ==
  ASSUME TypeOK, ForwardInv, LocateRecent \/ LocateFails
  PROVE  ForwardInv' /\ Forward
<1>0. job \in Jobs /\ job.path \in Paths /\ st \in [Paths -> FileStates]
      /\ ~st[job.path].known
  BY DEF TypeOK, Jobs, ForwardInv, LocateRecent, LocateFails
<1>1. PICK from, s : FirstScan(from, s)
  BY DEF LocateRecent, LocateFails
<1>2. CASE pc' = "read" /\ st' = st /\ job'.path = job.path
  <2>1. Forward
    BY <1>2, SameForward
  <2> QED BY <1>0, <1>2, <2>1 DEF ForwardInv
<1>3. CASE pc' = "scan" /\ st' = [st EXCEPT ![job.path] = s]
  <2>1. \A q \in Paths : st'[q] = st[q] \/ ~st[q].known
    BY <1>0, <1>3
  <2> QED BY <1>3, <2>1, SameForward DEF ForwardInv
<1>4. \/ pc' = "read" /\ st' = st /\ job'.path = job.path
      \/ pc' = "scan" /\ st' = [st EXCEPT ![job.path] = s]
  BY <1>0, <1>1 DEF FirstScan, Jobs
<1> QED BY <1>2, <1>3, <1>4

LEMMA SkipForward ==
  ASSUME TypeOK, ForwardInv, NEW p \in Paths, SkipFill(p)
  PROVE  ForwardInv' /\ Forward
<1>0. st \in [Paths -> FileStates] /\ st[p] \in FileStates /\ todo \subseteq Paths
      /\ pc = "fill" /\ pc' = "fill" /\ todo' = todo \ {p}
  BY DEF SkipFill, TypeOK
<1>1. /\ \A q \in Paths : q # p => st'[q] = st[q]
      /\ st'[p].known = st[p].known /\ st'[p].fillOffset = st[p].fillOffset
      /\ st'[p].fillEnd = st[p].fillEnd
      /\ st[p].fillDone => st'[p].fillDone
  BY <1>0 DEF SkipFill, FileStates
<1>2. \A q \in Paths : st[q].fillOffset \in Int
  BY <1>0 DEF FileStates, Cells
<1>3. Forward
  BY <1>1, <1>2 DEF Forward
<1>4. \A q \in todo' : ~st'[q].fillDone
  BY <1>0, <1>1 DEF ForwardInv
<1> QED BY <1>0, <1>3, <1>4 DEF ForwardInv

LEMMA OpenFillForward ==
  ASSUME TypeOK, ForwardInv, NEW p \in Paths, OpenFill(p)
  PROVE  ForwardInv' /\ Forward
<1>0. /\ st' = st /\ todo' = todo /\ pc = "fill" /\ pc' = "fillRead" /\ p \in todo
      /\ job'.path = p /\ job'.state = st[p]
      /\ job'.next = FirstLine(st[p].fillOffset)
  BY DEF OpenFill, Open
<1>1. Forward
  BY <1>0, SameForward
<1>2. st[p].fillOffset \in Nat
  BY DEF TypeOK, FileStates, Cells
<1>3. 2 * (FirstLine(st[p].fillOffset) - 1) >= st[p].fillOffset
  BY <1>2 DEF FirstLine
<1> QED BY <1>0, <1>1, <1>3 DEF ForwardInv

LEMMA TakeForward ==
  ASSUME TypeOK, ForwardInv, ReadLine \/ FillLine
  PROVE  ForwardInv' /\ Forward
<1>3. st' = st /\ todo' = todo /\ pc' = pc
  BY DEF ReadLine, FillLine
<1>4. job \in Jobs /\ job.state \in FileStates /\ job.next \in Int
  BY DEF TypeOK, Jobs
<1>5. job.state.fillOffset \in Int
  BY <1>4 DEF FileStates, Cells
<1>0. TakeLine
  BY DEF ReadLine, FillLine
<1>1. /\ job'.path = job.path /\ job'.state = job.state /\ job'.next = job.next + 1
  BY <1>0, <1>4 DEF TakeLine, Jobs
<1>2. Forward
  BY <1>3, SameForward
<1> QED BY <1>1, <1>2, <1>3, <1>4, <1>5 DEF ForwardInv

LEMMA EndForward ==
  ASSUME TypeOK, ForwardInv, EndFile \/ ScannerStops
  PROVE  ForwardInv' /\ Forward
<1>0. /\ pc = "read" /\ pc' = "scan" /\ job \in Jobs /\ job.path \in Paths
      /\ st \in [Paths -> FileStates]
      /\ st' = [st EXCEPT ![job.path] = job.state]
  BY DEF EndFile, ScannerStops, CloseScan, TypeOK, Jobs
<1>1. \A q \in Paths : st'[q] = st[q] \/ ~st[q].known \/ SameFill(st[q], st'[q])
  BY <1>0 DEF ForwardInv
<1> QED BY <1>0, <1>1, SameForward DEF ForwardInv

LEMMA CloseForward ==
  ASSUME TypeOK, ForwardInv, EndFill \/ StopFill
  PROVE  ForwardInv' /\ Forward
<1>1. PICK done \in BOOLEAN, rest \in SUBSET Paths :
        CloseFill(done, rest) /\ rest \subseteq todo \ {job.path}
  <2>1. CASE EndFill
    BY <2>1 DEF EndFill, TypeOK
  <2>2. CASE StopFill
    <3>1. CloseFill(2 * (job.next - 1) >= job.state.fillEnd, {})
      BY <2>2 DEF StopFill
    <3>2. (2 * (job.next - 1) >= job.state.fillEnd) \in BOOLEAN
      BY DEF TypeOK, Jobs, FileStates, Cells
    <3> DEFINE d == 2 * (job.next - 1) >= job.state.fillEnd
    <3> HIDE DEF d
    <3>3. {} \in SUBSET Paths /\ {} \subseteq todo \ {job.path}
      OBVIOUS
    <3>4. CloseFill(d, {}) /\ d \in BOOLEAN
      BY <3>1, <3>2 DEF d
    <3> QED BY <3>3, <3>4, Zenon
  <2> QED BY <2>1, <2>2
<1> DEFINE s == [job.state EXCEPT !.fillOffset = 2 * (job.next - 1),
                                  !.fillDone = done]
<1>2. /\ pc = "fillRead" /\ pc' = "fill" /\ todo' = rest
      /\ st' = [st EXCEPT ![job.path] = s]
  BY <1>1 DEF CloseFill, EndFill, StopFill
<1>3. /\ job \in Jobs /\ job.path \in Paths /\ job.state \in FileStates
      /\ st \in [Paths -> FileStates] /\ todo \subseteq Paths
  BY DEF TypeOK, Jobs
<1>4. /\ job.state = st[job.path] /\ ~st[job.path].fillDone
      /\ 2 * (job.next - 1) >= st[job.path].fillOffset
  BY <1>2 DEF ForwardInv
<1>5. s.fillOffset = 2 * (job.next - 1) /\ s.fillEnd = st[job.path].fillEnd
  BY <1>3, <1>4 DEF FileStates
<1> HIDE DEF s
<1>6. st'[job.path] = s /\ \A q \in Paths : q # job.path => st'[q] = st[q]
  BY <1>2, <1>3
<1>7. \A q \in Paths : st[q].fillOffset \in Int
  BY <1>3 DEF FileStates, Cells
<1>8. Forward
  BY <1>4, <1>5, <1>6, <1>7 DEF Forward
<1>9. \A q \in todo' : ~st'[q].fillDone
  BY <1>1, <1>2, <1>3, <1>6 DEF ForwardInv
<1> QED BY <1>2, <1>8, <1>9 DEF ForwardInv

LEMMA StepForward == TypeOK /\ ForwardInv /\ [Next]_vars => ForwardInv' /\ (Forward \/ UNCHANGED vars)
<1> SUFFICES ASSUME TypeOK, ForwardInv, [Next]_vars
             PROVE  ForwardInv' /\ (Forward \/ UNCHANGED vars)
  OBVIOUS
<1>1. CASE UNCHANGED vars
  BY <1>1 DEF vars, jobVars, ForwardInv
<1>2. CASE Environment
  <2>1. st' = st /\ job' = job /\ pc' = pc /\ todo' = todo
    BY <1>2 DEF Environment, WriteLine, WritePart, Rotate, Remove, Tick, jobVars
  <2>2. Forward
    BY <2>1, SameForward
  <2> QED BY <2>1, <2>2 DEF ForwardInv
<1>3. CASE StartScan \/ ClearLogs \/ FinishScan \/ FinishBackfill
  <2>1. st' = st /\ pc' \in {"idle", "scan", "cleared"}
    BY <1>3 DEF StartScan, ClearLogs, FinishScan, FinishBackfill
  <2>2. Forward
    BY <2>1, SameForward
  <2> QED BY <2>1, <2>2 DEF ForwardInv
<1>4. CASE StartBackfill
  <2>1. st' = st /\ pc' = "fill" /\ \A p \in todo' : ~st[p].fillDone
    BY <1>4 DEF StartBackfill
  <2>2. Forward
    BY <2>1, SameForward
  <2> QED BY <2>1, <2>2 DEF ForwardInv
<1>5. CASE Restart
  <2>1. pc' = "idle"
    BY <1>5 DEF Restart
  <2> QED BY <2>1 DEF ForwardInv, Forward
<1>6. CASE ResetScanState
  <2>1. pc' = "scan" /\ st' = NoStates
    BY <1>6 DEF ResetScanState
  <2>2. \A p \in Paths : ~st'[p].known
    BY <2>1 DEF NoStates, NoState
  <2> QED BY <2>1, <2>2, SameForward DEF ForwardInv
<1>7. ASSUME NEW p \in Paths, OpenFails(p) PROVE ForwardInv' /\ Forward
  <2>1. st' = st /\ pc = "scan" /\ pc' = pc
    BY <1>7 DEF OpenFails
  <2>2. Forward
    BY <2>1, SameForward
  <2> QED BY <2>1, <2>2 DEF ForwardInv
<1>8. CASE Pass
  BY <1>3, <1>6, <1>7, <1>8, StatForward, SkipForward, OpenFillForward,
     LocateForward, TakeForward, EndForward, CloseForward DEF Pass
<1> QED BY <1>1, <1>2, <1>3, <1>4, <1>5, <1>8 DEF Next

(* The backfill of a file never goes back over a section it has done and the *)
(* end of the section never moves: a scan that sets the state of a file      *)
(* after a backfill writes back the backfill's fields as it found them, and  *)
(* a backfill of several passes continues where it stopped.                  *)
THEOREM FillsForward == Spec => BackfillForward
<1>1. Init => ForwardInv
  BY DEF Init, ForwardInv
<1>2. TypeOK /\ ForwardInv /\ [Next]_vars =>
        ForwardInv' /\ [\A p \in Paths :
           st[p].known /\ st'[p].known /\ pc' # "idle" =>
             /\ st'[p].fillOffset >= st[p].fillOffset
             /\ st'[p].fillEnd = st[p].fillEnd
             /\ st[p].fillDone => st'[p].fillDone]_vars
  BY StepForward DEF Forward
<1> QED BY <1>1, <1>2, InitType, StepType, PTL DEF Spec, BackfillForward
=============================================================================
