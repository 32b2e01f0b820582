--------------------------- MODULE MCFileScanBoth ---------------------------
(*******************************************************************************)
(* Two logs, one of which every behaviour is of: one that is rotated, with     *)
(* nothing failing, and one whose time stamps go back, whose lines are         *)
(* written in parts and about which everything may fail.  The other log keeps  *)
(* its first state.  The theorems about FileScan are about both.               *)
(*******************************************************************************)
EXTENDS FileScan

VARIABLES hContent, hTorn, hAt, hCutoff, hRows, hSt, hDisk, hPc, hJob, hTodo, hDropped,
          hFaults,
          hostile

hVars == <<hContent, hTorn, hAt, hCutoff, hRows, hSt, hDisk, hPc, hJob, hTodo, hDropped,
           hFaults>>

\* The second file begins with a line that is too long.
SecondFileLong == {<<2, 1>>}

Hostile == INSTANCE FileScanProofs WITH
  MaxTs <- 1, WatchRotated <- FALSE, MaxGen <- 1, Crlf <- FALSE, Ordered <- FALSE,
  TornWrites <- TRUE, InsertFails <- TRUE, IndexFails <- TRUE, ReadFails <- TRUE, HasLogsFails <- TRUE, SaveFails <- TRUE,
  ClearFails <- TRUE, OtherSites <- FALSE,
  content <- hContent, torn <- hTorn, at <- hAt, cutoff <- hCutoff, rows <- hRows,
  st <- hSt, disk <- hDisk, pc <- hPc, job <- hJob, todo <- hTodo, dropped <- hDropped,
  faults <- hFaults

BothInit == hostile \in BOOLEAN /\ Init /\ Hostile!Init
BothNext == \/ hostile /\ Hostile!Next /\ UNCHANGED <<vars, hostile>>
            \/ ~hostile /\ Next /\ UNCHANGED <<hVars, hostile>>
BothSpec == BothInit /\ [][BothNext]_<<vars, hVars, hostile>>

\* Of the log that nothing helps, too, no line has two rows and no backfill goes back.
NeverBack == /\ BackfillForward /\ Hostile!BackfillForward
             /\ [](Hostile!TypeOK /\ Hostile!NoDuplicateRows)
=============================================================================
