------------------------- MODULE FileScanBothProofs -------------------------
(* The theorems about FileScan for the two logs that the run checks: a     *)
(* behaviour of both is one of either, and each meets the assumptions.     *)
EXTENDS MCFileScanBoth, FileScanProofs

LEMMA FirstLog == BothSpec => Spec
<1>1. BothInit => Init
  BY DEF BothInit
<1>2. [BothNext]_<<vars, hVars, hostile>> => [Next]_vars
  BY DEF BothNext
<1> QED BY <1>1, <1>2, PTL DEF BothSpec, Spec

LEMMA SecondLog == BothSpec => Hostile!Spec
<1>1. BothInit => Hostile!Init
  BY DEF BothInit
<1>2. [BothNext]_<<vars, hVars, hostile>> => [Hostile!Next]_Hostile!vars
  BY DEF BothNext, hVars, Hostile!vars, Hostile!fileVars, Hostile!jobVars
<1> QED BY <1>1, <1>2, PTL DEF BothSpec, Hostile!Spec

\* The second log is one that the assumptions of FileScan are about.
LEMMA SecondAssumptions ==
  /\ Hostile!PathsAssumption /\ Hostile!BoundsAssumption /\ Hostile!FlagsAssumption
BY PathsAssumption, BoundsAssumption, FlagsAssumption
   DEF Hostile!PathsAssumption, Hostile!BoundsAssumption, Hostile!FlagsAssumption

\* In neither log does a backfill go back over a section it has done or move the
\* section's end; and the log about which everything may fail keeps its types and
\* one row per line (backfillPlainFile, setFileState, saveState, loadState).
THEOREM NeverBackHolds == BothSpec => NeverBack
<1>1. BothSpec => BackfillForward
  BY FirstLog, FillsForward, PTL
<1>2. BothSpec => Hostile!BackfillForward
  BY SecondLog, SecondAssumptions, Hostile!FillsForward, PTL
<1>3. BothSpec => []Hostile!TypeOK
  BY SecondLog, SecondAssumptions, Hostile!TypeCorrect, PTL
<1>4. BothSpec => []Hostile!NoDuplicateRows
  BY SecondLog, SecondAssumptions, Hostile!NoDuplicates, PTL
<1> QED BY <1>1, <1>2, <1>3, <1>4, PTL DEF NeverBack
=============================================================================
