--------------------------- MODULE ServicesProofs ---------------------------
(***************************************************************************)
(* Proofs about Services: what ParseGate promises, for any number of goroutines *)
(* and sites; what LogsExport does, for any jobs, rows, pages and forms of queries; *)
(* what RemoteTarget does, for any lines, batches and web servers; and what Notices  *)
(* does, for any fingerprints, ingesters, channels and users: each through the      *)
(* faults, crashes and restarts that its model has, and then all in one behaviour.  *)
(***************************************************************************)
EXTENDS Services, FiniteSetTheorems, WellFoundedInduction, TLAPS

----------------------------------------------------------------------------
(* THE GATE                                                                  *)

(* The scan that holds the gate, unless it is a range reparse, marks every   *)
(* site it still has to visit; so whatever is not parsed while a periodic    *)
(* scan waits for the gate will be when the gate is free.                    *)
Covers(v) == pc[v] \in {"total", "sites"} /\ kind[v] # "range"

PeriodicCovered ==
  \A w \in Workers :
    /\ pc[w] = "clear" => w \in Reparsers
    /\ pc[w] # "idle" /\ w \in Reparsers => want[w] = "reparse"
    /\ pc[w] = "start" /\ want[w] = "periodic" =>
         \A s \in ids[w] \ initialParsed :
           \E v \in Workers : Covers(v) /\ s \in ids[v]
    /\ pc[w] = "total" /\ want[w] = "periodic" => ids[w] \subseteq initialParsed

USE WorkersAssumption, NoSiteAssumption, MaxBytesAssumption

(* The initial states satisfy the type invariant.                           *)
LEMMA InitType == Init => TypeOK
<1> SUFFICES ASSUME Init PROVE TypeOK
  OBVIOUS
<1>1. total \in 0..MaxBytes /\ processed \in 0..MaxBytes
  BY DEF Init
<1>2. /\ parsingMode \in Modes
      /\ parsingWebsiteID \in Sites \cup {NoSite}
      /\ currentStage \in Stages
      /\ ipGeoRunning \in BOOLEAN
      /\ initialParsed \in SUBSET Sites
  BY DEF Init, Modes, Stages
<1>3. /\ pc \in [Workers -> PCs]
      /\ want \in [Workers -> Stages]
      /\ kind \in [Workers -> Kinds]
      /\ ids \in [Workers -> SUBSET Sites]
  BY DEF Init, Stages, Kinds, PCs
<1> QED BY <1>1, <1>2, <1>3 DEF TypeOK

(* Every step keeps the variables in their types.                           *)
LEMMA StepType == TypeOK /\ [Next]_vars => TypeOK'
<1> SUFFICES ASSUME TypeOK, [Next]_vars PROVE TypeOK'
  OBVIOUS
<1> USE DEF TypeOK, Modes, Stages, Kinds, PCs, Scanning, Releasing
<1>1. CASE UNCHANGED vars
  BY <1>1 DEF vars, statusVars, workVars
<1>2. ASSUME NEW w \in Workers, Call(w) PROVE TypeOK'
  <2>1. CASE ChooseStage(w)
    BY <2>1 DEF ChooseStage, Goto, statusVars
  <2>2. ASSUME NEW k \in {"reparse", "range"}, NEW S \in SUBSET Sites,
               RequestReparse(w, k, S)
        PROVE TypeOK'
    BY <2>2 DEF RequestReparse, Goto, statusVars
  <2>3. CASE CallResolver(w)
    BY <2>3 DEF CallResolver, Goto, statusVars, workVars
  <2> QED BY <1>2, <2>1, <2>2, <2>3 DEF Call
<1>3. ASSUME NEW w \in Workers, Run(w) PROVE TypeOK'
  <2> USE DEF Goto, statusVars, workVars
  <2>1. CASE StartScan(w)       BY <2>1 DEF StartScan
  <2>2. CASE ScanRefused(w)     BY <2>2 DEF ScanRefused
  <2>3. CASE ClearForReparse(w) BY <2>3 DEF ClearForReparse
  <2>4. CASE ClearFails(w)      BY <2>4 DEF ClearFails
  <2>5. ASSUME NEW n \in 0..MaxBytes, SetTotal(w, n) PROVE TypeOK'
    BY <2>5 DEF SetTotal
  <2>6. ASSUME NEW s \in Sites, BeginSite(w, s) PROVE TypeOK'
    BY <2>6 DEF BeginSite
  <2>7. CASE EndScan(w)          BY <2>7 DEF EndScan
  <2>8. CASE ReleaseGate(w)      BY <2>8 DEF ReleaseGate
  <2>9. CASE ResetStage(w)       BY <2>9 DEF ResetStage
  <2>10. CASE FinalizeProgress(w) BY <2>10 DEF FinalizeProgress
  <2>11. CASE StartBackfill(w)   BY <2>11 DEF StartBackfill
  <2>12. CASE BackfillRefused(w) BY <2>12 DEF BackfillRefused
  <2>13. CASE FinishBackfill(w)  BY <2>13 DEF FinishBackfill
  <2>14. CASE TestParsing(w)     BY <2>14 DEF TestParsing
  <2>15. CASE StartIPGeo(w)      BY <2>15 DEF StartIPGeo
  <2>16. CASE FinishIPGeo(w)     BY <2>16 DEF FinishIPGeo
  <2> QED
    BY <1>3, <2>1, <2>2, <2>3, <2>4, <2>5, <2>6, <2>7, <2>8, <2>9, <2>10,
       <2>11, <2>12, <2>13, <2>14, <2>15, <2>16 DEF Run
<1>4. ASSUME NEW w \in Workers, NEW d \in 1..MaxBytes, AddProgress(w, d)
      PROVE TypeOK'
  BY <1>4, SMTT(30) DEF AddProgress, workVars
<1> QED BY <1>1, <1>2, <1>3, <1>4 DEF Next

(* Type correctness: every variable of the gate stays in its type, for any   *)
(* number of goroutines and sites.                                          *)
THEOREM TypeCorrect == Spec => []TypeOK
  BY InitType, StepType, PTL DEF Spec
(* A start needs a free gate and a release frees it, so the holder stays    *)
(* the only one.                                                           *)
LEMMA StepGate == TypeOK /\ GateExclusive /\ [Next]_vars => GateExclusive'
<1> SUFFICES ASSUME TypeOK, GateExclusive, [Next]_vars PROVE GateExclusive'
  OBVIOUS
<1> USE DEF TypeOK, GateExclusive, Holds, Modes, PCs, Scanning, Releasing
<1>1. CASE UNCHANGED vars
  BY <1>1 DEF vars, statusVars, workVars
<1>2. ASSUME NEW w \in Workers, Call(w) PROVE GateExclusive'
  <2> USE DEF Goto, statusVars, workVars
  <2>1. CASE ChooseStage(w)
    BY <2>1 DEF ChooseStage
  <2>2. ASSUME NEW k \in {"reparse", "range"}, NEW S \in SUBSET Sites,
               RequestReparse(w, k, S)
        PROVE GateExclusive'
    BY <2>2 DEF RequestReparse
  <2>3. CASE CallResolver(w)
    BY <2>3 DEF CallResolver
  <2> QED BY <1>2, <2>1, <2>2, <2>3 DEF Call
<1>3. ASSUME NEW w \in Workers, Run(w) PROVE GateExclusive'
  <2> USE DEF Goto, statusVars, workVars
  <2>1. CASE StartScan(w)
    BY <2>1 DEF StartScan
  <2>2. CASE ScanRefused(w)
    BY <2>2 DEF ScanRefused
  <2>3. CASE ClearForReparse(w)
    BY <2>3 DEF ClearForReparse
  <2>4. CASE ClearFails(w)
    BY <2>4 DEF ClearFails
  <2>5. ASSUME NEW n \in 0..MaxBytes, SetTotal(w, n) PROVE GateExclusive'
    BY <2>5 DEF SetTotal
  <2>6. ASSUME NEW s \in Sites, BeginSite(w, s) PROVE GateExclusive'
    BY <2>6 DEF BeginSite
  <2>7. CASE EndScan(w)
    BY <2>7 DEF EndScan
  <2>8. CASE ReleaseGate(w)
    BY <2>8 DEF ReleaseGate
  <2>9. CASE ResetStage(w)
    BY <2>9 DEF ResetStage
  <2>10. CASE FinalizeProgress(w)
    BY <2>10 DEF FinalizeProgress
  <2>11. CASE StartBackfill(w)
    BY <2>11 DEF StartBackfill
  <2>12. CASE BackfillRefused(w)
    BY <2>12 DEF BackfillRefused
  <2>13. CASE FinishBackfill(w)
    BY <2>13 DEF FinishBackfill
  <2>14. CASE TestParsing(w)
    BY <2>14 DEF TestParsing
  <2>15. CASE StartIPGeo(w)
    BY <2>15 DEF StartIPGeo
  <2>16. CASE FinishIPGeo(w)
    BY <2>16 DEF FinishIPGeo
  <2> QED
    BY <1>3, <2>1, <2>2, <2>3, <2>4, <2>5, <2>6, <2>7, <2>8,
       <2>9, <2>10, <2>11, <2>12, <2>13, <2>14, <2>15, <2>16 DEF Run
<1>4. ASSUME NEW w \in Workers, NEW d \in 1..MaxBytes, AddProgress(w, d)
      PROVE GateExclusive'
  BY <1>4 DEF AddProgress, workVars
<1> QED BY <1>1, <1>2, <1>3, <1>4 DEF Next

(* Only the holder sets a stage while it scans; whoever else writes it      *)
(* writes none.                                                            *)
LEMMA StepStage == TypeOK /\ GateExclusive /\ StageOfHolder /\ [Next]_vars => StageOfHolder'
<1> SUFFICES ASSUME TypeOK, GateExclusive, StageOfHolder, [Next]_vars PROVE StageOfHolder'
  OBVIOUS
<1> USE DEF TypeOK, GateExclusive, Holds, StageOfHolder, Stages, PCs, Scanning, Releasing
<1>1. CASE UNCHANGED vars
  BY <1>1 DEF vars, statusVars, workVars
<1>2. ASSUME NEW w \in Workers, Call(w) PROVE StageOfHolder'
  <2> USE DEF Goto, statusVars, workVars
  <2>1. CASE ChooseStage(w)
    BY <2>1 DEF ChooseStage
  <2>2. ASSUME NEW k \in {"reparse", "range"}, NEW S \in SUBSET Sites,
               RequestReparse(w, k, S)
        PROVE StageOfHolder'
    BY <2>2 DEF RequestReparse
  <2>3. CASE CallResolver(w)
    BY <2>3 DEF CallResolver
  <2> QED BY <1>2, <2>1, <2>2, <2>3 DEF Call
<1>3. ASSUME NEW w \in Workers, Run(w) PROVE StageOfHolder'
  <2> USE DEF Goto, statusVars, workVars
  <2>1. CASE StartScan(w)
    BY <2>1 DEF StartScan
  <2>2. CASE ScanRefused(w)
    BY <2>2 DEF ScanRefused
  <2>3. CASE ClearForReparse(w)
    BY <2>3 DEF ClearForReparse
  <2>4. CASE ClearFails(w)
    BY <2>4 DEF ClearFails
  <2>5. ASSUME NEW n \in 0..MaxBytes, SetTotal(w, n) PROVE StageOfHolder'
    BY <2>5 DEF SetTotal
  <2>6. ASSUME NEW s \in Sites, BeginSite(w, s) PROVE StageOfHolder'
    BY <2>6 DEF BeginSite
  <2>7. CASE EndScan(w)
    BY <2>7 DEF EndScan
  <2>8. CASE ReleaseGate(w)
    BY <2>8 DEF ReleaseGate
  <2>9. CASE ResetStage(w)
    BY <2>9 DEF ResetStage
  <2>10. CASE FinalizeProgress(w)
    BY <2>10 DEF FinalizeProgress
  <2>11. CASE StartBackfill(w)
    BY <2>11 DEF StartBackfill
  <2>12. CASE BackfillRefused(w)
    BY <2>12 DEF BackfillRefused
  <2>13. CASE FinishBackfill(w)
    BY <2>13 DEF FinishBackfill
  <2>14. CASE TestParsing(w)
    BY <2>14 DEF TestParsing
  <2>15. CASE StartIPGeo(w)
    BY <2>15 DEF StartIPGeo
  <2>16. CASE FinishIPGeo(w)
    BY <2>16 DEF FinishIPGeo
  <2> QED
    BY <1>3, <2>1, <2>2, <2>3, <2>4, <2>5, <2>6, <2>7, <2>8,
       <2>9, <2>10, <2>11, <2>12, <2>13, <2>14, <2>15, <2>16 DEF Run
<1>4. ASSUME NEW w \in Workers, NEW d \in 1..MaxBytes, AddProgress(w, d)
      PROVE StageOfHolder'
  BY <1>4 DEF AddProgress, workVars
<1> QED BY <1>1, <1>2, <1>3, <1>4 DEF Next

(* The worker whose stage is shown still has its own reset to do.           *)
LEMMA StepStale == TypeOK /\ NoStaleStage /\ [Next]_vars => NoStaleStage'
<1> SUFFICES ASSUME TypeOK, NoStaleStage, [Next]_vars PROVE NoStaleStage'
  OBVIOUS
<1> USE DEF TypeOK, NoStaleStage, Stages, PCs, Scanning, Releasing
<1>1. CASE UNCHANGED vars
  BY <1>1 DEF vars, statusVars, workVars
<1>2. ASSUME NEW w \in Workers, Call(w) PROVE NoStaleStage'
  <2> USE DEF Goto, statusVars, workVars
  <2>1. CASE ChooseStage(w)
    BY <2>1 DEF ChooseStage
  <2>2. ASSUME NEW k \in {"reparse", "range"}, NEW S \in SUBSET Sites,
               RequestReparse(w, k, S)
        PROVE NoStaleStage'
    BY <2>2 DEF RequestReparse
  <2>3. CASE CallResolver(w)
    BY <2>3 DEF CallResolver
  <2> QED BY <1>2, <2>1, <2>2, <2>3 DEF Call
<1>3. ASSUME NEW w \in Workers, Run(w) PROVE NoStaleStage'
  <2> USE DEF Goto, statusVars, workVars
  <2>1. CASE StartScan(w)
    BY <2>1 DEF StartScan
  <2>2. CASE ScanRefused(w)
    BY <2>2 DEF ScanRefused
  <2>3. CASE ClearForReparse(w)
    BY <2>3 DEF ClearForReparse
  <2>4. CASE ClearFails(w)
    BY <2>4 DEF ClearFails
  <2>5. ASSUME NEW n \in 0..MaxBytes, SetTotal(w, n) PROVE NoStaleStage'
    BY <2>5 DEF SetTotal
  <2>6. ASSUME NEW s \in Sites, BeginSite(w, s) PROVE NoStaleStage'
    BY <2>6 DEF BeginSite
  <2>7. CASE EndScan(w)
    BY <2>7 DEF EndScan
  <2>8. CASE ReleaseGate(w)
    BY <2>8 DEF ReleaseGate
  <2>9. CASE ResetStage(w)
    BY <2>9 DEF ResetStage
  <2>10. CASE FinalizeProgress(w)
    BY <2>10 DEF FinalizeProgress
  <2>11. CASE StartBackfill(w)
    BY <2>11 DEF StartBackfill
  <2>12. CASE BackfillRefused(w)
    BY <2>12 DEF BackfillRefused
  <2>13. CASE FinishBackfill(w)
    BY <2>13 DEF FinishBackfill
  <2>14. CASE TestParsing(w)
    BY <2>14 DEF TestParsing
  <2>15. CASE StartIPGeo(w)
    BY <2>15 DEF StartIPGeo
  <2>16. CASE FinishIPGeo(w)
    BY <2>16 DEF FinishIPGeo
  <2> QED
    BY <1>3, <2>1, <2>2, <2>3, <2>4, <2>5, <2>6, <2>7, <2>8,
       <2>9, <2>10, <2>11, <2>12, <2>13, <2>14, <2>15, <2>16 DEF Run
<1>4. ASSUME NEW w \in Workers, NEW d \in 1..MaxBytes, AddProgress(w, d)
      PROVE NoStaleStage'
  BY <1>4 DEF AddProgress, workVars
<1> QED BY <1>1, <1>2, <1>3, <1>4 DEF Next

(* The site shown was taken off the list of the worker that shows it.       *)
LEMMA StepSite == TypeOK /\ SiteOfHolder /\ [Next]_vars => SiteOfHolder'
<1> SUFFICES ASSUME TypeOK, SiteOfHolder, [Next]_vars PROVE SiteOfHolder'
  OBVIOUS
<1> USE DEF TypeOK, SiteOfHolder, PCs, Scanning, Releasing
<1>1. CASE UNCHANGED vars
  BY <1>1 DEF vars, statusVars, workVars
<1>2. ASSUME NEW w \in Workers, Call(w) PROVE SiteOfHolder'
  <2> USE DEF Goto, statusVars, workVars
  <2>1. CASE ChooseStage(w)
    BY <2>1 DEF ChooseStage
  <2>2. ASSUME NEW k \in {"reparse", "range"}, NEW S \in SUBSET Sites,
               RequestReparse(w, k, S)
        PROVE SiteOfHolder'
    BY <2>2 DEF RequestReparse
  <2>3. CASE CallResolver(w)
    BY <2>3 DEF CallResolver
  <2> QED BY <1>2, <2>1, <2>2, <2>3 DEF Call
<1>3. ASSUME NEW w \in Workers, Run(w) PROVE SiteOfHolder'
  <2> USE DEF Goto, statusVars, workVars
  <2>1. CASE StartScan(w)
    BY <2>1 DEF StartScan
  <2>2. CASE ScanRefused(w)
    BY <2>2 DEF ScanRefused
  <2>3. CASE ClearForReparse(w)
    BY <2>3 DEF ClearForReparse
  <2>4. CASE ClearFails(w)
    BY <2>4 DEF ClearFails
  <2>5. ASSUME NEW n \in 0..MaxBytes, SetTotal(w, n) PROVE SiteOfHolder'
    BY <2>5 DEF SetTotal
  <2>6. ASSUME NEW s \in Sites, BeginSite(w, s) PROVE SiteOfHolder'
    BY <2>6 DEF BeginSite
  <2>7. CASE EndScan(w)
    BY <2>7 DEF EndScan
  <2>8. CASE ReleaseGate(w)
    BY <2>8 DEF ReleaseGate
  <2>9. CASE ResetStage(w)
    BY <2>9 DEF ResetStage
  <2>10. CASE FinalizeProgress(w)
    BY <2>10 DEF FinalizeProgress
  <2>11. CASE StartBackfill(w)
    BY <2>11 DEF StartBackfill
  <2>12. CASE BackfillRefused(w)
    BY <2>12 DEF BackfillRefused
  <2>13. CASE FinishBackfill(w)
    BY <2>13 DEF FinishBackfill
  <2>14. CASE TestParsing(w)
    BY <2>14 DEF TestParsing
  <2>15. CASE StartIPGeo(w)
    BY <2>15 DEF StartIPGeo
  <2>16. CASE FinishIPGeo(w)
    BY <2>16 DEF FinishIPGeo
  <2> QED
    BY <1>3, <2>1, <2>2, <2>3, <2>4, <2>5, <2>6, <2>7, <2>8,
       <2>9, <2>10, <2>11, <2>12, <2>13, <2>14, <2>15, <2>16 DEF Run
<1>4. ASSUME NEW w \in Workers, NEW d \in 1..MaxBytes, AddProgress(w, d)
      PROVE SiteOfHolder'
  BY <1>4 DEF AddProgress, workVars
<1> QED BY <1>1, <1>2, <1>3, <1>4 DEF Next

(* The sites a full reparse takes out of InitialParsed are the sites that  *)
(* its own scan, which must come first, puts back.                         *)
LEMMA StepPeriodic == TypeOK /\ GateExclusive /\ PeriodicCovered /\ [Next]_vars => PeriodicCovered'
<1> SUFFICES ASSUME TypeOK, GateExclusive, PeriodicCovered, [Next]_vars PROVE PeriodicCovered'
  OBVIOUS
<1> USE DEF TypeOK, GateExclusive, Holds, PeriodicCovered, Covers, PCs, Scanning, Releasing
<1>1. CASE UNCHANGED vars
  BY <1>1 DEF vars, statusVars, workVars
<1>2. ASSUME NEW w \in Workers, Call(w) PROVE PeriodicCovered'
  <2> USE DEF Goto, statusVars, workVars
  <2>1. CASE ChooseStage(w)
    BY <2>1 DEF ChooseStage
  <2>2. ASSUME NEW k \in {"reparse", "range"}, NEW S \in SUBSET Sites,
               RequestReparse(w, k, S)
        PROVE PeriodicCovered'
    BY <2>2 DEF RequestReparse
  <2>3. CASE CallResolver(w)
    BY <2>3 DEF CallResolver
  <2> QED BY <1>2, <2>1, <2>2, <2>3 DEF Call
<1>3. ASSUME NEW w \in Workers, Run(w) PROVE PeriodicCovered'
  <2> USE DEF Goto, statusVars, workVars
  <2>1. CASE StartScan(w)
    BY <2>1 DEF StartScan
  <2>2. CASE ScanRefused(w)
    BY <2>2 DEF ScanRefused
  <2>3. CASE ClearForReparse(w)
    <3> SUFFICES ASSUME NEW v \in Workers PROVE PeriodicCovered!(v)'
      BY DEF PeriodicCovered
    <3>1. Covers(w)' \/ initialParsed' = initialParsed
      BY <2>3 DEF ClearForReparse, Covers
    <3>2. /\ ids' = ids /\ want' = want
          /\ initialParsed \ initialParsed' \subseteq ids[w]
          /\ \A x \in Workers : Covers(x) => Covers(x)'
      BY <2>3 DEF ClearForReparse, Covers
    <3>3. pc'[v] = "start" => pc[v] = "start"
      BY <2>3 DEF ClearForReparse
    <3>4. pc'[v] = "total" => want[v] # "periodic"
      <4>1. pc[w] = "clear" /\ want[w] = "reparse"
        BY <2>3 DEF ClearForReparse
      <4>2. pc'[v] = "total" => v = w
        BY <2>3 DEF ClearForReparse
      <4> QED BY <4>1, <4>2
    <3>5. /\ pc'[v] # "clear"
          /\ pc'[v] # "idle" => pc[v] # "idle"
      BY <2>3 DEF ClearForReparse
    <3> QED BY <3>1, <3>2, <3>3, <3>4, <3>5
  <2>4. CASE ClearFails(w)
    BY <2>4 DEF ClearFails
  <2>5. ASSUME NEW n \in 0..MaxBytes, SetTotal(w, n) PROVE PeriodicCovered'
    BY <2>5 DEF SetTotal
  <2>6. ASSUME NEW s \in Sites, BeginSite(w, s) PROVE PeriodicCovered'
    BY <2>6 DEF BeginSite
  <2>7. CASE EndScan(w)
    BY <2>7 DEF EndScan
  <2>8. CASE ReleaseGate(w)
    BY <2>8 DEF ReleaseGate
  <2>9. CASE ResetStage(w)
    BY <2>9 DEF ResetStage
  <2>10. CASE FinalizeProgress(w)
    BY <2>10 DEF FinalizeProgress
  <2>11. CASE StartBackfill(w)
    BY <2>11 DEF StartBackfill
  <2>12. CASE BackfillRefused(w)
    BY <2>12 DEF BackfillRefused
  <2>13. CASE FinishBackfill(w)
    BY <2>13 DEF FinishBackfill
  <2>14. CASE TestParsing(w)
    BY <2>14 DEF TestParsing
  <2>15. CASE StartIPGeo(w)
    BY <2>15 DEF StartIPGeo
  <2>16. CASE FinishIPGeo(w)
    BY <2>16 DEF FinishIPGeo
  <2> QED
    BY <1>3, <2>1, <2>2, <2>3, <2>4, <2>5, <2>6, <2>7, <2>8,
       <2>9, <2>10, <2>11, <2>12, <2>13, <2>14, <2>15, <2>16 DEF Run
<1>4. ASSUME NEW w \in Workers, NEW d \in 1..MaxBytes, AddProgress(w, d)
      PROVE PeriodicCovered'
  BY <1>4 DEF AddProgress, workVars
<1> QED BY <1>1, <1>2, <1>3, <1>4 DEF Next

(* Each of the writers of the progress clamps it to the total.              *)
LEMMA StepBounded == TypeOK /\ ProgressBounded /\ [Next]_vars => ProgressBounded'
<1> SUFFICES ASSUME TypeOK, ProgressBounded, [Next]_vars PROVE ProgressBounded'
  OBVIOUS
<1> USE DEF TypeOK, ProgressBounded
<1>1. CASE UNCHANGED vars
  BY <1>1 DEF vars, statusVars, workVars
<1>2. ASSUME NEW w \in Workers, Call(w) PROVE ProgressBounded'
  <2> USE DEF Goto, statusVars, workVars
  <2>1. CASE ChooseStage(w)
    BY <2>1 DEF ChooseStage
  <2>2. ASSUME NEW k \in {"reparse", "range"}, NEW S \in SUBSET Sites,
               RequestReparse(w, k, S)
        PROVE ProgressBounded'
    BY <2>2 DEF RequestReparse
  <2>3. CASE CallResolver(w)
    BY <2>3 DEF CallResolver
  <2> QED BY <1>2, <2>1, <2>2, <2>3 DEF Call
<1>3. ASSUME NEW w \in Workers, Run(w) PROVE ProgressBounded'
  <2> USE DEF Goto, statusVars, workVars
  <2>1. CASE StartScan(w)
    BY <2>1 DEF StartScan
  <2>2. CASE ScanRefused(w)
    BY <2>2 DEF ScanRefused
  <2>3. CASE ClearForReparse(w)
    BY <2>3 DEF ClearForReparse
  <2>4. CASE ClearFails(w)
    BY <2>4 DEF ClearFails
  <2>5. ASSUME NEW n \in 0..MaxBytes, SetTotal(w, n) PROVE ProgressBounded'
    BY <2>5 DEF SetTotal
  <2>6. ASSUME NEW s \in Sites, BeginSite(w, s) PROVE ProgressBounded'
    BY <2>6 DEF BeginSite
  <2>7. CASE EndScan(w)
    BY <2>7 DEF EndScan
  <2>8. CASE ReleaseGate(w)
    BY <2>8 DEF ReleaseGate
  <2>9. CASE ResetStage(w)
    BY <2>9 DEF ResetStage
  <2>10. CASE FinalizeProgress(w)
    BY <2>10 DEF FinalizeProgress
  <2>11. CASE StartBackfill(w)
    BY <2>11 DEF StartBackfill
  <2>12. CASE BackfillRefused(w)
    BY <2>12 DEF BackfillRefused
  <2>13. CASE FinishBackfill(w)
    BY <2>13 DEF FinishBackfill
  <2>14. CASE TestParsing(w)
    BY <2>14 DEF TestParsing
  <2>15. CASE StartIPGeo(w)
    BY <2>15 DEF StartIPGeo
  <2>16. CASE FinishIPGeo(w)
    BY <2>16 DEF FinishIPGeo
  <2> QED
    BY <1>3, <2>1, <2>2, <2>3, <2>4, <2>5, <2>6, <2>7, <2>8,
       <2>9, <2>10, <2>11, <2>12, <2>13, <2>14, <2>15, <2>16 DEF Run
<1>4. ASSUME NEW w \in Workers, NEW d \in 1..MaxBytes, AddProgress(w, d)
      PROVE ProgressBounded'
  BY <1>4 DEF AddProgress, workVars
<1> QED BY <1>1, <1>2, <1>3, <1>4 DEF Next

(* Testing and setting the flag of the IP geo worker is one step.           *)
LEMMA StepResolver == TypeOK /\ OneResolver /\ [Next]_vars => OneResolver'
<1> SUFFICES ASSUME TypeOK, OneResolver, [Next]_vars PROVE OneResolver'
  OBVIOUS
<1> USE DEF TypeOK, OneResolver, PCs, Scanning, Releasing
<1>1. CASE UNCHANGED vars
  BY <1>1 DEF vars, statusVars, workVars
<1>2. ASSUME NEW w \in Workers, Call(w) PROVE OneResolver'
  <2> USE DEF Goto, statusVars, workVars
  <2>1. CASE ChooseStage(w)
    BY <2>1 DEF ChooseStage
  <2>2. ASSUME NEW k \in {"reparse", "range"}, NEW S \in SUBSET Sites,
               RequestReparse(w, k, S)
        PROVE OneResolver'
    BY <2>2 DEF RequestReparse
  <2>3. CASE CallResolver(w)
    BY <2>3 DEF CallResolver
  <2> QED BY <1>2, <2>1, <2>2, <2>3 DEF Call
<1>3. ASSUME NEW w \in Workers, Run(w) PROVE OneResolver'
  <2> USE DEF Goto, statusVars, workVars
  <2>1. CASE StartScan(w)
    BY <2>1 DEF StartScan
  <2>2. CASE ScanRefused(w)
    BY <2>2 DEF ScanRefused
  <2>3. CASE ClearForReparse(w)
    BY <2>3 DEF ClearForReparse
  <2>4. CASE ClearFails(w)
    BY <2>4 DEF ClearFails
  <2>5. ASSUME NEW n \in 0..MaxBytes, SetTotal(w, n) PROVE OneResolver'
    BY <2>5 DEF SetTotal
  <2>6. ASSUME NEW s \in Sites, BeginSite(w, s) PROVE OneResolver'
    BY <2>6 DEF BeginSite
  <2>7. CASE EndScan(w)
    BY <2>7 DEF EndScan
  <2>8. CASE ReleaseGate(w)
    BY <2>8 DEF ReleaseGate
  <2>9. CASE ResetStage(w)
    BY <2>9 DEF ResetStage
  <2>10. CASE FinalizeProgress(w)
    BY <2>10 DEF FinalizeProgress
  <2>11. CASE StartBackfill(w)
    BY <2>11 DEF StartBackfill
  <2>12. CASE BackfillRefused(w)
    BY <2>12 DEF BackfillRefused
  <2>13. CASE FinishBackfill(w)
    BY <2>13 DEF FinishBackfill
  <2>14. CASE TestParsing(w)
    BY <2>14 DEF TestParsing
  <2>15. CASE StartIPGeo(w)
    BY <2>15 DEF StartIPGeo
  <2>16. CASE FinishIPGeo(w)
    BY <2>16 DEF FinishIPGeo
  <2> QED
    BY <1>3, <2>1, <2>2, <2>3, <2>4, <2>5, <2>6, <2>7, <2>8,
       <2>9, <2>10, <2>11, <2>12, <2>13, <2>14, <2>15, <2>16 DEF Run
<1>4. ASSUME NEW w \in Workers, NEW d \in 1..MaxBytes, AddProgress(w, d)
      PROVE OneResolver'
  BY <1>4 DEF AddProgress, workVars
<1> QED BY <1>1, <1>2, <1>3, <1>4 DEF Next

IndInv ==
  /\ TypeOK
  /\ GateExclusive
  /\ StageOfHolder
  /\ NoStaleStage
  /\ SiteOfHolder
  /\ PeriodicCovered
  /\ ProgressBounded
  /\ OneResolver

(* The initial states satisfy the inductive invariant.                      *)
LEMMA InitInd == Init => IndInv
<1> SUFFICES ASSUME Init PROVE IndInv
  OBVIOUS
<1>1. TypeOK
  BY InitType
<1>2. \A w \in Workers : pc[w] = "idle"
  BY DEF Init
<1>3. parsingMode = "none" /\ currentStage = "none" /\ parsingWebsiteID = NoSite
      /\ total = 0 /\ ipGeoRunning = FALSE
  BY DEF Init
<1>4. GateExclusive /\ StageOfHolder /\ OneResolver
  BY <1>2, <1>3 DEF GateExclusive, StageOfHolder, OneResolver, Holds, Scanning
<1>5. NoStaleStage /\ SiteOfHolder /\ PeriodicCovered
  BY <1>2, <1>3 DEF NoStaleStage, SiteOfHolder, PeriodicCovered
<1>6. ProgressBounded
  BY <1>3 DEF ProgressBounded
<1> QED BY <1>1, <1>4, <1>5, <1>6 DEF IndInv

(* Every step keeps it.                                                     *)
LEMMA StepInd == IndInv /\ [Next]_vars => IndInv'
  BY StepType, StepGate, StepStage, StepStale, StepSite, StepPeriodic,
     StepBounded, StepResolver DEF IndInv

LEMMA Inductive == Spec => []IndInv
  BY InitInd, StepInd, PTL DEF Spec

(* The gates exclude: one scan, reparse or backfill at a time, and one IP    *)
(* geo worker, and neither gate is left set without a holder                *)
(* (startIPParsingWithStage, startBackfillParsing, startIPGeoParsing and    *)
(* their ends).                                                             *)
THEOREM GatesExcluded == Spec => []GatesExclude
<1>1. IndInv => GatesExclude
  BY DEF IndInv, GatesExclude
<1> QED BY <1>1, Inductive, PTL

(* What the status shows is never another scan's: the stage shown while a    *)
(* scan runs is its own or none, no stage outlives its scan, although        *)
(* finishIPParsing resets it after the unlock, the site shown has been       *)
(* begun, and the progress stays at or below its total.                      *)
THEOREM StatusShown == Spec => []StatusTrue
<1>1. IndInv => StatusTrue
  BY DEF IndInv, StatusTrue
<1> QED BY <1>1, Inductive, PTL

(* A scan started as periodic is never the first parse of a site, though    *)
(* hasUnparsedWebsite ran before the gate was taken.                        *)
THEOREM PeriodicNotFirst == Spec => []PeriodicIsNotFirst
<1>1. IndInv => PeriodicIsNotFirst
  BY DEF IndInv, PeriodicCovered, PeriodicIsNotFirst
<1> QED BY <1>1, Inductive, PTL

HIDE MaxBytesAssumption
HIDE NoSiteAssumption
HIDE WorkersAssumption

----------------------------------------------------------------------------
(* RANKS AND PAGES                                                           *)

\* A set of rows that can be listed.
Rows(R) == R \subseteq Int /\ IsFiniteSet(R)

\* A rank is at most the number of rows, and less for a row of the set.
LEMMA RankNat ==
  ASSUME NEW R, Rows(R), NEW asc \in BOOLEAN, NEW r
  PROVE  /\ Rank(r, R, asc) \in Nat /\ Cardinality(R) \in Nat
         /\ Rank(r, R, asc) <= Cardinality(R)
         /\ r \in R => Rank(r, R, asc) < Cardinality(R)
<1> DEFINE B == {q \in R : Precedes(q, r, asc)}
<1>1. IsFiniteSet(B) /\ Cardinality(B) <= Cardinality(R) /\ (Cardinality(B) = Cardinality(R) => B = R)
  BY FS_Subset DEF Rows
<1>2. r \in R => r \notin B
  BY DEF Precedes, Rows
<1>3. Rank(r, R, asc) = Cardinality(B)
  BY DEF Rank
<1> HIDE DEF B
<1>4. Cardinality(B) \in Nat /\ Cardinality(R) \in Nat
  BY <1>1, FS_CardinalityType DEF Rows
<1> QED BY <1>1, <1>2, <1>3, <1>4

\* The rows before a row have smaller ranks.
LEMMA RankOrder ==
  ASSUME NEW R, Rows(R), NEW asc \in BOOLEAN, NEW q \in R, NEW r \in R, Precedes(q, r, asc)
  PROVE  Rank(q, R, asc) < Rank(r, R, asc)
<1> DEFINE B == {p \in R : Precedes(p, q, asc)}
           C == {p \in R : Precedes(p, r, asc)}
<1>1. IsFiniteSet(C) /\ IsFiniteSet(B)
  BY FS_Subset DEF Rows
<1>2. B \subseteq C /\ q \in C /\ q \notin B
  <2>1. \A p \in R : Precedes(p, q, asc) => Precedes(p, r, asc)
    BY DEF Precedes, Rows
  <2>2. ~Precedes(q, q, asc)
    BY DEF Precedes, Rows
  <2> QED BY <2>1, <2>2
<1>3. Rank(q, R, asc) = Cardinality(B) /\ Rank(r, R, asc) = Cardinality(C)
  BY DEF Rank
<1> HIDE DEF B, C
<1>4. Cardinality(B) <= Cardinality(C) /\ Cardinality(B) # Cardinality(C)
  BY <1>1, <1>2, FS_Subset
<1>5. Cardinality(B) \in Nat /\ Cardinality(C) \in Nat
  BY <1>1, FS_CardinalityType
<1> QED BY <1>3, <1>4, <1>5

LEMMA RanksDiffer ==
  ASSUME NEW R, Rows(R), NEW asc \in BOOLEAN, NEW q \in R, NEW r \in R
  PROVE  /\ Rank(q, R, asc) = Rank(r, R, asc) => q = r
         /\ Rank(q, R, asc) < Rank(r, R, asc) <=> Precedes(q, r, asc)
<1>1. q = r \/ Precedes(q, r, asc) \/ Precedes(r, q, asc)
  BY DEF Rows, Precedes
<1>2. Precedes(q, r, asc) => Rank(q, R, asc) < Rank(r, R, asc)
  BY RankOrder
<1>3. Precedes(r, q, asc) => Rank(r, R, asc) < Rank(q, R, asc)
  BY RankOrder
<1>4. Rank(q, R, asc) \in Nat /\ Rank(r, R, asc) \in Nat
  BY RankNat
<1> QED BY <1>1, <1>2, <1>3, <1>4

\* The rows whose ranks are from a to b - 1.
Between(R, asc, a, b) == {r \in R : a <= Rank(r, R, asc) /\ Rank(r, R, asc) < b}

LEMMA BetweenBound ==
  ASSUME NEW R, Rows(R), NEW asc \in BOOLEAN, NEW a \in Nat, NEW b \in Nat, a <= b
  PROVE  /\ IsFiniteSet(Between(R, asc, a, b))
         /\ Cardinality(Between(R, asc, a, b)) \in Nat
         /\ Cardinality(Between(R, asc, a, b)) <= b - a
<1> DEFINE S == Between(R, asc, a, b)
           T == a..(b - 1)
           f == [r \in S |-> Rank(r, R, asc)]
<1>1. f \in [S -> T]
  BY RankNat DEF Between
<1>2. \A q, r \in S : f[q] = f[r] => q = r
  BY RanksDiffer DEF Between
<1>3. b - 1 \in Int /\ a \in Int
  OBVIOUS
<1>4. IsFiniteSet(T) /\ Cardinality(T) = b - a
  <2>1. IsFiniteSet(T) /\ Cardinality(T) = IF a > b - 1 THEN 0 ELSE (b - 1) - a + 1
    BY <1>3, FS_Interval
  <2> QED BY <2>1
<1> HIDE DEF f, T
<1>5. f \in Injection(S, T)
  BY <1>1, <1>2 DEF Injection, IsInjective
<1>6. IsFiniteSet(S) /\ Cardinality(S) <= b - a
  <2> HIDE DEF S
  <2> QED BY <1>4, <1>5, FS_Injection
<1> HIDE DEF S
<1>7. Cardinality(S) \in Nat
  BY <1>6, FS_CardinalityType
<1> QED BY <1>6, <1>7 DEF S

LEMMA DisjointUnion ==
  ASSUME NEW S, NEW T, IsFiniteSet(S), IsFiniteSet(T), S \cap T = {}
  PROVE  IsFiniteSet(S \cup T) /\ Cardinality(S \cup T) = Cardinality(S) + Cardinality(T)
<1>1. /\ IsFiniteSet(S \cup T)
      /\ Cardinality(S \cup T) = Cardinality(S) + Cardinality(T) - Cardinality(S \cap T)
  BY FS_Union
<1>2. Cardinality(S \cap T) = 0
  BY FS_EmptySet
<1>3. Cardinality(S) \in Nat /\ Cardinality(T) \in Nat
  BY FS_CardinalityType
<1> QED BY <1>1, <1>2, <1>3

\* There is a row of every rank.
LEMMA BetweenCount ==
  ASSUME NEW R, Rows(R), NEW asc \in BOOLEAN, NEW a \in Nat, NEW b \in Nat,
         a <= b, b <= Cardinality(R)
  PROVE  Cardinality(Between(R, asc, a, b)) = b - a
<1> DEFINE n == Cardinality(R)
           A == Between(R, asc, 0, a)
           B == Between(R, asc, a, b)
           C == Between(R, asc, b, n)
<1>1. n \in Nat
  BY FS_CardinalityType DEF Rows
<1>2. R = (A \cup B) \cup C
  BY RankNat DEF Between
<1>3. A \cap B = {} /\ (A \cup B) \cap C = {}
  BY RankNat DEF Between
<1>4. /\ IsFiniteSet(A) /\ Cardinality(A) \in Nat /\ Cardinality(A) <= a
      /\ IsFiniteSet(B) /\ Cardinality(B) \in Nat /\ Cardinality(B) <= b - a
      /\ IsFiniteSet(C) /\ Cardinality(C) \in Nat /\ Cardinality(C) <= n - b
  BY <1>1, BetweenBound
<1> HIDE DEF A, B, C
<1>5. Cardinality(A \cup B) = Cardinality(A) + Cardinality(B) /\ IsFiniteSet(A \cup B)
  BY <1>3, <1>4, DisjointUnion
<1>6. n = Cardinality(A \cup B) + Cardinality(C)
  BY <1>2, <1>3, <1>4, <1>5, DisjointUnion
<1> HIDE DEF n
<1>7. b <= n
  BY DEF n
<1> QED BY <1>1, <1>4, <1>5, <1>6, <1>7 DEF B

LEMMA CutIs ==
  ASSUME NEW R, NEW asc, NEW a, NEW n
  PROVE  Cut(R, asc, a, n) = Between(R, asc, a, a + n)
BY DEF Cut, Between

\* The ranks in a page are those in the listing, counted from its first row.
LEMMA RankInCut ==
  ASSUME NEW R, Rows(R), NEW asc \in BOOLEAN, NEW a \in Nat, NEW n \in Nat,
         NEW r \in Cut(R, asc, a, n)
  PROVE  Rank(r, Cut(R, asc, a, n), asc) = Rank(r, R, asc) - a
<1> DEFINE k == Rank(r, R, asc)
           C == Cut(R, asc, a, n)
           P == {q \in C : Precedes(q, r, asc)}
<1>1. r \in R /\ a <= k /\ k < a + n
  BY DEF Cut
<1>2. k \in Nat /\ Cardinality(R) \in Nat /\ k <= Cardinality(R)
  BY <1>1, RankNat
<1>3. P = Between(R, asc, a, k)
  <2>1. \A q \in R : Rank(q, R, asc) < k <=> Precedes(q, r, asc)
    BY <1>1, RanksDiffer
  <2>2. \A q \in R : Rank(q, R, asc) \in Nat
    BY RankNat
  <2> HIDE DEF k
  <2>3. ASSUME NEW q \in R PROVE q \in P <=> q \in Between(R, asc, a, k)
    <3>1. Rank(q, R, asc) < k <=> Precedes(q, r, asc)
      BY <2>1
    <3>2. Rank(q, R, asc) \in Nat
      BY <2>2
    <3>3. q \in C <=> a <= Rank(q, R, asc) /\ Rank(q, R, asc) < a + n
      BY DEF Cut
    <3>4. q \in Between(R, asc, a, k) <=> a <= Rank(q, R, asc) /\ Rank(q, R, asc) < k
      BY DEF Between
    <3> HIDE DEF C
    <3> QED BY <1>1, <1>2, <3>1, <3>2, <3>3, <3>4
  <2>4. P \subseteq R /\ Between(R, asc, a, k) \subseteq R
    BY DEF Cut, Between
  <2> HIDE DEF P
  <2> QED BY <2>3, <2>4
<1>4. Cardinality(Between(R, asc, a, k)) = k - a
  <2> HIDE DEF k
  <2> QED BY <1>1, <1>2, BetweenCount
<1> QED BY <1>3, <1>4 DEF Rank

LEMMA CutOfCut ==
  ASSUME NEW R, Rows(R), NEW asc \in BOOLEAN, NEW a \in Nat, NEW n \in Nat, NEW m \in Nat, m <= n
  PROVE  Cut(Cut(R, asc, a, n), asc, 0, m) = Cut(R, asc, a, m)
<1> DEFINE C == Cut(R, asc, a, n)
<1>1. \A r \in C : r \in R /\ Rank(r, C, asc) = Rank(r, R, asc) - a /\ Rank(r, R, asc) \in Nat
                   /\ a <= Rank(r, R, asc)
  BY RankInCut, RankNat DEF Cut
<1>2. \A r : r \in C <=> r \in R /\ a <= Rank(r, R, asc) /\ Rank(r, R, asc) < a + n
  BY DEF Cut
<1>3. \A r : r \in Cut(C, asc, 0, m) <=> r \in C /\ 0 <= Rank(r, C, asc) /\ Rank(r, C, asc) < 0 + m
  BY DEF Cut
<1>4. \A r : r \in Cut(R, asc, a, m) <=> r \in R /\ a <= Rank(r, R, asc) /\ Rank(r, R, asc) < a + m
  BY DEF Cut
<1>5. \A r \in R : Rank(r, R, asc) \in Nat
  BY RankNat
<1> HIDE DEF C
<1>6. \A r : r \in Cut(C, asc, 0, m) <=> r \in Cut(R, asc, a, m)
  <2> TAKE r
  <2>1. CASE r \in C
    BY <1>1, <1>2, <1>3, <1>4, <2>1
  <2>2. CASE r \notin C
    BY <1>2, <1>3, <1>4, <1>5, <2>2
  <2> QED BY <2>1, <2>2
<1> QED BY <1>6 DEF C

\* A cut that is not full reaches the last row.
LEMMA ShortCut ==
  ASSUME NEW R, Rows(R), NEW asc \in BOOLEAN, NEW a \in Nat, NEW n \in Nat \ {0},
         Cardinality(Cut(R, asc, a, n)) < n, NEW r \in R
  PROVE  Rank(r, R, asc) < a + n - 1
<1> DEFINE c == Cardinality(R)
<1>1. c \in Nat /\ Rank(r, R, asc) \in Nat /\ Rank(r, R, asc) < c
  BY RankNat
<1>2. ~(a + n <= c)
  <2>1. Cut(R, asc, a, n) = Between(R, asc, a, a + n)
    BY CutIs
  <2>2. a + n <= c => Cardinality(Between(R, asc, a, a + n)) = n
    BY BetweenCount
  <2> QED BY <2>1, <2>2
<1> HIDE DEF c
<1> QED BY <1>1, <1>2

\* Ranks do not grow when what comes is not before the row, and do not fall when what
\* goes was not.
LEMMA RankGrows ==
  ASSUME NEW R, Rows(R), NEW Q, Rows(Q), NEW asc \in BOOLEAN, NEW r,
         \A q \in R : Precedes(q, r, asc) => q \in Q
  PROVE  Rank(r, R, asc) <= Rank(r, Q, asc)
<1> DEFINE B == {q \in R : Precedes(q, r, asc)}
           C == {q \in Q : Precedes(q, r, asc)}
<1>1. B \subseteq C /\ IsFiniteSet(C)
  BY FS_Subset DEF Rows
<1> HIDE DEF B, C
<1>2. Cardinality(B) <= Cardinality(C)
  BY <1>1, FS_Subset
<1> QED BY <1>2 DEF Rank, B, C

----------------------------------------------------------------------------
(* TYPES                                                                     *)

Statuses == {"pending", "running", "success", "failed", "canceled"}
ExportPCs == {"new", "begin", "run", "path", "open", "look", "read", "count", "append", "write",
        "succeed", "giveUp", "done"}
JobRecords == [status : Statuses, canceled : BOOLEAN, fresh : BOOLEAN, form : Forms]
JobsOK == DOMAIN jobs \subseteq Jobs /\ jobs \in [DOMAIN jobs -> JobRecords]
LocalsOK ==
  /\ exportAt \in [Jobs -> ExportPCs]
  /\ page \in [Jobs -> Nat]
  /\ got \in [Jobs -> [rows : SUBSET Int, more : BOOLEAN]]
  /\ out \in [Jobs -> Seq(SUBSET Int)]
  /\ start \in [Jobs -> [form : Forms, rows : SUBSET Int, came : SUBSET Int]]
TableOK ==
  /\ Rows(logRows)
  /\ exportsLeft.rows \subseteq Int /\ exportsLeft.forms \subseteq Forms
\* The ids of the rows to come are new.
IdsNew == exportsLeft.rows \cap logRows = {} /\ \A j \in Jobs : exportsLeft.rows \cap start[j].rows = {}
FileOK == file \in [Jobs -> {"none", "part", "whole"}]
ExportTypes == JobsOK /\ LocalsOK /\ TableOK /\ IdsNew /\ FileOK

LEMMA ExportInitTypes ==
  ASSUME ExportConstants, ExportInit
  PROVE  ExportTypes
<1>1. jobs = <<>> /\ DOMAIN jobs = {}
  BY DEF ExportInit
<1>2. JobsOK
  BY <1>1 DEF JobsOK
<1>3. LocalsOK
  BY DEF LocalsOK, ExportInit, ExportPCs, NoPage, Forms
<1>4. TableOK /\ IdsNew
  BY DEF TableOK, IdsNew, ExportInit, ExportConstants, Rows
<1>5. FileOK
  BY DEF FileOK, ExportInit
<1> QED BY <1>2, <1>3, <1>4, <1>5 DEF ExportTypes

LEMMA UpdateTypes ==
  ASSUME JobsOK, NEW j \in Jobs, NEW status \in Statuses, Update(j, status)
  PROVE  JobsOK'
<1>1. CASE Exists(j)
  <2>1. jobs' = [jobs EXCEPT ![j].status = status, ![j].fresh = TRUE]
    BY <1>1 DEF Update
  <2>2. j \in DOMAIN jobs
    BY <1>1 DEF Exists
  <2> QED BY <2>1, <2>2 DEF JobsOK, JobRecords
<1>2. CASE ~Exists(j)
  <2>1. jobs' = jobs
    BY <1>2 DEF Update
  <2> QED BY <2>1 DEF JobsOK
<1> QED BY <1>1, <1>2

LEMMA CutInt ==
  ASSUME NEW R, R \subseteq Int, NEW asc, NEW a, NEW n
  PROVE  Cut(R, asc, a, n) \subseteq Int
BY DEF Cut

LEMMA GoroutineTypes ==
  ASSUME ExportTypes, NEW j \in Jobs, Goroutine(j)
  PROVE  ExportTypes'
<1> USE DEF ExportTypes
<1>1. CASE Begin(j)
  BY <1>1 DEF Begin, Go, Kept, JobsOK, LocalsOK, TableOK, IdsNew, FileOK, ExportPCs
<1>2. CASE RunJob(j)
  <2>1. JobsOK'
    BY <1>2, UpdateTypes DEF RunJob, Statuses
  <2> QED BY <1>2, <2>1 DEF RunJob, Go, Kept, LocalsOK, TableOK, IdsNew, FileOK, ExportPCs
<1>3. CASE GetPath(j)
  BY <1>3 DEF GetPath, Go, Kept, JobsOK, LocalsOK, TableOK, IdsNew, FileOK, ExportPCs
<1>4. CASE Open(j)
  BY <1>4 DEF Open, Go, Kept, JobsOK, LocalsOK, TableOK, IdsNew, FileOK, ExportPCs
<1>5. CASE LookAtFlag(j)
  BY <1>5 DEF LookAtFlag, Go, Kept, JobsOK, LocalsOK, TableOK, IdsNew, FileOK, ExportPCs
<1>6. CASE Read(j)
  <2> DEFINE s == Page(start[j].form, page[j])
  <2>1. s \in SUBSET Int
    BY CutInt DEF Page, FastPage, SlowPage, TableOK, Rows
  <2> HIDE DEF s
  <2>2. /\ Go(j, "read", IF s = {} THEN "write" ELSE "count")
        /\ got' = [got EXCEPT ![j].rows = s]
        /\ start' = IF page[j] = 1 THEN [start EXCEPT ![j].rows = logRows, ![j].came = {}] ELSE start
        /\ UNCHANGED <<jobs, file, page, out>> /\ Kept
    BY <1>6 DEF Read, s
  <2>3. LocalsOK'
    <3>1. exportAt' \in [Jobs -> ExportPCs] /\ page' \in [Jobs -> Nat] /\ out' \in [Jobs -> Seq(SUBSET Int)]
      BY <2>2 DEF Go, ExportPCs, LocalsOK
    <3>2. got' \in [Jobs -> [rows : SUBSET Int, more : BOOLEAN]]
      BY <2>1, <2>2 DEF LocalsOK
    <3>3. logRows \in SUBSET Int
      BY DEF TableOK, Rows
    <3>4. start' \in [Jobs -> [form : Forms, rows : SUBSET Int, came : SUBSET Int]]
      BY <2>2, <3>3 DEF LocalsOK
    <3> QED BY <3>1, <3>2, <3>4 DEF LocalsOK
  <2>4. IdsNew'
    <3> SUFFICES ASSUME NEW k \in Jobs PROVE exportsLeft.rows \cap start'[k].rows = {}
      BY <2>2 DEF IdsNew, Kept
    <3>1. start'[k].rows = logRows \/ start'[k].rows = start[k].rows
      BY <2>2 DEF LocalsOK
    <3> QED BY <3>1 DEF IdsNew
  <2> QED BY <2>2, <2>3, <2>4 DEF Kept, JobsOK, TableOK, FileOK
<1>7. CASE Count(j)
  <2>1. More(j) \in BOOLEAN
    <3>1. CASE start[j].form.exact
      BY <3>1 DEF More
    <3>2. CASE ~start[j].form.exact
      BY <3>2 DEF More
    <3> QED BY <3>1, <3>2
  <2> QED BY <1>7, <2>1 DEF Count, Go, Kept, JobsOK, LocalsOK, TableOK, IdsNew, FileOK, ExportPCs
<1>8. CASE AppendPage(j)
  <2> DEFINE t == Trimmed(start[j].form, got[j].rows)
  <2>1. t \in SUBSET Int
    BY CutInt DEF Trimmed, LocalsOK
  <2> HIDE DEF t
  <2>2. /\ exportAt' \in [Jobs -> ExportPCs]
        /\ page' = [page EXCEPT ![j] = @ + 1] /\ got' = [got EXCEPT ![j] = NoPage]
        /\ UNCHANGED <<file, start>> /\ Kept
    BY <1>8 DEF AppendPage, Go, LocalsOK, ExportPCs
  <2>3. out' = out \/ out' = [out EXCEPT ![j] = Append(@, t)]
    BY <1>8 DEF AppendPage, t
  <2>4. LocalsOK'
    <3>1. page' \in [Jobs -> Nat] /\ start' = start
      BY <2>2 DEF LocalsOK
    <3>2. NoPage \in [rows : SUBSET Int, more : BOOLEAN]
      BY DEF NoPage
    <3>3. got' \in [Jobs -> [rows : SUBSET Int, more : BOOLEAN]]
      BY <2>2, <3>2 DEF LocalsOK
    <3>4. Append(out[j], t) \in Seq(SUBSET Int)
      BY <2>1 DEF LocalsOK
    <3>5. out' \in [Jobs -> Seq(SUBSET Int)]
      BY <2>3, <3>4 DEF LocalsOK
    <3> QED BY <2>2, <3>1, <3>3, <3>5 DEF LocalsOK
  <2>5. JobsOK'
    <3>1. CASE IsCanceled(j)
      BY <1>8, <3>1 DEF AppendPage, JobsOK
    <3>2. CASE ~IsCanceled(j)
      <4>1. j \in DOMAIN jobs /\ jobs' = [jobs EXCEPT ![j].fresh = TRUE]
        BY <1>8, <3>2 DEF AppendPage, IsCanceled, Exists
      <4> QED BY <4>1 DEF JobsOK, JobRecords
    <3> QED BY <3>1, <3>2
  <2> QED BY <2>2, <2>4, <2>5 DEF Kept, TableOK, FileOK, IdsNew
<1>9. CASE Write(j)
  BY <1>9 DEF Write, Go, Kept, JobsOK, LocalsOK, TableOK, IdsNew, FileOK, ExportPCs
<1>10. CASE Succeed(j)
  <2>1. JobsOK'
    BY <1>10, UpdateTypes DEF Succeed, Statuses
  <2> QED BY <1>10, <2>1 DEF Succeed, Go, Kept, LocalsOK, TableOK, IdsNew, FileOK, ExportPCs
<1>11. CASE GiveUp(j)
  <2>1. JobsOK'
    BY <1>11, UpdateTypes DEF GiveUp, Statuses
  <2> QED BY <1>11, <2>1 DEF GiveUp, Go, Kept, LocalsOK, TableOK, IdsNew, FileOK, ExportPCs
<1> QED BY <1>1, <1>2, <1>3, <1>4, <1>5, <1>6, <1>7, <1>8, <1>9, <1>10, <1>11 DEF Goroutine

\* There is a first row.
LEMMA FirstRow ==
  ASSUME NEW R, Rows(R), R # {}, NEW asc \in BOOLEAN
  PROVE  \E m \in R : \A r \in R : ~Precedes(r, m, asc)
<1>1. Cardinality(R) \in Nat /\ Cardinality(R) # 0
  BY FS_CardinalityType, FS_EmptySet DEF Rows
<1>2. Cardinality(Between(R, asc, 0, 1)) = 1 - 0
  BY <1>1, BetweenCount
<1>3. PICK m \in Between(R, asc, 0, 1) : TRUE
  <2>1. Between(R, asc, 0, 1) # {}
    BY <1>2, FS_EmptySet
  <2> QED BY <2>1
<1>4. m \in R /\ Rank(m, R, asc) = 0
  BY <1>3, RankNat DEF Between
<1>5. \A r \in R : ~Precedes(r, m, asc)
  <2> SUFFICES ASSUME NEW r \in R, Precedes(r, m, asc) PROVE FALSE
    OBVIOUS
  <2>1. Rank(r, R, asc) < Rank(m, R, asc) /\ Rank(r, R, asc) \in Nat
    BY <1>4, RankOrder, RankNat
  <2> QED BY <1>4, <2>1
<1> QED BY <1>4, <1>5

LEMMA MinIs ==
  ASSUME NEW R, Rows(R), R # {}
  PROVE  Min(R) \in R /\ \A r \in R : Min(R) <= r
<1>1. \A asc \in BOOLEAN : \E m \in R : \A r \in R : ~Precedes(r, m, asc)
  BY FirstRow
<1>2. PICK asc \in BOOLEAN : asc
  OBVIOUS
<1>3. PICK m \in R : \A r \in R : ~Precedes(r, m, asc)
  BY <1>1
<1>4. \A r \in R : m <= r
  BY <1>2, <1>3 DEF Precedes, Rows
<1> QED BY <1>4 DEF Min

LEMMA OtherTypes ==
  ASSUME ExportConstants, ExportTypes, NEW j \in Jobs,
         \/ Fail(j) \/ Cancel(j) \/ (\E f \in exportsLeft.forms : Create(j, f))
         \/ \E k \in Jobs : Retry(j, k)
  PROVE  ExportTypes'
<1> USE DEF ExportTypes
<1>1. CASE Fail(j)
  <2>1. JobsOK'
    BY <1>1, UpdateTypes DEF Fail, Statuses
  <2> QED BY <1>1, <2>1 DEF Fail, LocalsOK, TableOK, IdsNew, FileOK, ExportPCs
<1>2. CASE Cancel(j)
  <2>1. JobsOK'
    <3>1. j \in DOMAIN jobs /\ jobs[j] \in JobRecords
      BY <1>2 DEF Cancel, Exists, JobsOK
    <3>2. PICK s \in Statuses, b \in BOOLEAN :
            jobs' = [jobs EXCEPT ![j].canceled = TRUE, ![j].status = s, ![j].fresh = b]
      BY <1>2, <3>1 DEF Cancel, JobRecords, Statuses
    <3> QED BY <3>1, <3>2 DEF JobsOK, JobRecords
  <2> QED BY <1>2, <2>1 DEF Cancel, locals, LocalsOK, TableOK, IdsNew, FileOK
<1>3. ASSUME NEW f \in Forms, Create(j, f) PROVE ExportTypes'
  <2>1. JobsOK'
    <3>1. NewJob(f) \in JobRecords
      BY DEF NewJob, JobRecords, Statuses
    <3>2. jobs' = [k \in DOMAIN Without(Stale) \cup {j} |-> IF k = j THEN NewJob(f) ELSE jobs[k]]
      BY <1>3 DEF Create
    <3>3. DOMAIN Without(Stale) \subseteq DOMAIN jobs
      BY DEF Without
    <3> QED BY <3>1, <3>2, <3>3 DEF JobsOK
  <2>2. LocalsOK' /\ IdsNew'
    BY <1>3 DEF Create, DropStale, LocalsOK, ExportPCs, IdsNew
  <2> QED BY <1>3, <2>1, <2>2 DEF Create, DropStale, TableOK, FileOK
<1>4. ASSUME NEW k \in Jobs, Retry(j, k) PROVE ExportTypes'
  <2>1. jobs[k].form \in Forms /\ Create(j, jobs[k].form)
    BY <1>4 DEF Retry, Exists, JobsOK, JobRecords
  <2> QED BY <1>3, <2>1
<1>5. exportsLeft.forms \subseteq Forms
  BY DEF TableOK
<1> QED BY <1>1, <1>2, <1>3, <1>4, <1>5

LEMMA TableTypes ==
  ASSUME ExportTypes, (\E r \in exportsLeft.rows : Insert(r)) \/ Look \/ DayPasses \/ Retention \/ Restart
  PROVE  ExportTypes'
<1> USE DEF ExportTypes
<1>1. ASSUME NEW r \in exportsLeft.rows, Insert(r) PROVE ExportTypes'
  <2>1. r \in Int
    BY DEF TableOK
  <2>2. Rows(logRows')
    BY <1>1, <2>1, FS_AddElement DEF Insert, Rows, TableOK
  <2>3. exportsLeft'.rows = exportsLeft.rows \ {r} /\ exportsLeft'.forms = exportsLeft.forms
    <3>1. exportsLeft' = [exportsLeft EXCEPT !.rows = @ \ {r}]
      BY <1>1 DEF Insert
    <3> QED BY <3>1
  <2>4. start' \in [Jobs -> [form : Forms, rows : SUBSET Int, came : SUBSET Int]]
    BY <1>1, <2>1 DEF Insert, LocalsOK
  <2>5. \A j \in Jobs : start'[j].rows = start[j].rows
    BY <1>1 DEF Insert, LocalsOK
  <2>6. IdsNew'
    BY <1>1, <2>3, <2>5 DEF Insert, IdsNew
  <2> QED BY <1>1, <2>2, <2>3, <2>4, <2>6 DEF Insert, JobsOK, LocalsOK, TableOK, FileOK
<1>2. CASE Look
  <2>1. JobsOK'
    BY <1>2 DEF Look, Without, JobsOK
  <2> QED BY <1>2, <2>1 DEF Look, DropStale, locals, LocalsOK, TableOK, IdsNew, FileOK
<1>3. CASE DayPasses
  <2>1. jobs' = [k \in DOMAIN jobs |-> [jobs[k] EXCEPT !.fresh = FALSE]]
    BY <1>3 DEF DayPasses
  <2>2. JobsOK'
    BY <2>1 DEF JobsOK, JobRecords
  <2> QED BY <1>3, <2>2 DEF DayPasses, locals, LocalsOK, TableOK, IdsNew, FileOK
<1>4. CASE Retention
  <2>1. Rows(logRows')
    BY <1>4, FS_RemoveElement DEF Retention, Rows, TableOK
  <2>2. exportsLeft'.rows = exportsLeft.rows /\ exportsLeft'.forms = exportsLeft.forms
    BY <1>4 DEF Retention
  <2>3. logRows' \subseteq logRows
    BY <1>4 DEF Retention
  <2> QED BY <1>4, <2>1, <2>2, <2>3 DEF Retention, locals, JobsOK, LocalsOK, TableOK, IdsNew,
       FileOK
<1>5. CASE Restart
  <2>1. jobs' = <<>> /\ DOMAIN jobs' = {}
    BY <1>5 DEF Restart
  <2>2. JobsOK'
    BY <2>1 DEF JobsOK
  <2> QED BY <1>5, <2>2 DEF Restart, LocalsOK, TableOK, IdsNew, FileOK, ExportPCs
<1> QED BY <1>1, <1>2, <1>3, <1>4, <1>5

LEMMA ExportNextTypes ==
  ASSUME ExportConstants, ExportTypes, [ExportNext]_exportVars
  PROVE  ExportTypes'
<1>1. CASE UNCHANGED exportVars
  BY <1>1 DEF exportVars, locals, ExportTypes, JobsOK, LocalsOK, TableOK, IdsNew, FileOK
<1> QED BY <1>1, GoroutineTypes, OtherTypes, TableTypes DEF ExportNext

----------------------------------------------------------------------------
(* JOBS AND FILES                                                            *)

\* What a job shows goes with where its goroutine is, and with its file.
Shown(j) ==
  /\ exportAt[j] = "new" => ~Exists(j)
  /\ Shows(j, "pending") => exportAt[j] \in {"begin", "run"} /\ ~jobs[j].canceled
  /\ Shows(j, "running") => exportAt[j] \in {"path", "open", "look", "read", "count", "append",
                                       "write", "succeed", "giveUp"}
  /\ Shows(j, "success") => exportAt[j] = "done" /\ file[j] = "whole"
  /\ Shows(j, "failed") => exportAt[j] = "done" /\ file[j] = "none"
  /\ Shows(j, "canceled") => \/ exportAt[j] \in {"begin", "run", "giveUp"}
                             \/ exportAt[j] = "done" /\ file[j] = "none"
\* From the last look at the flag on, who cancels is late.
Flagged(j) ==
  Exists(j) /\ jobs[j].canceled /\ (exportAt[j] \in {"read", "write", "succeed"} \/ Shows(j, "success"))
    => j \in late
\* Only the goroutine of a job that exists has a file, but for the one it has just
\* begun or gives up.
Owned(j) ==
  /\ exportAt[j] \in {"new", "begin", "run", "path", "open"} => file[j] = "none"
  /\ exportAt[j] = "look" /\ Exists(j) => file[j] = "part"
  /\ exportAt[j] \in {"read", "count", "append", "write"} =>
       file[j] = IF Exists(j) THEN "part" ELSE "none"
  /\ exportAt[j] = "succeed" => file[j] = IF Exists(j) THEN "whole" ELSE "none"
  /\ exportAt[j] = "done" /\ file[j] # "none" => Shows(j, "success") \/ j \in orphans
Orderly(j) == Shown(j) /\ Flagged(j) /\ Owned(j)
FileInv == \A j \in Jobs : Orderly(j)

LEMMA FilesAgree ==
  ASSUME ExportTypes, FileInv
  PROVE  FilesOwned /\ CancelHonoured
<1>1. ASSUME NEW j \in Jobs, Shows(j, "success")
      PROVE  file[j] = "whole" /\ (jobs[j].canceled => j \in late)
  BY <1>1 DEF FileInv, Orderly, Shown, Flagged, Shows
<1>2. ASSUME NEW j \in Jobs, file[j] # "none", exportAt[j] = "done", j \notin orphans
      PROVE  Exists(j) /\ ~Shows(j, "failed") /\ ~Shows(j, "canceled")
  BY <1>2 DEF FileInv, Orderly, Owned, Shows
<1> QED BY <1>1, <1>2 DEF FilesOwned, CancelHonoured

LEMMA InitFiles ==
  ASSUME ExportInit
  PROVE  FileInv
<1>1. \A j \in Jobs : exportAt[j] = "new" /\ file[j] = "none" /\ ~Exists(j)
  BY DEF ExportInit, Exists
<1> QED BY <1>1 DEF FileInv, Orderly, Shown, Flagged, Owned, Shows

\* A job that a step leaves alone.
Alone(k) ==
  /\ exportAt'[k] = exportAt[k] /\ file'[k] = file[k] /\ (Exists(k)' <=> Exists(k))
  /\ Exists(k) => jobs'[k].status = jobs[k].status /\ jobs'[k].canceled = jobs[k].canceled
  /\ (k \in late => k \in late') /\ (k \in orphans => k \in orphans')

LEMMA AloneKept ==
  ASSUME NEW k, Orderly(k), Alone(k)
  PROVE  Orderly(k)'
<1>1. \A s : Shows(k, s)' <=> Shows(k, s)
  BY DEF Alone, Shows
<1>2. Shown(k)'
  BY <1>1 DEF Orderly, Alone, Shown, Shows
<1>3. Flagged(k)'
  BY <1>1 DEF Orderly, Alone, Flagged
<1>4. Owned(k)'
  BY <1>1 DEF Orderly, Alone, Owned
<1> QED BY <1>2, <1>3, <1>4 DEF Orderly

LEMMA UpdateIs ==
  ASSUME JobsOK, NEW j \in Jobs, NEW s, Update(j, s)
  PROVE  /\ \A k : Exists(k)' <=> Exists(k)
         /\ \A k : Exists(k) => jobs'[k].canceled = jobs[k].canceled
         /\ \A k : Exists(k) /\ k # j => jobs'[k].status = jobs[k].status
         /\ Exists(j) => jobs'[j].status = s
<1>1. CASE ~Exists(j)
  BY <1>1 DEF Update, Exists
<1>2. CASE Exists(j)
  <2>1. jobs' = [jobs EXCEPT ![j].status = s, ![j].fresh = TRUE]
    BY <1>2 DEF Update
  <2> QED BY <1>2, <2>1 DEF Exists, JobsOK, JobRecords
<1> QED BY <1>1, <1>2

LEMMA GoroutineFiles ==
  ASSUME ExportTypes, FileInv, NEW j \in Jobs, Goroutine(j)
  PROVE  FileInv'
<1> USE DEF ExportTypes
<1> SUFFICES ASSUME NEW k \in Jobs PROVE Orderly(k)'
  BY DEF FileInv
<1>1. Orderly(k) /\ Orderly(j)
  BY DEF FileInv
<1>2. late' = late /\ orphans' = orphans
  BY DEF Goroutine, Begin, RunJob, GetPath, Open, LookAtFlag, Read, Count, AppendPage, Write,
         Succeed, GiveUp, Kept
<1> DEFINE To(from, to) == exportAt[j] = from /\ exportAt' = [exportAt EXCEPT ![j] = to]
<1>3. CASE /\ UNCHANGED <<jobs, file>>
           /\ \/ IF IsCanceled(j) THEN To("begin", "giveUp") ELSE To("begin", "run")
              \/ IF Exists(j) THEN To("path", "open") ELSE To("path", "done")
              \/ IF IsCanceled(j) THEN To("look", "giveUp") ELSE To("look", "read")
              \/ To("read", "write") \/ To("read", "count") \/ To("count", "append")
  <2>1. CASE k # j
    <3>1. Alone(k)
      BY <1>2, <1>3, <2>1 DEF Alone, Exists, LocalsOK
    <3> QED BY <1>1, <3>1, AloneKept
  <2>2. CASE k = j
    <3>1. \A s : Shows(j, s)' <=> Shows(j, s)
      BY <1>3 DEF Shows, Exists
    <3>2. Shown(j)'
      BY <1>1, <1>3, <3>1 DEF Orderly, Shown, LocalsOK, Exists, JobsOK, JobRecords, Statuses,
           Shows,
         IsCanceled
    <3>3. Flagged(j)'
      BY <1>1, <1>2, <1>3, <3>1 DEF Orderly, Flagged, LocalsOK, Exists, IsCanceled
    <3>4. Owned(j)'
      BY <1>1, <1>2, <1>3, <3>1 DEF Orderly, Owned, LocalsOK, Exists, Shows, IsCanceled
    <3> QED BY <2>2, <3>2, <3>3, <3>4 DEF Orderly
  <2> QED BY <2>1, <2>2
<1>4. CASE Begin(j)
  BY <1>3, <1>4 DEF Begin, Go
<1>5. CASE GetPath(j)
  BY <1>3, <1>5 DEF GetPath, Go
<1>6. CASE LookAtFlag(j)
  BY <1>3, <1>6 DEF LookAtFlag, Go
<1>7. CASE Read(j)
  BY <1>3, <1>7 DEF Read, Go
<1>8. CASE Count(j)
  BY <1>3, <1>8 DEF Count, Go
<1>9. CASE RunJob(j)
  <2>1. exportAt[j] = "run" /\ exportAt' = [exportAt EXCEPT ![j] = "path"] /\ file' = file /\ Update(j, "running")
    BY <1>9 DEF RunJob, Go
  <2> QED BY <1>1, <1>2, <2>1, UpdateIs, AloneKept
          DEF Alone, Orderly, Shown, Flagged, Owned, Shows, LocalsOK
<1>10. CASE Open(j)
  <2>1. /\ exportAt[j] = "open" /\ exportAt' = [exportAt EXCEPT ![j] = "look"] /\ jobs' = jobs
        /\ file' = [file EXCEPT ![j] = "part"]
    BY <1>10 DEF Open, Go
  <2> QED BY <1>1, <1>2, <2>1, AloneKept
          DEF Alone, Orderly, Shown, Flagged, Owned, Shows, LocalsOK, FileOK, Exists
<1>11. CASE AppendPage(j)
  <2>1. file' = file
    BY <1>11 DEF AppendPage
  <2>2. CASE IsCanceled(j)
    <3>1. exportAt[j] = "append" /\ exportAt' = [exportAt EXCEPT ![j] = "giveUp"] /\ jobs' = jobs
      BY <1>11, <2>2 DEF AppendPage, Go
    <3> QED BY <1>1, <1>2, <2>1, <3>1, AloneKept
            DEF Alone, Orderly, Shown, Flagged, Owned, Shows, LocalsOK, Exists
  <2>3. CASE ~IsCanceled(j)
    <3>1. /\ exportAt[j] = "append"
          /\ exportAt' = [exportAt EXCEPT ![j] = "look"] \/ exportAt' = [exportAt EXCEPT ![j] = "write"]
          /\ jobs' = [jobs EXCEPT ![j].fresh = TRUE] /\ Exists(j) /\ ~jobs[j].canceled
      BY <1>11, <2>3 DEF AppendPage, Go, IsCanceled
    <3>2. /\ \A i : Exists(i)' <=> Exists(i)
          /\ \A i : Exists(i) => /\ jobs'[i].canceled = jobs[i].canceled
                                 /\ jobs'[i].status = jobs[i].status
      BY <3>1 DEF Exists, JobsOK, JobRecords
    <3> QED BY <1>1, <1>2, <2>1, <3>1, <3>2, AloneKept
            DEF Alone, Orderly, Shown, Flagged, Owned, Shows, LocalsOK
  <2> QED BY <2>2, <2>3
<1>12. CASE Write(j)
  <2>1. /\ exportAt[j] = "write" /\ exportAt' = [exportAt EXCEPT ![j] = "succeed"] /\ jobs' = jobs
        /\ file' = [file EXCEPT ![j] = IF @ = "part" THEN "whole" ELSE @]
    BY <1>12 DEF Write, Go
  <2> QED BY <1>1, <1>2, <2>1, AloneKept
          DEF Alone, Orderly, Shown, Flagged, Owned, Shows, LocalsOK, FileOK, Exists
<1>13. CASE Succeed(j)
  <2>1. exportAt[j] = "succeed" /\ exportAt' = [exportAt EXCEPT ![j] = "done"] /\ file' = file /\ Update(j, "success")
    BY <1>13 DEF Succeed, Go
  <2> QED BY <1>1, <1>2, <2>1, UpdateIs, AloneKept
          DEF Alone, Orderly, Shown, Flagged, Owned, Shows, LocalsOK
<1>14. CASE GiveUp(j)
  <2>1. /\ exportAt[j] = "giveUp" /\ exportAt' = [exportAt EXCEPT ![j] = "done"] /\ Update(j, "canceled")
        /\ file' = [file EXCEPT ![j] = "none"]
    BY <1>14 DEF GiveUp, Go
  <2> QED BY <1>1, <1>2, <2>1, UpdateIs, AloneKept
          DEF Alone, Orderly, Shown, Flagged, Owned, Shows, LocalsOK, FileOK
<1> QED BY <1>4, <1>5, <1>6, <1>7, <1>8, <1>9, <1>10, <1>11, <1>12, <1>13, <1>14 DEF Goroutine

\* What is stale goes, with its file.
LEMMA StaleGone ==
  ASSUME NEW k \in Jobs, ExportTypes, Orderly(k), k \in Stale, ~Exists(k)', DropStale, exportAt'[k] = exportAt[k]
  PROVE  Orderly(k)'
<1>1. file'[k] = "none"
  BY DEF DropStale
<1>2. \A s : ~Shows(k, s)'
  BY DEF Shows
<1>3. Exists(k) /\ late' = late /\ orphans' = orphans
  BY DEF Stale, Exists, DropStale
<1> QED BY <1>1, <1>2, <1>3 DEF Orderly, Shown, Flagged, Owned

LEMMA CreateFiles ==
  ASSUME ExportTypes, FileInv, NEW j \in Jobs, NEW f, Create(j, f)
  PROVE  FileInv'
<1> USE DEF ExportTypes
<1> SUFFICES ASSUME NEW k \in Jobs PROVE Orderly(k)'
  BY DEF FileInv
<1>1. Orderly(k) /\ Orderly(j)
  BY DEF FileInv
<1>2. /\ exportAt[j] = "new" /\ exportAt' = [exportAt EXCEPT ![j] = "begin"] /\ DropStale
      /\ jobs' = [i \in DOMAIN Without(Stale) \cup {j} |-> IF i = j THEN NewJob(f) ELSE jobs[i]]
      /\ late' = late /\ orphans' = orphans
  BY DEF Create, DropStale
<1>3. ~Exists(j) /\ j \notin Stale /\ file[j] = "none"
  BY <1>1, <1>2 DEF Orderly, Shown, Owned, Stale, Exists
<1>4. /\ \A i : Exists(i)' <=> i = j \/ (Exists(i) /\ i \notin Stale)
      /\ \A i : Exists(i) /\ i \notin Stale /\ i # j => jobs'[i] = jobs[i]
      /\ jobs'[j] = NewJob(f)
  BY <1>2 DEF Exists, Without
<1>5. CASE k = j
  <2>1. file'[j] = "none" /\ exportAt'[j] = "begin"
    BY <1>2, <1>3 DEF DropStale, LocalsOK
  <2>2. \A s : Shows(j, s)' <=> s = "pending"
    BY <1>4 DEF Shows, NewJob
  <2>3. ~jobs'[j].canceled
    BY <1>4 DEF NewJob
  <2> QED BY <1>5, <2>1, <2>2, <2>3 DEF Orderly, Shown, Flagged, Owned
<1>6. CASE k # j /\ k \in Stale
  <2>1. ~Exists(k)' /\ exportAt'[k] = exportAt[k]
    BY <1>2, <1>4, <1>6 DEF LocalsOK
  <2> QED BY <1>1, <1>2, <1>6, <2>1, StaleGone
<1>7. CASE k # j /\ k \notin Stale
  <2>1. Alone(k)
    BY <1>2, <1>4, <1>7 DEF Alone, LocalsOK, DropStale
  <2> QED BY <1>1, <2>1, AloneKept
<1> QED BY <1>5, <1>6, <1>7

LEMMA NextFiles ==
  ASSUME ExportTypes, FileInv, [ExportNext]_exportVars
  PROVE  FileInv'
<1> USE DEF ExportTypes
<1>1. CASE UNCHANGED <<jobs, file, exportAt, late, orphans>>
  BY <1>1 DEF FileInv, Orderly, Shown, Flagged, Owned, Shows, Exists
<1>2. CASE UNCHANGED exportVars
  BY <1>1, <1>2 DEF exportVars, locals
<1>3. CASE (\E r \in exportsLeft.rows : Insert(r)) \/ Retention
  BY <1>1, <1>3 DEF Insert, Retention, locals
<1>4. CASE DayPasses
  <2>1. /\ UNCHANGED <<file, exportAt, late, orphans>>
        /\ jobs' = [k \in DOMAIN jobs |-> [jobs[k] EXCEPT !.fresh = FALSE]]
    BY <1>4 DEF DayPasses, locals
  <2>2. /\ \A k : Exists(k)' <=> Exists(k)
        /\ \A k : Exists(k) => jobs'[k].status = jobs[k].status /\ jobs'[k].canceled = jobs[k].canceled
    BY <2>1 DEF Exists, JobsOK, JobRecords
  <2>3. \A k : Alone(k)
    BY <2>1, <2>2 DEF Alone
  <2> QED BY <2>3, AloneKept DEF FileInv
<1>5. CASE Look
  <2>1. /\ DropStale /\ exportAt' = exportAt /\ jobs' = Without(Stale) /\ late' = late /\ orphans' = orphans
    BY <1>5 DEF Look, locals, DropStale
  <2>2. /\ \A k : Exists(k)' <=> Exists(k) /\ k \notin Stale
        /\ \A k : Exists(k) /\ k \notin Stale => jobs'[k] = jobs[k]
    BY <2>1 DEF Exists, Without
  <2> SUFFICES ASSUME NEW k \in Jobs PROVE Orderly(k)'
    BY DEF FileInv
  <2>3. CASE k \in Stale
    BY <2>1, <2>2, <2>3, StaleGone DEF FileInv
  <2>4. CASE k \notin Stale
    <3>1. Alone(k)
      BY <2>1, <2>2, <2>4 DEF Alone, DropStale
    <3> QED BY <3>1, AloneKept DEF FileInv
  <2> QED BY <2>3, <2>4
<1>6. CASE Restart
  <2>1. /\ jobs' = <<>> /\ file' = file /\ orphans' = {j \in Jobs : file[j] # "none"}
        /\ exportAt' = [j \in Jobs |-> IF exportAt[j] = "new" THEN "new" ELSE "done"]
    BY <1>6 DEF Restart
  <2>2. \A k : ~Exists(k)'
    BY <2>1 DEF Exists
  <2> QED BY <2>1, <2>2 DEF FileInv, Orderly, Shown, Flagged, Owned, Shows
<1>7. ASSUME NEW j \in Jobs, Fail(j) PROVE FileInv'
  <2>1. /\ exportAt[j] \in {"open", "read", "count", "append", "write"} /\ Update(j, "failed")
        /\ exportAt' = [exportAt EXCEPT ![j] = "done"] /\ file' = [file EXCEPT ![j] = "none"]
        /\ late' = late /\ orphans' = orphans
    BY <1>7 DEF Fail
  <2> SUFFICES ASSUME NEW k \in Jobs PROVE Orderly(k)'
    BY DEF FileInv
  <2>2. Orderly(k) /\ Orderly(j)
    BY DEF FileInv
  <2> QED BY <2>1, <2>2, UpdateIs, AloneKept
          DEF Alone, Orderly, Shown, Flagged, Owned, Shows, LocalsOK, FileOK
<1>8. ASSUME NEW j \in Jobs, Cancel(j) PROVE FileInv'
  <2>1. /\ Exists(j) /\ jobs[j].status \notin Final /\ UNCHANGED <<file, exportAt, orphans>>
        /\ late' = IF exportAt[j] \in {"read", "write", "succeed"} THEN late \cup {j} ELSE late
    BY <1>8 DEF Cancel, locals
  <2>2. /\ \A k : Exists(k)' <=> Exists(k)
        /\ \A k : Exists(k) /\ k # j => jobs'[k] = jobs[k]
        /\ jobs'[j].status = IF jobs[j].status = "pending" THEN "canceled" ELSE jobs[j].status
        /\ jobs'[j].canceled
    BY <1>8 DEF Cancel, Exists, JobsOK, JobRecords
  <2> SUFFICES ASSUME NEW k \in Jobs PROVE Orderly(k)'
    BY DEF FileInv
  <2>3. Orderly(k) /\ Orderly(j)
    BY DEF FileInv
  <2>4. CASE k # j
    <3>1. Alone(k)
      BY <2>1, <2>2, <2>4 DEF Alone
    <3> QED BY <2>3, <3>1, AloneKept
  <2>5. CASE k = j
    <3>1. jobs[j].status \in {"pending", "running"}
      BY <2>1 DEF Final, JobsOK, JobRecords, Statuses, Exists
    <3> QED BY <2>1, <2>2, <2>3, <2>5, <3>1 DEF Orderly, Shown, Flagged, Owned, Shows
  <2> QED BY <2>4, <2>5
<1>9. ASSUME NEW j \in Jobs, NEW k \in Jobs, Retry(j, k) PROVE FileInv'
  <2>1. Create(j, jobs[k].form)
    BY <1>9 DEF Retry
  <2> QED BY <2>1, CreateFiles
<1> QED BY <1>2, <1>3, <1>4, <1>5, <1>6, <1>7, <1>8, <1>9, GoroutineFiles, CreateFiles
     DEF ExportNext

----------------------------------------------------------------------------
(* THE ROWS OF A FILE                                                        *)

Places == {"count", "append"}
Listing(f, R, D) == IF f.fast THEN R ELSE R \ D
InPages(o) == UNION {o[i] : i \in DOMAIN o}
\* What of the first page's table is still there and has its names.
Kept_(s, R, D) == (s.rows \cap R) \ D

\* p, n, g, o, s: where a job is, its page, what it has got and written, and its start;
\* R, D: the table, and what dangles.
Descends(s, D) == ~s.form.asc /\ (s.form.fast => D = {})
Behind(r, n, s, R, D) == n * ExportPage <= Rank(r, Listing(s.form, R, D), s.form.asc)
\* A row that an export from the newest has not written is after the pages read.
NoneMissed(p, n, g, o, s, R, D) ==
  Descends(s, D) =>
    \A r \in Kept_(s, R, D) :
      /\ p \in {"look", "read"} => r \in InPages(o) \/ Behind(r, n - 1, s, R, D)
      /\ p \in Places => r \in InPages(o) \cup Trimmed(s.form, g.rows) \/ Behind(r, n, s, R, D)
      /\ p = "count" /\ ~s.form.exact /\ ~(Cardinality(g.rows) > ExportPage)
           => r \in InPages(o) \cup Trimmed(s.form, g.rows)
      /\ p = "append" /\ ~g.more => r \in InPages(o) \cup Trimmed(s.form, g.rows)
      /\ p \in {"write", "succeed"} => r \in InPages(o)
Done(o, s, R, D) == Descends(s, D) => Kept_(s, R, D) \subseteq InPages(o)

Ascends(s, D) ==
  /\ s.form.asc /\ (s.form.fast /\ ~s.form.exact => D = {})
  /\ \A r \in s.came, q \in s.rows : q < r
Before(r, n, s, R, D) == Rank(r, Listing(s.form, R, D), s.form.asc) < n * ExportPage
Apart(o, s) == \A a, b \in DOMAIN o : a # b => o[a] \cap o[b] \cap s.rows = {}
\* A row that an export from the oldest has written is before the pages to come.
NoneTwice(p, n, g, o, s, R, D) ==
  Ascends(s, D) =>
    /\ Apart(o, s)
    /\ \A r \in InPages(o) \cap s.rows :
         /\ p \in {"look", "read"} => Before(r, n - 1, s, R, D)
         /\ p \in Places => Before(r, n, s, R, D)
    /\ p \in Places =>
         \A r \in Trimmed(s.form, g.rows) \cap s.rows :
           Before(r, n, s, R, D) /\ r \notin InPages(o)

\* Nothing is written before the second page.
Begun(p, n, o) ==
  /\ p \in {"new", "begin", "run", "path", "open"} => o = <<>>
  /\ p \in {"look", "read", "count", "append"} /\ n = 1 => o = <<>>
  /\ p \in {"look", "read", "count", "append"} => n # 0

Exported(j) ==
  /\ NoneMissed(exportAt[j], page[j], got[j], out[j], start[j], logRows, dangling)
  /\ NoneTwice(exportAt[j], page[j], got[j], out[j], start[j], logRows, dangling)
  /\ Begun(exportAt[j], page[j], out[j])
  /\ Shows(j, "success") => Done(out[j], start[j], logRows, dangling)
RowsInv == \A j \in Jobs : Exported(j)

LEMMA RowsAreExported ==
  ASSUME RowsInv
  PROVE  RowsExported
<1>1. \A j \in Jobs : Written(j) = InPages(out[j])
  BY DEF Written, InPages
<1>2. NothingMissed
  <2> SUFFICES ASSUME NEW j \in Jobs, Shows(j, "success"), Descends(start[j], dangling)
               PROVE  Kept_(start[j], logRows, dangling) \subseteq Written(j)
    BY DEF NothingMissed, Descends, Kept_
  <2> QED BY <1>1 DEF RowsInv, Exported, Done
<1>3. NothingTwice
  <2> SUFFICES ASSUME NEW j \in Jobs, Ascends(start[j], dangling) PROVE Apart(out[j], start[j])
    BY DEF NothingTwice, Ascends, Apart
  <2> QED BY DEF RowsInv, Exported, NoneTwice
<1> QED BY <1>2, <1>3 DEF RowsExported

LEMMA InitRows ==
  ASSUME ExportInit
  PROVE  RowsInv
<1> SUFFICES ASSUME NEW j \in Jobs PROVE Exported(j)
  BY DEF RowsInv
<1>1. exportAt[j] = "new" /\ out[j] = <<>> /\ ~Exists(j) /\ ~start[j].form.asc
  BY DEF ExportInit, Exists
<1>2. NoneMissed(exportAt[j], page[j], got[j], out[j], start[j], logRows, dangling)
  BY <1>1 DEF NoneMissed, Places
<1>3. NoneTwice(exportAt[j], page[j], got[j], out[j], start[j], logRows, dangling)
  BY <1>1 DEF NoneTwice, Ascends
<1> QED BY <1>1, <1>2, <1>3 DEF Exported, Begun, Shows

\* A job whose export a step leaves alone.
Still(k) ==
  /\ exportAt'[k] = exportAt[k] /\ page'[k] = page[k] /\ got'[k] = got[k] /\ out'[k] = out[k]
  /\ start'[k] = start[k] /\ (Shows(k, "success")' => Shows(k, "success"))

LEMMA StillKept ==
  ASSUME NEW k, Exported(k), Still(k), UNCHANGED <<logRows, dangling>>
  PROVE  Exported(k)'
<1> DEFINE P(p, n, g, o, s, R, D) == /\ NoneMissed(p, n, g, o, s, R, D)
                                     /\ NoneTwice(p, n, g, o, s, R, D)
                                     /\ Begun(p, n, o)
<1>1. P(exportAt[k], page[k], got[k], out[k], start[k], logRows, dangling)
  BY DEF Exported
<1> HIDE DEF P
<1>2. P(exportAt'[k], page'[k], got'[k], out'[k], start'[k], logRows', dangling')
  BY <1>1 DEF Still
<1>3. Done(out[k], start[k], logRows, dangling) = Done(out'[k], start'[k], logRows', dangling')
  BY DEF Still
<1> QED BY <1>2, <1>3 DEF P, Still, Exported

\* The pages of PageSize rows, one after the other.
LEMMA PageEnds ==
  ASSUME ExportPage \in Nat \ {0}, NEW n \in Nat \ {0}
  PROVE  /\ (n - 1) * ExportPage \in Nat /\ n * ExportPage \in Nat
         /\ (n - 1) * ExportPage + ExportPage = n * ExportPage
<1>1. \A a, b \in Nat : a * b \in Nat
  OBVIOUS
<1>2. \A a, b \in Int : (a - 1) * b + b = a * b
  OBVIOUS
<1> QED BY <1>1, <1>2

LEMMA ListingRows ==
  ASSUME NEW f, NEW R, Rows(R), NEW D
  PROVE  Rows(Listing(f, R, D)) /\ Listing(f, R, D) \subseteq R /\ R \ D \subseteq Listing(f, R, D)
<1>1. IsFiniteSet(R \ D)
  BY FS_Difference DEF Rows
<1> QED BY <1>1 DEF Listing, Rows

ThePage(f, n, R, D) ==
  IF f.fast THEN Cut(R, f.asc, (n - 1) * ExportPage, Limit(f)) \ D
  ELSE Cut(R \ D, f.asc, (n - 1) * ExportPage, Limit(f))

\* What is read and kept of a page.
LEMMA PageIs ==
  ASSUME ExportPage \in Nat \ {0}, NEW n \in Nat \ {0}, NEW f \in Forms, NEW R, Rows(R), NEW D
  PROVE  LET L == Listing(f, R, D)
             s == ThePage(f, n, R, D)
             a == (n - 1) * ExportPage
         IN /\ (f.fast => D = {}) => /\ s = Cut(L, f.asc, a, Limit(f))
                                     /\ Trimmed(f, s) = Cut(L, f.asc, a, ExportPage)
            /\ (f.fast /\ ~f.exact => D = {}) => Trimmed(f, s) \subseteq Cut(L, f.asc, a, ExportPage)
<1> DEFINE L == Listing(f, R, D)
           s == ThePage(f, n, R, D)
           a == (n - 1) * ExportPage
           C == Cut(L, f.asc, a, Limit(f))
<1>1. Rows(L)
  BY ListingRows
<1>2. f.asc \in BOOLEAN /\ a \in Nat /\ Limit(f) \in Nat /\ ExportPage <= Limit(f) /\ ExportPage \in Nat
      /\ (f.exact => Limit(f) = ExportPage)
  BY PageEnds DEF Forms, Limit
<1>3. s = C \/ (f.fast /\ s = C \ D)
  BY DEF ThePage, Listing
<1>4. f.fast => L = R
  BY DEF Listing
<1> HIDE DEF L, s, a
<1>5. Cut(C, f.asc, 0, ExportPage) = Cut(L, f.asc, a, ExportPage)
  BY <1>1, <1>2, CutOfCut
<1> HIDE DEF C
<1>6. ASSUME f.fast => D = {} PROVE s = C
  BY <1>3, <1>6
<1>7. Trimmed(f, s) \subseteq s
  BY DEF Trimmed, Cut
<1>8. ASSUME f.fast, f.exact PROVE Trimmed(f, s) \subseteq Cut(L, f.asc, a, ExportPage)
  BY <1>2, <1>3, <1>7, <1>8 DEF C
<1> QED BY <1>5, <1>6, <1>8 DEF Trimmed, C, L, s, a

LEMMA NothingBehind ==
  ASSUME ExportPage \in Nat \ {0}, NEW n \in Nat \ {0}, NEW asc \in BOOLEAN, NEW L, Rows(L),
         NEW r \in L
  PROVE  /\ Rank(r, L, asc) \in Nat
         /\ r \in Cut(L, asc, (n - 1) * ExportPage, ExportPage)
              <=> (n - 1) * ExportPage <= Rank(r, L, asc) /\ Rank(r, L, asc) < n * ExportPage
         /\ Cut(L, asc, (n - 1) * ExportPage, ExportPage) = {} => Rank(r, L, asc) < (n - 1) * ExportPage
         /\ Cardinality(Cut(L, asc, (n - 1) * ExportPage, ExportPage + 1)) <= ExportPage
              => Rank(r, L, asc) < n * ExportPage
         /\ Cardinality(L) <= n * ExportPage => Rank(r, L, asc) < n * ExportPage
<1> DEFINE a == (n - 1) * ExportPage
           b == n * ExportPage
           k == Rank(r, L, asc)
<1>1. a \in Nat /\ b \in Nat /\ a + ExportPage = b
  BY PageEnds
<1>2. k \in Nat /\ Cardinality(L) \in Nat /\ k < Cardinality(L)
  BY RankNat
<1> HIDE DEF a, b
<1>3. r \in Cut(L, asc, a, ExportPage) <=> a <= k /\ k < b
  BY <1>1 DEF Cut
<1>4. ASSUME Cut(L, asc, a, ExportPage) = {} PROVE k < a
  <2>1. Cut(L, asc, a, ExportPage) = Cut(L, asc, a, 1) \/ Cut(L, asc, a, 1) = {}
    <3>1. \A q \in L : Rank(q, L, asc) \in Nat
      BY RankNat
    <3>2. Cut(L, asc, a, 1) \subseteq Cut(L, asc, a, ExportPage)
      BY <1>1, <3>1 DEF Cut
    <3> QED BY <1>4, <3>2
  <2>2. Cardinality(Cut(L, asc, a, 1)) < 1
    BY <1>4, <2>1, FS_EmptySet
  <2>3. k < a + 1 - 1
    <3> HIDE DEF k
    <3>1. 1 \in Nat \ {0}
      OBVIOUS
    <3> QED BY <1>1, <2>2, <3>1, ShortCut DEF k
  <2> QED BY <1>1, <1>2, <2>3
<1>5. ASSUME Cardinality(Cut(L, asc, a, ExportPage + 1)) <= ExportPage PROVE k < b
  <2> DEFINE m == ExportPage + 1
             c == Cardinality(Cut(L, asc, a, m))
  <2>1. m \in Nat \ {0} /\ m = ExportPage + 1
    OBVIOUS
  <2>2. c \in Nat
    <3>1. IsFiniteSet(Cut(L, asc, a, m))
      BY FS_Subset DEF Rows, Cut
    <3> QED BY <3>1, FS_CardinalityType
  <2>3. c <= ExportPage
    BY <1>5
  <2> HIDE DEF m
  <2>4. c < m
    BY <2>1, <2>2, <2>3
  <2>5. k < a + m - 1
    BY <1>1, <2>1, <2>4, ShortCut
  <2> QED BY <1>1, <1>2, <2>1, <2>5
<1>6. Cardinality(L) <= b => k < b
  BY <1>1, <1>2
<1> QED BY <1>2, <1>3, <1>4, <1>5, <1>6 DEF a, b

\* Dividing and rounding up leaves nothing out.
LEMMA PagesHold ==
  ASSUME NEW c \in Nat, NEW b \in Nat \ {0}, NEW n \in Nat, (c + b - 1) \div b <= n
  PROVE  c <= n * b
<1> DEFINE q == (c + b - 1) \div b
           m == (c + b - 1) % b
<1>1. q \in Int /\ m \in Int /\ 0 <= m /\ m < b /\ c + b - 1 = b * q + m
  OBVIOUS
<1> HIDE DEF q, m
<1>2. \A x, y \in Int : \A z \in Nat : x <= y => x * z <= y * z
  OBVIOUS
<1>3. q * b <= n * b
  BY <1>1, <1>2 DEF q
<1>4. b * q = q * b /\ q * b \in Int /\ n * b \in Int
  BY <1>1
<1> QED BY <1>1, <1>3, <1>4

\* A step of the goroutine that reads and writes no page.
LEMMA MovesOn ==
  ASSUME NEW p, NEW q, NEW n, NEW g, NEW o, NEW s, NEW R, NEW D,
         NoneMissed(p, n, g, o, s, R, D), NoneTwice(p, n, g, o, s, R, D), Begun(p, n, o),
         \/ q \in {"begin", "run", "path", "open"} /\ o = <<>>
         \/ q \in {"giveUp", "done"}
         \/ p = "look" /\ q = "read"
         \/ p = "write" /\ q = "succeed"
  PROVE  NoneMissed(q, n, g, o, s, R, D) /\ NoneTwice(q, n, g, o, s, R, D) /\ Begun(q, n, o)
<1>1. NoneMissed(q, n, g, o, s, R, D)
  BY DEF NoneMissed, Places
<1>2. NoneTwice(q, n, g, o, s, R, D)
  BY DEF NoneTwice, Places
<1> QED BY <1>1, <1>2 DEF Begun

LEMMA OpenRows ==
  ASSUME ExportPage \in Nat \ {0}, NEW g, NEW s, s.form \in Forms, NEW R, Rows(R), NEW D
  PROVE  /\ NoneMissed("look", 1, g, <<>>, s, R, D) /\ NoneTwice("look", 1, g, <<>>, s, R, D)
         /\ Begun("look", 1, <<>>)
<1>1. \A r : (1 - 1) * ExportPage <= Rank(r, Listing(s.form, R, D), s.form.asc)
  <2> TAKE r
  <2>1. Rank(r, Listing(s.form, R, D), s.form.asc) \in Nat
    BY ListingRows, RankNat DEF Forms
  <2> QED BY <2>1
<1>2. NoneMissed("look", 1, g, <<>>, s, R, D)
  BY <1>1 DEF NoneMissed, Behind, Places
<1>3. InPages(<<>>) = {} /\ Apart(<<>>, s)
  BY DEF InPages, Apart
<1>4. NoneTwice("look", 1, g, <<>>, s, R, D)
  BY <1>3 DEF NoneTwice, Places
<1> QED BY <1>2, <1>4 DEF Begun

\* The page is read.
LEMMA ReadRows ==
  ASSUME ExportPage \in Nat \ {0}, NEW n \in Nat, NEW g, NEW o, NEW s, NEW R, Rows(R), NEW D,
         s.form \in Forms, NEW s2, NEW g2, NEW p,
         NoneMissed("read", n, g, o, s, R, D), NoneTwice("read", n, g, o, s, R, D), Begun("read", n, o),
         g2.rows = ThePage(s.form, n, R, D), s2.form = s.form,
         IF n = 1 THEN TRUE ELSE s2 = s,
         p = IF g2.rows = {} THEN "write" ELSE "count"
  PROVE  NoneMissed(p, n, g2, o, s2, R, D) /\ NoneTwice(p, n, g2, o, s2, R, D) /\ Begun(p, n, o)
<1> DEFINE f == s.form
           asc == f.asc
           L == Listing(f, R, D)
           a == (n - 1) * ExportPage
           b == n * ExportPage
           t == Trimmed(f, g2.rows)
           C == Cut(L, asc, a, ExportPage)
<1>0. n \in Nat \ {0} /\ (n = 1 => o = <<>>)
  BY DEF Begun
<1>1. a \in Nat /\ b \in Nat /\ a + ExportPage = b /\ (n = 1 => a = 0)
  <2>1. 1 - 1 = 0 /\ 0 * ExportPage = 0
    OBVIOUS
  <2> QED BY <1>0, <2>1, PageEnds
<1>2. Rows(L) /\ R \ D \subseteq L /\ asc \in BOOLEAN
  BY ListingRows DEF Forms
<1>3. \A r : Rank(r, L, asc) \in Nat
  <2> HIDE DEF L, asc
  <2> QED BY <1>2, RankNat
<1>4. /\ (f.fast => D = {}) => g2.rows = Cut(L, asc, a, Limit(f)) /\ t = C
      /\ (f.fast /\ ~f.exact => D = {}) => t \subseteq C
  BY <1>0, PageIs
<1>5. \A r \in L : r \in C <=> a <= Rank(r, L, asc) /\ Rank(r, L, asc) < b
  <2> HIDE DEF L, asc
  <2> QED BY <1>0, <1>2, NothingBehind
<1>6. NoneMissed(p, n, g2, o, s2, R, D)
  <2> SUFFICES ASSUME Descends(s2, D), NEW r \in Kept_(s2, R, D)
               PROVE /\ p \in Places => r \in InPages(o) \cup t \/ Behind(r, n, s2, R, D)
                     /\ p = "count" /\ ~f.exact /\ ~(Cardinality(g2.rows) > ExportPage)
                          => r \in InPages(o) \cup t
                     /\ p = "write" => r \in InPages(o)
    BY DEF NoneMissed, Places
  <2>1. (f.fast => D = {}) /\ t = C /\ g2.rows = Cut(L, asc, a, Limit(f))
    BY <1>4 DEF Descends
  <2>2. r \in L
    BY <1>2 DEF Kept_
  <2>3. r \in InPages(o) \/ a <= Rank(r, L, asc)
    <3>1. CASE n = 1
      BY <1>1, <1>3, <3>1
    <3>2. CASE n # 1
      <4>1. s2 = s
        BY <3>2
      <4>2. r \in InPages(o) \/ Behind(r, n - 1, s, R, D)
        BY <4>1 DEF NoneMissed
      <4> QED BY <4>2 DEF Behind
    <3> QED BY <3>1, <3>2
  <2>4. r \in InPages(o) \cup t \/ b <= Rank(r, L, asc)
    BY <1>1, <1>3, <1>5, <2>1, <2>2, <2>3
  <2>5. Behind(r, n, s2, R, D) <=> b <= Rank(r, L, asc)
    BY DEF Behind
  <2>6. ASSUME ~f.exact, ~(Cardinality(g2.rows) > ExportPage) PROVE r \in InPages(o) \cup t
    <3>1. g2.rows = Cut(L, asc, a, ExportPage + 1)
      BY <2>1, <2>6 DEF Limit
    <3>2. IsFiniteSet(g2.rows)
      BY <1>2, <3>1, FS_Subset DEF Cut, Rows
    <3>3. Cardinality(g2.rows) \in Nat
      BY <3>2, FS_CardinalityType
    <3>4. Cardinality(Cut(L, asc, a, ExportPage + 1)) <= ExportPage
      BY <2>6, <3>1, <3>3
    <3>5. Rank(r, L, asc) < b
      <4> HIDE DEF L, asc
      <4> QED BY <1>0, <1>2, <2>2, <3>4, NothingBehind
    <3> QED BY <1>1, <1>3, <2>4, <3>5
  <2>7. ASSUME p = "write" PROVE r \in InPages(o)
    <3>1. g2.rows = {}
      BY <2>7
    <3>2. t = {}
      BY <3>1 DEF Trimmed, Cut
    <3>3. C = {}
      BY <2>1, <3>2
    <3>4. Rank(r, L, asc) < a
      <4> HIDE DEF L, asc
      <4> QED BY <1>0, <1>2, <2>2, <3>3, NothingBehind
    <3> QED BY <1>1, <1>3, <2>3, <3>4
  <2> QED BY <2>4, <2>5, <2>6, <2>7
<1>7. NoneTwice(p, n, g2, o, s2, R, D)
  <2> SUFFICES ASSUME Ascends(s2, D)
               PROVE /\ Apart(o, s2)
                     /\ \A r \in InPages(o) \cap s2.rows : p \in Places => Before(r, n, s2, R, D)
                     /\ \A r \in t \cap s2.rows : Before(r, n, s2, R, D) /\ r \notin InPages(o)
    BY DEF NoneTwice, Places
  <2>1. t \subseteq C
    BY <1>4 DEF Ascends
  <2>2. \A r : Before(r, n, s2, R, D) <=> Rank(r, L, asc) < b
    BY DEF Before
  <2>3. \A r \in t : r \in L /\ a <= Rank(r, L, asc) /\ Rank(r, L, asc) < b
    <3>1. C \subseteq L
      BY DEF Cut
    <3> QED BY <1>5, <2>1, <3>1
  <2>4. CASE n = 1
    <3>1. InPages(o) = {} /\ Apart(o, s2)
      BY <1>0, <2>4 DEF InPages, Apart
    <3> QED BY <2>2, <2>3, <3>1
  <2>5. CASE n # 1
    <3>1. s2 = s
      BY <2>5
    <3>2. Apart(o, s) /\ \A r \in InPages(o) \cap s.rows : Before(r, n - 1, s, R, D)
      BY <3>1 DEF NoneTwice
    <3>3. \A r \in InPages(o) \cap s.rows : Rank(r, L, asc) < a
      BY <3>2 DEF Before
    <3> QED BY <1>1, <1>3, <2>2, <2>3, <3>1, <3>2, <3>3
  <2> QED BY <2>4, <2>5
<1> QED BY <1>0, <1>6, <1>7 DEF Begun

\* What is left is counted.
LEMMA CountRows ==
  ASSUME ExportPage \in Nat \ {0}, NEW n \in Nat, NEW g, NEW o, NEW s, NEW R, Rows(R), NEW D,
         s.form \in Forms, NEW g2, g2.rows = g.rows,
         NoneMissed("count", n, g, o, s, R, D), NoneTwice("count", n, g, o, s, R, D),
         Begun("count", n, o),
         ~g2.more /\ s.form.exact => (Cardinality(R) + ExportPage - 1) \div ExportPage <= n,
         ~g2.more /\ ~s.form.exact => ~(Cardinality(g.rows) > ExportPage)
  PROVE  /\ NoneMissed("append", n, g2, o, s, R, D) /\ NoneTwice("append", n, g2, o, s, R, D)
         /\ Begun("append", n, o)
<1>1. NoneTwice("append", n, g2, o, s, R, D)
  BY DEF NoneTwice, Places
<1>2. NoneMissed("append", n, g2, o, s, R, D)
  <2> DEFINE t == Trimmed(s.form, g.rows)
             L == Listing(s.form, R, D)
  <2> SUFFICES ASSUME Descends(s, D), NEW r \in Kept_(s, R, D)
               PROVE /\ r \in InPages(o) \cup t \/ Behind(r, n, s, R, D)
                     /\ ~g2.more => r \in InPages(o) \cup t
    BY DEF NoneMissed, Places
  <2>1. r \in InPages(o) \cup t \/ Behind(r, n, s, R, D)
    BY DEF NoneMissed, Places
  <2>2. CASE ~g2.more /\ ~s.form.exact
    BY <2>1, <2>2 DEF NoneMissed
  <2>3. CASE ~g2.more /\ s.form.exact
    <3>1. Cardinality(R) \in Nat
      BY FS_CardinalityType DEF Rows
    <3>2. Cardinality(R) <= n * ExportPage
      BY <2>3, <3>1, PagesHold
    <3>3. Rows(L) /\ L \subseteq R /\ r \in L
      BY ListingRows DEF Kept_
    <3>4. Cardinality(L) \in Nat /\ Cardinality(L) <= Cardinality(R)
      <4> HIDE DEF L
      <4> QED BY <3>3, FS_Subset, FS_CardinalityType DEF Rows
    <3>5. n # 0 /\ n * ExportPage \in Nat
      BY PageEnds DEF Begun
    <3>6. Rank(r, L, s.form.asc) < n * ExportPage /\ Rank(r, L, s.form.asc) \in Nat
      <4>1. Cardinality(L) <= n * ExportPage
        BY <3>1, <3>2, <3>4, <3>5
      <4>2. s.form.asc \in BOOLEAN
        BY DEF Forms
      <4> HIDE DEF L
      <4> QED BY <3>3, <3>5, <4>1, <4>2, NothingBehind
    <3>7. ~Behind(r, n, s, R, D)
      BY <3>5, <3>6 DEF Behind
    <3> QED BY <2>1, <3>7
  <2> QED BY <2>1, <2>2, <2>3
<1> QED BY <1>1, <1>2 DEF Begun

\* The page is written.
LEMMA AppendRows ==
  ASSUME NEW n \in Nat, NEW g, NEW o, NEW s, NEW R, NEW D, NEW g2, NEW p, NEW T, o \in Seq(T),
         Trimmed(s.form, g.rows) \in T,
         NoneMissed("append", n, g, o, s, R, D), NoneTwice("append", n, g, o, s, R, D),
         Begun("append", n, o), p = IF g.more THEN "look" ELSE "write"
  PROVE  LET o2 == Append(o, Trimmed(s.form, g.rows))
         IN /\ NoneMissed(p, n + 1, g2, o2, s, R, D) /\ NoneTwice(p, n + 1, g2, o2, s, R, D)
            /\ Begun(p, n + 1, o2)
<1> DEFINE t == Trimmed(s.form, g.rows)
           o2 == Append(o, t)
<1> HIDE DEF t
<1>1. InPages(o2) = InPages(o) \cup t
  <2>1. DOMAIN o2 = DOMAIN o \cup {Len(o) + 1} /\ o2[Len(o) + 1] = t /\ \A i \in DOMAIN o : o2[i] = o[i]
    BY DEF t
  <2> HIDE DEF o2
  <2> QED BY <2>1 DEF InPages
<1>2. n + 1 - 1 = n /\ n # 0 /\ n + 1 # 1 /\ n + 1 # 0
  BY DEF Begun
<1>3. NoneMissed(p, n + 1, g2, o2, s, R, D)
  <2> HIDE DEF o2
  <2> SUFFICES ASSUME Descends(s, D), NEW r \in Kept_(s, R, D)
               PROVE /\ p = "look" => r \in InPages(o2) \/ Behind(r, n + 1 - 1, s, R, D)
                     /\ p = "write" => r \in InPages(o2)
    BY DEF NoneMissed, Places
  <2>1. /\ r \in InPages(o) \cup t \/ Behind(r, n, s, R, D)
        /\ ~g.more => r \in InPages(o) \cup t
    BY DEF NoneMissed, Places, t
  <2> QED BY <1>1, <1>2, <2>1
<1>4. NoneTwice(p, n + 1, g2, o2, s, R, D)
  <2> SUFFICES ASSUME Ascends(s, D)
               PROVE /\ Apart(o2, s)
                     /\ \A r \in InPages(o2) \cap s.rows : p = "look" => Before(r, n + 1 - 1, s, R, D)
    BY DEF NoneTwice, Places
  <2>1. /\ Apart(o, s)
        /\ \A r \in InPages(o) \cap s.rows : Before(r, n, s, R, D)
        /\ \A r \in t \cap s.rows : Before(r, n, s, R, D) /\ r \notin InPages(o)
    BY DEF NoneTwice, Places, t
  <2>2. Apart(o2, s)
    <3> SUFFICES ASSUME NEW a \in DOMAIN o2, NEW b \in DOMAIN o2, a # b
                 PROVE  o2[a] \cap o2[b] \cap s.rows = {}
      BY DEF Apart
    <3>1. DOMAIN o2 = DOMAIN o \cup {Len(o) + 1} /\ o2[Len(o) + 1] = t /\ \A i \in DOMAIN o : o2[i] = o[i]
      BY DEF t
    <3>2. \A i \in DOMAIN o : o[i] \cap t \cap s.rows = {}
      BY <2>1 DEF InPages
    <3> HIDE DEF o2
    <3>3. CASE a \in DOMAIN o /\ b \in DOMAIN o
      BY <2>1, <3>1, <3>3 DEF Apart
    <3>4. CASE a \notin DOMAIN o
      BY <3>1, <3>2, <3>4
    <3>5. CASE b \notin DOMAIN o
      BY <3>1, <3>2, <3>5
    <3> QED BY <3>3, <3>4, <3>5
  <2> HIDE DEF o2
  <2> QED BY <1>1, <1>2, <2>1, <2>2
<1>5. Begun(p, n + 1, o2)
  BY <1>2 DEF Begun
<1> QED BY <1>3, <1>4, <1>5 DEF t

\* The table changes.
LEMMA TableRows ==
  ASSUME ExportPage \in Nat \ {0}, NEW p, NEW n \in Nat, NEW g, NEW o, NEW s, NEW s2, NEW R, Rows(R),
         NEW R2, Rows(R2), NEW D, s.form \in Forms, s2.form = s.form, s2.rows = s.rows,
         Kept_(s2, R2, D) \subseteq Kept_(s, R, D),
         Descends(s, D) =>
           \A r \in Kept_(s2, R2, D) : \A q \in R : Precedes(q, r, s.form.asc) => q \in R2,
         Ascends(s2, D) =>
           Ascends(s, D) /\ \A r \in s.rows : \A q \in R2 : Precedes(q, r, s.form.asc) => q \in R,
         NoneMissed(p, n, g, o, s, R, D), NoneTwice(p, n, g, o, s, R, D)
  PROVE  /\ NoneMissed(p, n, g, o, s2, R2, D) /\ NoneTwice(p, n, g, o, s2, R2, D)
         /\ Done(o, s, R, D) => Done(o, s2, R2, D)
<1> DEFINE f == s.form
           asc == f.asc
           L == Listing(f, R, D)
           L2 == Listing(f, R2, D)
<1>0. asc \in BOOLEAN /\ Rows(L) /\ Rows(L2)
  BY ListingRows DEF Forms
<1>1. \A r : Rank(r, L, asc) \in Nat /\ Rank(r, L2, asc) \in Nat
  <2> HIDE DEF L, L2, asc
  <2> QED BY <1>0, RankNat
<1>2. \A m \in Int : m * ExportPage \in Int
  OBVIOUS
<1>3. Descends(s2, D) <=> Descends(s, D)
  BY DEF Descends
<1>4. ASSUME Descends(s, D), NEW r \in Kept_(s2, R2, D), NEW m \in Int, Behind(r, m, s, R, D)
      PROVE  Behind(r, m, s2, R2, D)
  <2>1. \A q \in L : Precedes(q, r, asc) => q \in L2
    BY <1>4 DEF Listing
  <2>2. Rank(r, L, asc) <= Rank(r, L2, asc)
    <3> HIDE DEF L, L2, asc
    <3> QED BY <1>0, <2>1, RankGrows
  <2>3. m * ExportPage <= Rank(r, L, asc)
    BY <1>4 DEF Behind
  <2>4. m * ExportPage <= Rank(r, L2, asc)
    <3> HIDE DEF L, L2
    <3> QED BY <1>1, <1>2, <2>2, <2>3
  <2> QED BY <2>4 DEF Behind
<1>5. ASSUME Ascends(s2, D), NEW r \in s.rows, NEW m \in Int, Before(r, m, s, R, D)
      PROVE  Before(r, m, s2, R2, D)
  <2>1. \A q \in L2 : Precedes(q, r, asc) => q \in L
    BY <1>5 DEF Listing
  <2>2. Rank(r, L2, asc) <= Rank(r, L, asc)
    <3> HIDE DEF L, L2, asc
    <3> QED BY <1>0, <2>1, RankGrows
  <2>3. Rank(r, L, asc) < m * ExportPage
    BY <1>5 DEF Before
  <2>4. Rank(r, L2, asc) < m * ExportPage
    <3> HIDE DEF L, L2
    <3> QED BY <1>1, <1>2, <2>2, <2>3
  <2> QED BY <2>4 DEF Before
<1>6. n \in Int /\ n - 1 \in Int
  OBVIOUS
<1>7. NoneMissed(p, n, g, o, s2, R2, D)
  <2> SUFFICES ASSUME Descends(s2, D), NEW r \in Kept_(s2, R2, D)
      PROVE /\ p \in {"look", "read"} => r \in InPages(o) \/ Behind(r, n - 1, s2, R2, D)
            /\ p \in Places => r \in InPages(o) \cup Trimmed(f, g.rows) \/ Behind(r, n, s2, R2, D)
            /\ p = "count" /\ ~f.exact /\ ~(Cardinality(g.rows) > ExportPage)
                 => r \in InPages(o) \cup Trimmed(f, g.rows)
            /\ p = "append" /\ ~g.more => r \in InPages(o) \cup Trimmed(f, g.rows)
            /\ p \in {"write", "succeed"} => r \in InPages(o)
    BY DEF NoneMissed
  <2>1. r \in Kept_(s, R, D) /\ Descends(s, D)
    BY <1>3
  <2> QED BY <1>4, <1>6, <2>1 DEF NoneMissed
<1>8. NoneTwice(p, n, g, o, s2, R2, D)
  <2> SUFFICES ASSUME Ascends(s2, D)
      PROVE /\ Apart(o, s2)
            /\ \A r \in InPages(o) \cap s.rows :
                 /\ p \in {"look", "read"} => Before(r, n - 1, s2, R2, D)
                 /\ p \in Places => Before(r, n, s2, R2, D)
            /\ p \in Places => \A r \in Trimmed(f, g.rows) \cap s.rows :
                                 Before(r, n, s2, R2, D) /\ r \notin InPages(o)
    BY DEF NoneTwice
  <2>1. Ascends(s, D) /\ Apart(o, s2)
    BY DEF NoneTwice, Apart
  <2> QED BY <1>5, <1>6, <2>1 DEF NoneTwice
<1>9. Done(o, s, R, D) => Done(o, s2, R2, D)
  BY <1>3 DEF Done
<1> QED BY <1>7, <1>8, <1>9

LEMMA PageDone ==
  ASSUME NEW p \in {"write", "succeed"}, NEW n, NEW g, NEW o, NEW s, NEW R, NEW D,
         NoneMissed(p, n, g, o, s, R, D)
  PROVE  Done(o, s, R, D)
BY DEF NoneMissed, Done

\* What Exported says of a state, with the parts of it that a step changes.
LEMMA ExportedNext ==
  ASSUME NEW j, NEW p, NEW n, NEW g, NEW o, NEW s, NEW R, NEW D,
         NoneMissed(p, n, g, o, s, R, D), NoneTwice(p, n, g, o, s, R, D), Begun(p, n, o),
         exportAt'[j] = p, page'[j] = n, got'[j] = g, out'[j] = o, start'[j] = s, logRows' = R, dangling' = D,
         Shows(j, "success")' => Done(o, s, R, D)
  PROVE  Exported(j)'
<1>1. NoneMissed(exportAt'[j], page'[j], got'[j], out'[j], start'[j], logRows', dangling')
  OBVIOUS
<1>2. NoneTwice(exportAt'[j], page'[j], got'[j], out'[j], start'[j], logRows', dangling')
  OBVIOUS
<1>3. Begun(exportAt'[j], page'[j], out'[j])
  OBVIOUS
<1>4. Done(out'[j], start'[j], logRows', dangling') = Done(o, s, R, D)
  OBVIOUS
<1> QED BY <1>1, <1>2, <1>3, <1>4 DEF Exported

LEMMA GoroutineRows ==
  ASSUME ExportConstants, ExportTypes, FileInv, FileInv', RowsInv, NEW j \in Jobs, Goroutine(j)
  PROVE  RowsInv'
<1> USE DEF ExportTypes
<1>0. ExportPage \in Nat \ {0} /\ Rows(logRows)
  BY DEF ExportConstants, TableOK
<1>1. UNCHANGED <<logRows, dangling>>
  BY DEF Goroutine, Begin, RunJob, GetPath, Open, LookAtFlag, Read, Count, AppendPage, Write,
         Succeed, GiveUp, Kept
<1>2. ASSUME NEW k \in Jobs, k # j PROVE Exported(k)'
  <2>1. Shows(k, "success")' => Shows(k, "success")
    <3>1. CASE UNCHANGED jobs
      BY <3>1 DEF Shows, Exists
    <3>2. CASE \E s : Update(j, s)
      BY <1>2, <3>2, UpdateIs DEF Shows
    <3>3. CASE AppendPage(j) /\ ~IsCanceled(j)
      <4>1. jobs' = [jobs EXCEPT ![j].fresh = TRUE]
        BY <3>3 DEF AppendPage
      <4> QED BY <1>2, <4>1 DEF Shows, Exists, JobsOK
    <3> QED BY <3>1, <3>2, <3>3
            DEF Goroutine, Begin, RunJob, GetPath, Open, LookAtFlag, Read, Count, AppendPage, Write,
                Succeed, GiveUp
  <2>2. /\ exportAt'[k] = exportAt[k] /\ page'[k] = page[k] /\ got'[k] = got[k] /\ out'[k] = out[k]
        /\ start'[k] = start[k]
    BY <1>2 DEF Goroutine, Begin, RunJob, GetPath, Open, LookAtFlag, Read, Count, AppendPage,
         Write,
                Succeed, GiveUp, Go, LocalsOK
  <2>3. Exported(k)
    BY DEF RowsInv
  <2>4. Still(k)
    BY <2>1, <2>2 DEF Still
  <2> QED BY <1>1, <2>3, <2>4, StillKept
<1>3. SUFFICES Exported(j)'
  BY <1>2 DEF RowsInv
<1> DEFINE p == exportAt[j]
           n == page[j]
           g == got[j]
           o == out[j]
           s == start[j]
<1>4. /\ NoneMissed(p, n, g, o, s, logRows, dangling) /\ NoneTwice(p, n, g, o, s, logRows, dangling)
      /\ Begun(p, n, o)
  BY DEF RowsInv, Exported
<1>5. n \in Nat /\ s.form \in Forms /\ o \in Seq(SUBSET Int)
  BY DEF LocalsOK
\* Shows a success: then it is done.
<1>6. Shows(j, "success")' => exportAt'[j] = "done"
  BY DEF FileInv, Orderly, Shown
<1>7. ASSUME NEW q, exportAt'[j] = q, UNCHANGED <<page, got, out, start>>,
             \/ q \in {"begin", "run", "path", "open"} /\ o = <<>>
             \/ q \in {"giveUp", "done"}
             \/ p = "look" /\ q = "read"
             \/ p = "write" /\ q = "succeed",
             Shows(j, "success")' => p = "succeed"
      PROVE  Exported(j)'
  <2>1. /\ NoneMissed(q, n, g, o, s, logRows, dangling) /\ NoneTwice(q, n, g, o, s, logRows, dangling)
        /\ Begun(q, n, o)
    <3> HIDE DEF p, n, g, o, s
    <3> QED BY <1>4, <1>7, MovesOn
  <2>2. Shows(j, "success")' => Done(o, s, logRows, dangling)
    BY <1>4, <1>7, PageDone
  <2>3. page'[j] = n /\ got'[j] = g /\ out'[j] = o /\ start'[j] = s
    BY <1>7
  <2> HIDE DEF p, n, g, o, s
  <2> QED BY <1>1, <1>7, <2>1, <2>2, <2>3, ExportedNext
<1>8. CASE Begin(j)
  <2>1. p = "begin" /\ exportAt'[j] \in {"giveUp", "run"} /\ UNCHANGED <<page, got, out, start>>
    BY <1>8 DEF Begin, Go, LocalsOK
  <2>2. o = <<>>
    BY <1>4, <2>1 DEF Begun
  <2> QED BY <1>6, <1>7, <2>1, <2>2
<1>9. CASE RunJob(j)
  <2>1. p = "run" /\ exportAt'[j] = "path" /\ UNCHANGED <<page, got, out, start>>
    BY <1>9 DEF RunJob, Go, LocalsOK
  <2>2. o = <<>>
    BY <1>4, <2>1 DEF Begun
  <2> QED BY <1>6, <1>7, <2>1, <2>2
<1>10. CASE GetPath(j)
  <2>1. /\ p = "path" /\ UNCHANGED <<page, got, out, start, jobs>>
        /\ exportAt'[j] = IF Exists(j) THEN "open" ELSE "done"
    BY <1>10 DEF GetPath, Go, LocalsOK
  <2>2. o = <<>>
    BY <1>4, <2>1 DEF Begun
  <2>3. ~Exists(j) => ~Shows(j, "success")'
    BY <2>1 DEF Shows, Exists
  <2> QED BY <1>6, <1>7, <2>1, <2>2, <2>3
<1>11. CASE Open(j)
  <2>1. /\ p = "open" /\ exportAt'[j] = "look" /\ UNCHANGED <<got, out, start, jobs>> /\ page'[j] = 1
    BY <1>11 DEF Open, Go, LocalsOK
  <2>2. o = <<>>
    BY <1>4, <2>1 DEF Begun
  <2>3. /\ NoneMissed("look", 1, g, <<>>, s, logRows, dangling)
        /\ NoneTwice("look", 1, g, <<>>, s, logRows, dangling) /\ Begun("look", 1, <<>>)
    <3> HIDE DEF g, s
    <3> QED BY <1>0, <1>5, OpenRows
  <2>4. ~Shows(j, "success")'
    BY <1>6, <2>1
  <2>5. got'[j] = g /\ out'[j] = <<>> /\ start'[j] = s
    BY <2>1, <2>2
  <2> HIDE DEF g, s
  <2> QED BY <1>1, <2>1, <2>3, <2>4, <2>5, ExportedNext
<1>12. CASE LookAtFlag(j)
  <2>1. p = "look" /\ exportAt'[j] \in {"giveUp", "read"} /\ UNCHANGED <<page, got, out, start>>
    BY <1>12 DEF LookAtFlag, Go, LocalsOK
  <2> QED BY <1>6, <1>7, <2>1
<1>13. CASE Read(j)
  <2> DEFINE t == Page(s.form, n)
             q == IF t = {} THEN "write" ELSE "count"
             s2 == start'[j]
             g2 == got'[j]
  <2>1. p = "read" /\ exportAt'[j] = q /\ page'[j] = n /\ out'[j] = o
    BY <1>13 DEF Read, Go, LocalsOK
  <2>2. g2.rows = t /\ t = ThePage(s.form, n, logRows, dangling)
    BY <1>13 DEF Read, LocalsOK, Page, FastPage, SlowPage, ThePage
  <2>3. s2.form = s.form /\ (n # 1 => s2 = s)
    BY <1>13 DEF Read, LocalsOK
  <2>4. /\ NoneMissed("read", n, g, o, s, logRows, dangling) /\ Begun("read", n, o)
        /\ NoneTwice("read", n, g, o, s, logRows, dangling)
    BY <1>4, <2>1
  <2>5. /\ NoneMissed(q, n, g2, o, s2, logRows, dangling) /\ NoneTwice(q, n, g2, o, s2, logRows, dangling)
        /\ Begun(q, n, o)
    <3>1. q = IF g2.rows = {} THEN "write" ELSE "count"
      BY <2>2
    <3>2. g2.rows = ThePage(s.form, n, logRows, dangling)
      BY <2>2
    <3>3. IF n = 1 THEN TRUE ELSE s2 = s
      BY <2>3
    <3>4. s2.form = s.form
      BY <2>3
    <3> HIDE DEF n, g, o, s, g2, s2, q, t
    <3> QED BY <1>0, <1>5, <2>4, <3>1, <3>2, <3>3, <3>4, ReadRows
  <2>6. ~Shows(j, "success")'
    BY <1>6, <2>1
  <2> HIDE DEF n, o, q
  <2> QED BY <1>1, <2>1, <2>5, <2>6, ExportedNext
<1>14. CASE Count(j)
  <2> DEFINE g2 == got'[j]
  <2>1. p = "count" /\ exportAt'[j] = "append" /\ UNCHANGED <<page, out, start>>
    BY <1>14 DEF Count, Go, LocalsOK
  <2>2. g2.rows = g.rows /\ g2.more = More(j)
    BY <1>14 DEF Count, LocalsOK
  <2>3. ~g2.more /\ s.form.exact => (Cardinality(logRows) + ExportPage - 1) \div ExportPage <= n
    <3>1. ASSUME s.form.exact, ~More(j) PROVE Pages <= n
      <4>1. Cardinality(logRows) \in Nat
        BY <1>0, FS_CardinalityType DEF Rows
      <4>2. Pages \in Int
        BY <1>0, <4>1 DEF Pages
      <4> QED BY <1>5, <3>1, <4>2 DEF More
    <3> QED BY <2>2, <3>1 DEF Pages
  <2>4. ~g2.more /\ ~s.form.exact => ~(Cardinality(g.rows) > ExportPage)
    BY <2>2 DEF More
  <2>5. /\ NoneMissed("count", n, g, o, s, logRows, dangling) /\ Begun("count", n, o)
        /\ NoneTwice("count", n, g, o, s, logRows, dangling)
    BY <1>4, <2>1
  <2>6. /\ NoneMissed("append", n, g2, o, s, logRows, dangling)
        /\ NoneTwice("append", n, g2, o, s, logRows, dangling) /\ Begun("append", n, o)
    <3>1. g2.rows = g.rows
      BY <2>2
    <3> HIDE DEF n, g, o, s, g2
    <3> QED BY <1>0, <1>5, <2>3, <2>4, <2>5, <3>1, CountRows
  <2>7. ~Shows(j, "success")' /\ page'[j] = n /\ out'[j] = o /\ start'[j] = s
    BY <1>6, <2>1
  <2> HIDE DEF n, o, s
  <2> QED BY <1>1, <2>1, <2>6, <2>7, ExportedNext
<1>15. CASE AppendPage(j)
  <2> DEFINE g2 == got'[j]
             t == Trimmed(s.form, g.rows)
             q == IF g.more THEN "look" ELSE "write"
             o2 == Append(o, t)
  <2>1. p = "append" /\ page'[j] = n + 1 /\ start'[j] = s
    BY <1>15 DEF AppendPage, Go, LocalsOK
  <2>2. CASE IsCanceled(j)
    <3>1. exportAt'[j] = "giveUp" /\ out'[j] = o
      BY <1>15, <2>2 DEF AppendPage, Go, LocalsOK
    <3>2. NoneMissed("giveUp", n + 1, g2, o, s, logRows, dangling)
      BY DEF NoneMissed, Places
    <3>3. NoneTwice("giveUp", n + 1, g2, o, s, logRows, dangling)
      BY <1>4 DEF NoneTwice, Places
    <3>4. Begun("giveUp", n + 1, o) /\ ~Shows(j, "success")'
      BY <1>6, <3>1 DEF Begun
    <3> HIDE DEF n, o, s
    <3> QED BY <1>1, <2>1, <3>1, <3>2, <3>3, <3>4, ExportedNext
  <2>3. CASE ~IsCanceled(j)
    <3>1. exportAt'[j] = q /\ out'[j] = o2
      BY <1>15, <2>3 DEF AppendPage, Go, LocalsOK
    <3>2. t \in SUBSET Int
      BY CutInt DEF Trimmed, LocalsOK
    <3>3. /\ NoneMissed("append", n, g, o, s, logRows, dangling) /\ Begun("append", n, o)
          /\ NoneTwice("append", n, g, o, s, logRows, dangling)
      BY <1>4, <2>1
    <3>4. /\ NoneMissed(q, n + 1, g2, o2, s, logRows, dangling)
          /\ NoneTwice(q, n + 1, g2, o2, s, logRows, dangling) /\ Begun(q, n + 1, o2)
      <4>1. q = IF g.more THEN "look" ELSE "write"
        OBVIOUS
      <4>2. Trimmed(s.form, g.rows) \in SUBSET Int
        BY <3>2
      <4> HIDE DEF n, g, o, s, g2, q
      <4> QED BY <1>5, <3>3, <4>1, <4>2, AppendRows
    <3>5. ~Shows(j, "success")'
      BY <1>6, <3>1
    <3> HIDE DEF n, s, q, o2
    <3> QED BY <1>1, <2>1, <3>1, <3>4, <3>5, ExportedNext
  <2> QED BY <2>2, <2>3
<1>16. CASE Write(j)
  <2>1. p = "write" /\ exportAt'[j] = "succeed" /\ UNCHANGED <<page, got, out, start>>
    BY <1>16 DEF Write, Go, LocalsOK
  <2> QED BY <1>6, <1>7, <2>1
<1>17. CASE Succeed(j)
  <2>1. p = "succeed" /\ exportAt'[j] = "done" /\ UNCHANGED <<page, got, out, start>>
    BY <1>17 DEF Succeed, Go, LocalsOK
  <2> QED BY <1>7, <2>1
<1>18. CASE GiveUp(j)
  <2>1. p = "giveUp" /\ exportAt'[j] = "done" /\ UNCHANGED <<page, got, out, start>> /\ Update(j, "canceled")
    BY <1>18 DEF GiveUp, Go, LocalsOK
  <2>2. ~Shows(j, "success")'
    BY <2>1, UpdateIs DEF Shows
  <2> QED BY <1>7, <2>1, <2>2
<1> QED BY <1>8, <1>9, <1>10, <1>11, <1>12, <1>13, <1>14, <1>15, <1>16, <1>17, <1>18 DEF Goroutine

LEMMA CreateRows ==
  ASSUME ExportTypes, FileInv', RowsInv, NEW j \in Jobs, NEW f, Create(j, f)
  PROVE  RowsInv'
<1> USE DEF ExportTypes
<1>1. /\ exportAt[j] = "new" /\ exportAt' = [exportAt EXCEPT ![j] = "begin"] /\ UNCHANGED <<
                                                                                            logRows,
                                                                                            dangling,
                                                                                            page,
                                                                                            got,
                                                                                            out>>
      /\ jobs' = [i \in DOMAIN Without(Stale) \cup {j} |-> IF i = j THEN NewJob(f) ELSE jobs[i]]
      /\ start' = [start EXCEPT ![j].form = f]
  BY DEF Create, DropStale
<1> SUFFICES ASSUME NEW k \in Jobs PROVE Exported(k)'
  BY DEF RowsInv
<1>2. Exported(k)
  BY DEF RowsInv
<1>3. CASE k # j
  <2>1. Shows(k, "success")' => Shows(k, "success")
    BY <1>1, <1>3 DEF Shows, Exists, Without
  <2>2. Still(k)
    BY <1>1, <1>3, <2>1 DEF Still, LocalsOK
  <2> QED BY <1>1, <1>2, <2>2, StillKept
<1>4. CASE k = j
  <2>1. exportAt'[j] = "begin" /\ out'[j] = <<>>
    BY <1>1, <1>2, <1>4 DEF Exported, Begun, LocalsOK
  <2>2. NoneMissed(exportAt'[j], page'[j], got'[j], out'[j], start'[j], logRows', dangling')
    BY <2>1 DEF NoneMissed, Places
  <2>3. NoneTwice(exportAt'[j], page'[j], got'[j], out'[j], start'[j], logRows', dangling')
    BY <2>1 DEF NoneTwice, Places, Apart, InPages
  <2>4. ~Shows(j, "success")'
    BY <2>1 DEF FileInv, Orderly, Shown
  <2> QED BY <1>4, <2>1, <2>2, <2>3, <2>4 DEF Exported, Begun
<1> QED BY <1>3, <1>4

\* The table changes, and with it, at most, what came since a first page.
LEMMA TableStepRows ==
  ASSUME ExportConstants, ExportTypes, Rows(logRows'), RowsInv, UNCHANGED <<dangling, jobs, exportAt, page, got, out>>,
         \A j \in Jobs : start'[j].form = start[j].form /\ start'[j].rows = start[j].rows,
         \A j \in Jobs :
           /\ Kept_(start'[j], logRows', dangling) \subseteq Kept_(start[j], logRows, dangling)
           /\ Descends(start[j], dangling) =>
                \A r \in Kept_(start'[j], logRows', dangling) :
                  \A q \in logRows : Precedes(q, r, start[j].form.asc) => q \in logRows'
           /\ Ascends(start'[j], dangling) =>
                /\ Ascends(start[j], dangling)
                /\ \A r \in start[j].rows :
                     \A q \in logRows' : Precedes(q, r, start[j].form.asc) => q \in logRows
  PROVE  RowsInv'
<1> SUFFICES ASSUME NEW j \in Jobs PROVE Exported(j)'
  BY DEF RowsInv
<1> DEFINE p == exportAt[j]
           n == page[j]
           g == got[j]
           o == out[j]
           s == start[j]
           s2 == start'[j]
           R2 == logRows'
<1>1. /\ NoneMissed(p, n, g, o, s, logRows, dangling) /\ NoneTwice(p, n, g, o, s, logRows, dangling)
      /\ Begun(p, n, o) /\ (Shows(j, "success") => Done(o, s, logRows, dangling))
  BY DEF RowsInv, Exported
<1>2. n \in Nat /\ s.form \in Forms /\ ExportPage \in Nat \ {0} /\ Rows(logRows) /\ Rows(R2)
  BY DEF LocalsOK, ExportConstants, ExportTypes, TableOK
<1>3. s2.form = s.form /\ s2.rows = s.rows
  OBVIOUS
<1>4. /\ Kept_(s2, R2, dangling) \subseteq Kept_(s, logRows, dangling)
      /\ Descends(s, dangling) =>
           \A r \in Kept_(s2, R2, dangling) : \A q \in logRows : Precedes(q, r, s.form.asc) => q \in R2
      /\ Ascends(s2, dangling) =>
           /\ Ascends(s, dangling)
           /\ \A r \in s.rows : \A q \in R2 : Precedes(q, r, s.form.asc) => q \in logRows
  OBVIOUS
<1>5. exportAt'[j] = p /\ page'[j] = n /\ got'[j] = g /\ out'[j] = o /\ start'[j] = s2 /\ logRows' = R2
      /\ dangling' = dangling /\ (Shows(j, "success")' <=> Shows(j, "success"))
  BY DEF Shows, Exists
<1> HIDE DEF p, n, g, o, s, s2, R2
<1>6. /\ NoneMissed(p, n, g, o, s2, R2, dangling) /\ NoneTwice(p, n, g, o, s2, R2, dangling)
      /\ Done(o, s, logRows, dangling) => Done(o, s2, R2, dangling)
  BY <1>1, <1>2, <1>3, <1>4, TableRows
<1> QED BY <1>1, <1>5, <1>6, ExportedNext

LEMMA InsertRows ==
  ASSUME ExportConstants, ExportTypes, ExportTypes', RowsInv, NEW r0 \in exportsLeft.rows, Insert(r0)
  PROVE  RowsInv'
<1>1. /\ logRows' = logRows \cup {r0} /\ UNCHANGED <<dangling, jobs, exportAt, page, got, out>>
      /\ start' = [j \in Jobs |-> [start[j] EXCEPT !.came = @ \cup {r0}]]
  BY DEF Insert
<1>2. \A j \in Jobs : /\ start'[j].form = start[j].form /\ start'[j].rows = start[j].rows
                      /\ start'[j].came = start[j].came \cup {r0}
  BY <1>1 DEF ExportTypes, LocalsOK
<1>3. ASSUME NEW j \in Jobs
      PROVE  /\ Kept_(start'[j], logRows', dangling) \subseteq Kept_(start[j], logRows, dangling)
             /\ Ascends(start'[j], dangling) =>
                  /\ Ascends(start[j], dangling)
                  /\ \A r \in start[j].rows :
                       \A q \in logRows' : Precedes(q, r, start[j].form.asc) => q \in logRows
  <2>1. r0 \notin start[j].rows /\ r0 \in Int /\ start[j].rows \subseteq Int
    BY DEF ExportTypes, IdsNew, TableOK, LocalsOK
  <2>2. Kept_(start'[j], logRows', dangling) \subseteq Kept_(start[j], logRows, dangling)
    BY <1>1, <1>2, <2>1 DEF Kept_
  <2>3. ASSUME Ascends(start'[j], dangling), NEW r \in start[j].rows
        PROVE  ~Precedes(r0, r, start[j].form.asc)
    BY <1>2, <2>1, <2>3 DEF Ascends, Precedes
  <2>4. Ascends(start'[j], dangling) => Ascends(start[j], dangling)
    BY <1>2 DEF Ascends
  <2> QED BY <1>1, <2>2, <2>3, <2>4
<1>4. Rows(logRows') /\ logRows \subseteq logRows'
  BY <1>1 DEF ExportTypes, TableOK
<1> QED BY <1>1, <1>2, <1>3, <1>4, TableStepRows

LEMMA RetentionRows ==
  ASSUME ExportConstants, ExportTypes, ExportTypes', RowsInv, Retention
  PROVE  RowsInv'
<1>1. /\ logRows # {} /\ logRows' = logRows \ {Min(logRows)}
      /\ UNCHANGED <<dangling, jobs, exportAt, page, got, out, start>>
  BY DEF Retention, locals
<1>2. Rows(logRows) /\ Rows(logRows')
  BY DEF ExportTypes, TableOK
<1>3. \A r \in logRows : Min(logRows) <= r
  BY <1>1, <1>2, MinIs
<1>4. ASSUME NEW j \in Jobs
      PROVE  /\ Kept_(start'[j], logRows', dangling) \subseteq Kept_(start[j], logRows, dangling)
             /\ Descends(start[j], dangling) =>
                  \A r \in Kept_(start'[j], logRows', dangling) :
                    \A q \in logRows : Precedes(q, r, start[j].form.asc) => q \in logRows'
  <2>1. Kept_(start'[j], logRows', dangling) \subseteq Kept_(start[j], logRows, dangling)
    BY <1>1 DEF Kept_
  <2>2. ASSUME Descends(start[j], dangling), NEW r \in Kept_(start'[j], logRows', dangling), NEW q \in logRows,
               Precedes(q, r, start[j].form.asc)
        PROVE  q \in logRows'
    <3>1. q > r /\ r \in logRows
      BY <1>1, <2>2 DEF Descends, Precedes, Kept_
    <3>2. Min(logRows) <= r /\ r \in Int /\ q \in Int
      BY <1>2, <1>3, <3>1 DEF Rows
    <3>3. Min(logRows) \in Int
      BY <1>1, <1>2, MinIs DEF Rows
    <3> QED BY <1>1, <3>1, <3>2, <3>3
  <2> QED BY <2>1, <2>2
<1>5. logRows' \subseteq logRows
  BY <1>1
<1> QED BY <1>1, <1>2, <1>4, <1>5, TableStepRows

LEMMA NextRows ==
  ASSUME ExportConstants, ExportTypes, ExportTypes', FileInv, FileInv', RowsInv, [ExportNext]_exportVars
  PROVE  RowsInv'
<1>1. ASSUME UNCHANGED <<logRows, dangling, locals>>,
             \A k \in Jobs : Shows(k, "success")' => Shows(k, "success")
      PROVE  RowsInv'
  BY <1>1, StillKept DEF RowsInv, Still, locals
<1>2. CASE UNCHANGED exportVars
  BY <1>1, <1>2 DEF exportVars, Shows, Exists
<1>3. CASE Look
  BY <1>1, <1>3 DEF Look, DropStale, Shows, Exists, Without
<1>4. CASE DayPasses
  BY <1>1, <1>4 DEF DayPasses, Shows, Exists, ExportTypes, JobsOK, JobRecords
<1>5. ASSUME NEW j \in Jobs, Cancel(j) PROVE RowsInv'
  <2>1. \A k \in Jobs : Shows(k, "success")' => Shows(k, "success")
    BY <1>5 DEF Cancel, Shows, Exists, ExportTypes, JobsOK, JobRecords, Final
  <2> QED BY <1>1, <1>5, <2>1 DEF Cancel
<1>6. ASSUME NEW j \in Jobs, exportAt'[j] = "done", out'[j] = out[j], start'[j] = start[j], Exported(j),
             UNCHANGED <<logRows, dangling>>, ~Shows(j, "success")'
      PROVE  Exported(j)'
  <2>1. NoneMissed(exportAt'[j], page'[j], got'[j], out'[j], start'[j], logRows', dangling')
    BY <1>6 DEF NoneMissed, Places
  <2>2. NoneTwice(exportAt'[j], page'[j], got'[j], out'[j], start'[j], logRows', dangling')
    <3>1. NoneTwice("done", page'[j], got'[j], out[j], start[j], logRows, dangling)
      BY <1>6 DEF Exported, NoneTwice, Places
    <3> QED BY <1>6, <3>1
  <2> QED BY <1>6, <2>1, <2>2 DEF Exported, Begun
<1>7. ASSUME NEW j \in Jobs, Fail(j) PROVE RowsInv'
  <2>1. /\ Update(j, "failed") /\ exportAt' = [exportAt EXCEPT ![j] = "done"]
        /\ UNCHANGED <<logRows, dangling, page, got, out, start>>
    BY <1>7 DEF Fail
  <2>2. JobsOK /\ LocalsOK
    BY DEF ExportTypes
  <2>3. \A k \in Jobs : (k # j /\ Shows(k, "success")') => Shows(k, "success")
    BY <2>1, <2>2, UpdateIs DEF Shows
  <2>4. ~Shows(j, "success")'
    BY <2>1, <2>2, UpdateIs DEF Shows
  <2> SUFFICES ASSUME NEW k \in Jobs PROVE Exported(k)'
    BY DEF RowsInv
  <2>5. CASE k = j
    BY <1>6, <2>1, <2>2, <2>4, <2>5 DEF RowsInv, LocalsOK
  <2>6. CASE k # j
    <3>1. Still(k)
      BY <2>1, <2>2, <2>3, <2>6 DEF Still, LocalsOK
    <3> QED BY <2>1, <3>1, StillKept DEF RowsInv
  <2> QED BY <2>5, <2>6
<1>8. CASE Restart
  <2>1. /\ jobs' = <<>> /\ UNCHANGED <<logRows, dangling, page, got, out, start>>
        /\ exportAt' = [j \in Jobs |-> IF exportAt[j] = "new" THEN "new" ELSE "done"]
    BY <1>8 DEF Restart
  <2> SUFFICES ASSUME NEW k \in Jobs PROVE Exported(k)'
    BY DEF RowsInv
  <2>2. ~Shows(k, "success")'
    BY <2>1 DEF Shows, Exists
  <2>3. CASE exportAt[k] = "new"
    <3>1. Still(k)
      BY <2>1, <2>2, <2>3 DEF Still
    <3> QED BY <2>1, <3>1, StillKept DEF RowsInv
  <2>4. CASE exportAt[k] # "new"
    BY <1>6, <2>1, <2>2, <2>4 DEF RowsInv
  <2> QED BY <2>3, <2>4
<1>9. ASSUME NEW j \in Jobs, NEW k \in Jobs, Retry(j, k) PROVE RowsInv'
  <2>1. Create(j, jobs[k].form)
    BY <1>9 DEF Retry
  <2> QED BY <2>1, CreateRows
<1> QED BY <1>2, <1>3, <1>4, <1>5, <1>7, <1>8, <1>9, GoroutineRows, CreateRows, InsertRows,
           RetentionRows DEF ExportNext

----------------------------------------------------------------------------
(* THE THEOREMS                                                              *)

ExportInv == ExportTypes /\ FileInv /\ RowsInv

LEMMA ExportInvariant == ExportConstants => (ExportInit /\ [][ExportNext]_exportVars => []ExportInv)
<1> SUFFICES ASSUME ExportConstants PROVE ExportInit /\ [][ExportNext]_exportVars => []ExportInv
  OBVIOUS
<1>1. ExportInit => ExportInv
  BY ExportInitTypes, InitFiles, InitRows DEF ExportInv
<1>2. ExportInv /\ [ExportNext]_exportVars => ExportInv'
  BY ExportNextTypes, NextFiles, NextRows DEF ExportInv
<1> QED BY <1>1, <1>2, PTL

\* A file that is offered is whole, and every other file has somebody to remove it:
\* the jobs of logs_export_jobs.go, for any number of them, of days, faults and restarts.
THEOREM FilesAreOwned == ExportConstants => (ExportInit /\ [][ExportNext]_exportVars => []FilesOwned)
<1>1. ExportInv => FilesOwned
  BY FilesAgree DEF ExportInv
<1> QED BY <1>1, ExportInvariant, PTL

\* A cancelled job is not shown as a success but when its goroutine had looked at the
\* flag for the last time.
THEOREM CancelIsHonoured == ExportConstants => (ExportInit /\ [][ExportNext]_exportVars => []CancelHonoured)
<1>1. ExportInv => CancelHonoured
  BY FilesAgree DEF ExportInv
<1> QED BY <1>1, ExportInvariant, PTL

\* The file of an export has the rows of its first page's table once, for any table, page
\* size and form of query, and whatever comes and goes while it is written.
THEOREM RowsAreInFile == ExportConstants => (ExportInit /\ [][ExportNext]_exportVars => []RowsExported)
<1>1. ExportInv => RowsExported
  BY RowsAreExported DEF ExportInv
<1> QED BY <1>1, ExportInvariant, PTL

----------------------------------------------------------------------------
(* BYTES AND LINES                                                           *)

LEMMA MinOfTwo ==
  ASSUME NEW a \in Int, NEW b \in Int
  PROVE  Min({a, b}) = IF a <= b THEN a ELSE b
<1> DEFINE m == IF a <= b THEN a ELSE b
<1>1. m \in {a, b} /\ \A y \in {a, b} : m <= y
  OBVIOUS
<1>2. Min({a, b}) \in {a, b} /\ \A y \in {a, b} : Min({a, b}) <= y
  BY <1>1, Zenon DEF Min
<1> QED BY <1>1, <1>2

LEMMA MaxOfTwo ==
  ASSUME NEW a \in Int, NEW b \in Int
  PROVE  Max({a, b}) = IF a >= b THEN a ELSE b
<1> DEFINE m == IF a >= b THEN a ELSE b
<1>1. m \in {a, b} /\ \A y \in {a, b} : m >= y
  OBVIOUS
<1>2. Max({a, b}) \in {a, b} /\ \A y \in {a, b} : Max({a, b}) >= y
  BY <1>1, Zenon DEF Max
<1> QED BY <1>1, <1>2

\* A line is three bytes, or four.
LEMMA Widths == Width \in {3, 4} /\ (~Crlf => Width = 3)
  BY DEF Width

LEMMA Starts ==
  ASSUME NEW k \in Int
  PROVE  /\ Start(k) \in Int
         /\ Start(k + 1) = Start(k) + Width
         /\ k >= 1 => Start(k) >= 0
         /\ \A j \in Int : (j < k) => Start(j) + Width <= Start(k)
<1>1. CASE Width = 3
  BY <1>1 DEF Start
<1>2. CASE Width = 4
  BY <1>2 DEF Start
<1> QED BY <1>1, <1>2, Widths

\* The line that a position is of.
LEMMA LinePlace ==
  ASSUME NEW p \in Nat
  PROVE  /\ LineOf(p) \in Nat \ {0}
         /\ Start(LineOf(p)) <= p
         /\ p < Start(LineOf(p)) + Width
         /\ p % Width = 0 => p = Start(LineOf(p))
<1>1. CASE Width = 3
  BY <1>1 DEF Start, LineOf
<1>2. CASE Width = 4
  BY <1>2 DEF Start, LineOf
<1> QED BY <1>1, <1>2, Widths

LEMMA LineEdges ==
  ASSUME NEW p \in Nat
  PROVE  /\ LineOf(p) \in Nat \ {0}
         /\ Start(LineOf(p)) \in Int /\ Start(LineOf(p) + 1) \in Int
         /\ Start(LineOf(p)) <= p /\ p < Start(LineOf(p) + 1)
<1> DEFINE k == LineOf(p)
<1>1. k \in Nat \ {0} /\ Start(k) <= p /\ p < Start(k) + Width
  BY LinePlace
<1> HIDE DEF k
<1>2. Start(k) \in Int /\ Start(k + 1) = Start(k) + Width
  BY <1>1, Starts
<1> QED BY <1>1, <1>2, Widths DEF k

LEMMA LaterLine ==
  ASSUME NEW j \in Int, NEW k \in Int, j < k
  PROVE  /\ Start(j) \in Int /\ Start(k) \in Int
         /\ Start(j) + Width <= Start(k) /\ Start(j + 1) <= Start(k)
<1>1. Start(j) \in Int /\ Start(k) \in Int /\ Start(j) + Width <= Start(k)
  BY Starts
<1>2. Start(j + 1) = Start(j) + Width
  BY Starts
<1> QED BY <1>1, <1>2

LEMMA LineOfStart ==
  ASSUME NEW k \in Nat \ {0}
  PROVE  LineOf(Start(k)) = k /\ Start(k) % Width = 0
<1>1. CASE Width = 3
  BY <1>1 DEF Start, LineOf
<1>2. CASE Width = 4
  BY <1>2 DEF Start, LineOf
<1> QED BY <1>1, <1>2, Widths

LEMMA LineBefore ==
  ASSUME NEW p \in Nat \ {0}, p % Width = 0
  PROVE  p = Start(LineOf(p - 1) + 1)
<1>1. CASE Width = 3
  BY <1>1 DEF Start, LineOf
<1>2. CASE Width = 4
  BY <1>2 DEF Start, LineOf
<1> QED BY <1>1, <1>2, Widths

\* What is counted for a line never passes its end; without a CR it reaches it, when
\* the line is read to its end.
LEMMA CountOfLine ==
  ASSUME NEW p \in Nat, NEW stop \in Nat, p < stop
  PROVE  /\ LinesCounted(p, stop) \in Nat
         /\ p + LinesCounted(p, stop) <= Start(LineOf(p) + 1)
         /\ ~Crlf /\ Start(LineOf(p) + 1) <= stop => p + LinesCounted(p, stop) = Start(LineOf(p) + 1)
<1> DEFINE s == Start(LineOf(p))
           e == Start(LineOf(p) + 1)
<1>1. s \in Int /\ e = s + Width /\ s <= p /\ p < s + Width
  BY LinePlace, Starts
<1>2. EndOf(p, stop) = IF e <= stop THEN e ELSE stop
  BY <1>1, MinOfTwo, Widths DEF EndOf
<1>3. Max({1, s + 3 - p}) = IF 1 >= s + 3 - p THEN 1 ELSE s + 3 - p
  BY <1>1, MaxOfTwo
<1> DEFINE u == EndOf(p, stop) - p + 1
           v == Max({1, s + 3 - p})
<1>4. u \in Int /\ v \in Int
  BY <1>1, <1>2, <1>3, Widths
<1>5. LinesCounted(p, stop) = IF u <= v THEN u ELSE v
  BY <1>4, MinOfTwo DEF LinesCounted
<1> QED BY <1>1, <1>2, <1>3, <1>5, Widths

----------------------------------------------------------------------------
(* A BATCH OF LINES                                                          *)

\* The lines of a batch: where they are read from, and what is counted before each.
LEMMA LinesOfBatch ==
  ASSUME poll.pos \in Nat, poll.counted \in Nat, NEW stop \in Nat, poll.pos < stop,
         NEW k \in Nat, LineOf(poll.pos) <= k, k = LineOf(poll.pos) \/ Start(k) < stop
  PROVE  /\ At(k) \in Nat /\ At(k) < stop
         /\ LineOf(At(k)) = k
         /\ At(k) = IF k = LineOf(poll.pos) THEN poll.pos ELSE Start(k)
         /\ CountedBefore(k, stop) \in Nat
         /\ CountedBefore(k, stop) + poll.pos <= poll.counted + At(k)
         /\ ~Crlf => CountedBefore(k, stop) + poll.pos = poll.counted + At(k)
<1> DEFINE first == LineOf(poll.pos)
           c == LinesCounted(poll.pos, stop)
<1>1. first \in Nat \ {0} /\ Start(first) \in Int /\ Start(first) <= poll.pos
      /\ poll.pos < Start(first + 1) /\ Start(first + 1) \in Int
  BY LineEdges
<1>2. Start(k) \in Int /\ Start(k) >= 0
  BY <1>1, Starts
<1>3. At(k) = IF poll.pos >= Start(k) THEN poll.pos ELSE Start(k)
  BY <1>2, MaxOfTwo DEF At
<1>4. c \in Nat /\ poll.pos + c <= Start(first + 1)
      /\ (~Crlf /\ Start(first + 1) <= stop => poll.pos + c = Start(first + 1))
  BY CountOfLine
<1>5. CASE k = first
  <2>1. At(k) = poll.pos /\ CountedBefore(k, stop) = poll.counted
    BY <1>1, <1>3, <1>5 DEF CountedBefore
  <2> QED BY <2>1, <1>5
<1>6. CASE k # first
  <2>1. first + 1 <= k /\ Start(first + 1) <= Start(k)
    <3>1. first < k /\ first \in Int /\ k \in Int
      BY <1>1, <1>6
    <3> QED BY <3>1, LaterLine
  <2>2. At(k) = Start(k) /\ Start(k) < stop /\ Start(first + 1) <= stop
    BY <1>1, <1>2, <1>3, <1>6, <2>1
  <2>3. LineOf(Start(k)) = k
    BY <1>1, LineOfStart
  <2>4. CountedBefore(k, stop) = poll.counted + (c + (k - first - 1) * 3)
    BY <1>6 DEF CountedBefore
  <2>5. Start(k) = Start(first + 1) + (k - first - 1) * Width
    BY <1>1, Widths DEF Start
  <2>6. (k - first - 1) * 3 \in Nat /\ (k - first - 1) * 3 <= (k - first - 1) * Width
    BY <1>1, <2>1, Widths
  <2>7. Crlf \/ (k - first - 1) * 3 = (k - first - 1) * Width
    BY Widths
  <2>8. (k - first - 1) * Width \in Int
    BY <1>1, Widths
  <2>9. CountedBefore(k, stop) \in Nat
    BY <2>4, <2>6, <1>4
  <2>10. CountedBefore(k, stop) + poll.pos <= poll.counted + Start(k)
    BY <2>4, <2>5, <2>6, <2>8, <1>4, <1>1
  <2>11. ~Crlf => CountedBefore(k, stop) + poll.pos = poll.counted + Start(k)
    BY <2>2, <2>4, <2>5, <2>6, <2>7, <2>8, <1>4, <1>1
  <2> QED BY <1>2, <1>6, <2>2, <2>3, <2>9, <2>10, <2>11
<1> QED BY <1>5, <1>6

\* What a batch is in all, read from an offset that was counted no further than it is.
LEMMA TakenIs ==
  ASSUME RemoteConstants, poll.pos \in Nat, poll.counted \in Nat, NEW stop \in Nat, poll.pos < stop,
         NEW from \in Nat, from + poll.counted <= poll.pos,
         ~Crlf => from + poll.counted = poll.pos
  PROVE  LET t == Taken(stop) IN
         /\ t.pos \in Nat /\ t.counted \in Nat /\ poll.pos < t.pos /\ t.pos <= stop
         /\ stop <= Start(LineOf(poll.pos) + RemoteBatch) => t.pos = stop
         /\ from + t.counted <= Start(LineOf(t.pos - 1) + 1)
         /\ stop % Width = 0 \/ t.pos # stop =>
              /\ t.pos = Start(LineOf(t.pos - 1) + 1) /\ t.pos % Width = 0
              /\ ~Crlf => from + t.counted = t.pos
         /\ \A x \in t.at : x[1] \in Nat /\ x[2] \in Nat /\ Whole(x[1], stop)
                           /\ (~Crlf => from + x[2] = x[1])
         /\ \A k \in Nat \ {0} : poll.pos <= Start(k) /\ Start(k) < t.pos /\ Start(k) + 2 <= stop
                                  => \E x \in t.at : x[1] = Start(k)
<1> DEFINE first == LineOf(poll.pos)
           edge == Start(first + RemoteBatch)
           end == Min({edge, stop})
           last == LineOf(end - 1)
           at == {<<At(k), CountedBefore(k, stop)>> : k \in {j \in first..last : Whole(At(j), stop)}}
           counted == CountedBefore(last, stop) + LinesCounted(At(last), stop)
<1>1. Taken(stop).pos = end /\ Taken(stop).counted = counted /\ Taken(stop).at = at
  BY DEF Taken
<1>2. first \in Nat \ {0} /\ Start(first) \in Int /\ Start(first) <= poll.pos
      /\ poll.pos < Start(first + 1) /\ Start(first + 1) \in Int
  BY LineEdges
<1>3. edge \in Int /\ Start(first + 1) <= edge /\ RemoteBatch \in Nat \ {0}
  <2>1. RemoteBatch \in Nat \ {0}
    BY DEF RemoteConstants
  <2>2. first < first + RemoteBatch /\ first \in Int /\ first + RemoteBatch \in Int
    BY <2>1, <1>2
  <2> QED BY <2>1, <2>2, LaterLine
<1>4. end = IF edge <= stop THEN edge ELSE stop
  BY <1>3, MinOfTwo
<1>5. end \in Nat /\ poll.pos < end /\ end <= stop /\ end - 1 \in Nat /\ end <= edge
  BY <1>2, <1>3, <1>4
<1>6. last \in Nat \ {0} /\ Start(last) \in Int /\ Start(last) <= end - 1
      /\ end - 1 < Start(last + 1) /\ Start(last + 1) \in Int
  BY <1>5, LineEdges
<1>7. first <= last
  <2> SUFFICES ASSUME last < first PROVE FALSE
    BY <1>2, <1>6
  <2>1. Start(last + 1) <= Start(first)
    BY <1>2, <1>6, LaterLine
  <2> HIDE DEF last, first, end
  <2> QED BY <2>1, <1>2, <1>5, <1>6
<1>8. \A k \in first..last : k \in Nat /\ first <= k /\ Start(k) \in Int /\ Start(k) < stop
  <2> SUFFICES ASSUME NEW k \in first..last PROVE Start(k) < stop /\ Start(k) \in Int /\ k \in Nat
    BY <1>2, <1>6
  <2>1. k \in Nat /\ Start(k) \in Int /\ Start(k) <= Start(last)
    BY <1>2, <1>6, Starts, Widths
  <2> QED BY <2>1, <1>5, <1>6
<1>9. \A k \in first..last :
        /\ At(k) \in Nat /\ At(k) < stop /\ LineOf(At(k)) = k
        /\ At(k) = IF k = first THEN poll.pos ELSE Start(k)
        /\ CountedBefore(k, stop) \in Nat
        /\ CountedBefore(k, stop) + poll.pos <= poll.counted + At(k)
        /\ ~Crlf => CountedBefore(k, stop) + poll.pos = poll.counted + At(k)
  BY <1>8, LinesOfBatch
<1>10. last \in first..last
  BY <1>2, <1>6, <1>7
<1> DEFINE c == LinesCounted(At(last), stop)
<1>11. c \in Nat /\ At(last) + c <= Start(last + 1)
       /\ (~Crlf /\ Start(last + 1) <= stop => At(last) + c = Start(last + 1))
  <2>1. At(last) \in Nat /\ At(last) < stop /\ LineOf(At(last)) = last
    BY <1>9, <1>10
  <2> HIDE DEF last
  <2> QED BY <2>1, CountOfLine
<1>12. counted \in Nat /\ from + counted <= Start(last + 1)
  BY <1>9, <1>10, <1>11, <1>6
<1>13. ASSUME stop % Width = 0 \/ end # stop
       PROVE  end = Start(last + 1) /\ end % Width = 0 /\ (~Crlf => from + counted = end)
  <2>1. end % Width = 0
    BY <1>13, <1>2, <1>3, <1>4, LineOfStart
  <2>2. end = Start(last + 1)
    <3>1. end \in Nat \ {0}
      BY <1>5
    <3> HIDE DEF end
    <3> QED BY <2>1, <3>1, LineBefore
  <2> QED BY <2>1, <2>2, <1>5, <1>6, <1>9, <1>10, <1>11
<1>14. ASSUME NEW x \in at
       PROVE  x[1] \in Nat /\ x[2] \in Nat /\ Whole(x[1], stop) /\ (~Crlf => from + x[2] = x[1])
  <2>1. PICK k \in first..last : Whole(At(k), stop) /\ x = <<At(k), CountedBefore(k, stop)>>
    BY <1>14
  <2>2. x[1] = At(k) /\ x[2] = CountedBefore(k, stop)
    BY <2>1
  <2> QED BY <2>1, <2>2, <1>9
<1>15. ASSUME NEW k \in Nat \ {0}, poll.pos <= Start(k), Start(k) < end, Start(k) + 2 <= stop
       PROVE  \E x \in at : x[1] = Start(k)
  <2>1. first <= k
    <3> SUFFICES ASSUME k < first PROVE FALSE
      BY <1>2
    <3>1. Start(k + 1) <= Start(first) /\ Start(k) + Width <= Start(first) /\ Start(k) \in Int
      BY <1>2, LaterLine
    <3> HIDE DEF first
    <3> QED BY <3>1, <1>2, <1>15, Widths
  <2>2. k <= last
    <3> SUFFICES ASSUME last < k PROVE FALSE
      BY <1>6
    <3>1. Start(last + 1) <= Start(k) /\ Start(k) \in Int
      BY <1>6, LaterLine
    <3> HIDE DEF last, end
    <3> QED BY <3>1, <1>5, <1>6, <1>15
  <2>3. k \in first..last
    BY <2>1, <2>2, <1>2, <1>6
  <2>4. At(k) = Start(k)
    <3>1. CASE k = first
      BY <3>1, <1>2, <1>9, <1>15, <2>3
    <3> QED BY <3>1, <1>9, <2>3
  <2>5. Start(k) % Width = 0
    BY LineOfStart
  <2>6. Whole(At(k), stop)
    BY <2>4, <2>5, <1>15 DEF Whole
  <2>7. <<At(k), CountedBefore(k, stop)>> \in at
    BY <2>3, <2>6
  <2> QED BY <2>4, <2>7
<1> HIDE DEF end, last, at, counted, first, edge
<1> QED BY <1>1, <1>4, <1>5, <1>12, <1>13, <1>14, <1>15 DEF edge, first, last

----------------------------------------------------------------------------
(* THE INVARIANT                                                             *)

Objects == [gen : Nat, n : Nat, part : Nat]
Metas == [size : Nat, tag : Objects, mod : Objects]
States == [known : BOOLEAN, gen : Nat, off : Nat, size : Nat, tag : Objects, mod : Objects]
Polls == [meta : Metas, new : BOOLEAN, start : Nat, keep : States, of : Objects, pos : Nat,
          counted : Nat, again : BOOLEAN]
Working == {"open", "read", "close"}

RemoteTypes ==
  /\ object \in Objects /\ object.gen >= 1 /\ object.n <= MaxLines
  /\ st \in States /\ disk \in States /\ poll \in Polls
  /\ step \in {"idle", "listed", "open", "read", "close", "end"}
\* Nothing of a row but its line and its fingerprint; without a CR the fingerprint is the
\* place of the line, from wherever it was read.
RemoteRowsInv ==
  \A r \in remoteRows : /\ r = [gen |-> r.gen, k |-> r.k, key |-> r.key]
                        /\ ~Crlf => r.key = Start(r.k)

Known(g, k) == Stored(g, k) \/ <<g, k>> \in lostLines
\* The lines that begin before an offset are accounted for.
Accounted(g, off) == \A k \in 1..MaxLines : Start(k) < off => Known(g, k) \/ Old(g, k)
Told(s) == s.gen # 0 /\ s.gen \notin missed /\ ~source.compressed => Accounted(s.gen, s.off)
StatesInv == Told(st) /\ Told(disk)

\* A poll reads on from the offset of the state, or from the start; until the end of the body,
\* whose last line may be half written, what it has counted is no further than where it is.
KeepInv ==
  step \in Working => /\ poll.keep \in {NoState, st}
                      /\ poll.start = IF source.compressed THEN 0 ELSE poll.keep.off
PlaceInv ==
  /\ step \in {"listed", "open"} => poll.counted = 0
  /\ step \in {"read", "close"} => poll.of.gen >= 1 /\ poll.of.n <= MaxLines
  /\ step = "read" /\ poll.pos < Size(poll.of) =>
       /\ poll.start + poll.counted <= poll.pos
       /\ ~Crlf => poll.start + poll.counted = poll.pos
\* And the lines before both are accounted for, when the offset was about this object.
Ours == /\ ~source.compressed /\ (poll.start = 0 \/ poll.keep.gen = poll.of.gen)
        /\ poll.of.gen \notin missed
ReadInv == step \in {"read", "close"} /\ Ours =>
             /\ Accounted(poll.of.gen, poll.start + poll.counted)
             /\ step = "read" => Accounted(poll.of.gen, poll.pos)
PollInv == KeepInv /\ PlaceInv /\ ReadInv

Inv == RemoteTypes /\ RemoteRowsInv /\ StatesInv /\ PollInv

LEMMA RowsOnce == ASSUME ~Crlf, RemoteRowsInv PROVE NoDuplicates
  BY DEF RemoteRowsInv, NoDuplicates

LEMMA OffsetsPassed == ASSUME RemoteTypes, StatesInv PROVE OffsetAccounted
<1> SUFFICES ASSUME NEW s \in {st, disk}, NEW k \in 1..MaxLines,
                    s.gen # 0, s.gen \notin missed, ~source.compressed, Start(k) + 2 <= s.off
             PROVE  Stored(s.gen, k) \/ Old(s.gen, k) \/ <<s.gen, k>> \in lostLines
  BY DEF OffsetAccounted
<1>1. Accounted(s.gen, s.off)
  BY DEF StatesInv, Told
<1>2. s.off \in Nat /\ Start(k) \in Int
  <2>1. st.off \in Nat /\ disk.off \in Nat
    BY DEF RemoteTypes, States
  <2>2. k \in Int
    BY SMT
  <2>3. Start(k) \in Int
    BY <2>2, Starts
  <2> QED BY <2>1, <2>3
<1> QED BY <1>1, <1>2 DEF Accounted, Known

\* States, and what a poll keeps of them.
LEMMA StateShapes ==
  /\ NoTag \in Objects /\ NoState \in States /\ NoPoll \in Polls
  /\ NoState.gen = 0 /\ NoState.off = 0
  /\ \A s \in States, m \in Metas :
       /\ Described(s, m) \in States
       /\ Described(s, m).gen = s.gen /\ Described(s, m).off = s.off
<1>1. NoTag \in Objects
  BY DEF NoTag, Objects
<1>2. NoState \in States /\ NoState.gen = 0 /\ NoState.off = 0
  BY <1>1 DEF NoState, States
<1>3. NoPoll \in Polls
  BY <1>1, <1>2 DEF NoPoll, Polls, Metas
<1>4. ASSUME NEW s \in States, NEW m \in Metas
      PROVE  Described(s, m) \in States /\ Described(s, m).gen = s.gen /\ Described(s, m).off = s.off
  BY DEF Described, States, Metas
<1> QED BY <1>1, <1>2, <1>3, <1>4

LEMMA InitInv == ASSUME RemoteConstants, RemoteInit PROVE Inv
<1>1. PICK n \in 0..MaxLines : object = [gen |-> 1, n |-> n, part |-> 0]
  BY DEF RemoteInit
<1>2. RemoteTypes
  BY <1>1, StateShapes DEF RemoteInit, RemoteTypes, Objects, RemoteConstants
<1>3. RemoteRowsInv
  BY DEF RemoteInit, RemoteRowsInv
<1>4. StatesInv
  BY StateShapes DEF RemoteInit, StatesInv, Told
<1>5. PollInv
  BY DEF RemoteInit, PollInv, KeepInv, PlaceInv, ReadInv, Working
<1> QED BY <1>2, <1>3, <1>4, <1>5 DEF Inv

----------------------------------------------------------------------------
(* STEPS THAT LEAVE THE ROWS                                                 *)

\* Lines that stay known keep what is accounted for.
Keeps == \A g, k : Known(g, k) => Known(g, k)'

LEMMA StillTold ==
  ASSUME Keeps, missed \subseteq missed', source' = source,
         NEW g, NEW off, g # 0 /\ g \notin missed /\ ~source.compressed => Accounted(g, off)
  PROVE  g # 0 /\ g \notin missed' /\ ~source'.compressed
           => \A k \in 1..MaxLines : Start(k) < off => Known(g, k)' \/ Old(g, k)
  BY DEF Keeps, Accounted

LEMMA SameLines == ASSUME remoteRows' = remoteRows, lostLines' = lostLines PROVE Keeps /\ (RemoteRowsInv => RemoteRowsInv')
  BY DEF Keeps, Known, Stored, RemoteRowsInv, Start, Width

Writer == AppendLine \/ (\E c \in 1..(Width - 1) : WritePart(c)) \/ (\E n \in 0..MaxLines : Replace(n))
LEMMA WriterStep == ASSUME RemoteConstants, Inv, Writer PROVE Inv'
<1>1. /\ source' = source /\ st' = st /\ disk' = disk /\ step' = step /\ poll' = poll
      /\ remoteRows' = remoteRows /\ lostLines' = lostLines /\ missed' = missed
  BY DEF Writer, AppendLine, WritePart, Replace
<1>2. object' \in Objects /\ object'.gen >= 1 /\ object'.n <= MaxLines
  <2>1. CASE AppendLine
    <3>1. object \in Objects /\ object.gen >= 1 /\ object.n < MaxLines
      BY <2>1 DEF AppendLine, Inv, RemoteTypes
    <3>2. object' = [gen |-> object.gen, n |-> object.n + 1, part |-> 0]
      BY <2>1, <3>1 DEF AppendLine, Objects
    <3>3. MaxLines \in Nat /\ object.gen \in Nat /\ object.n \in Nat
      BY <3>1 DEF RemoteConstants, Objects
    <3>4. object' \in Objects /\ object'.gen = object.gen /\ object'.n = object.n + 1
      BY <3>2, <3>3 DEF Objects
    <3> QED BY <3>1, <3>3, <3>4
  <2>2. ASSUME NEW n \in 0..MaxLines, Replace(n)
        PROVE  object' \in Objects /\ object'.gen >= 1 /\ object'.n <= MaxLines
    BY <2>2 DEF Replace, Inv, RemoteTypes, Objects, RemoteConstants
  <2>3. ASSUME NEW c \in 1..(Width - 1), WritePart(c)
        PROVE  object' \in Objects /\ object'.gen >= 1 /\ object'.n <= MaxLines
    <3>1. c \in Nat
      BY Widths
    <3> QED BY <2>3, <3>1 DEF WritePart, Inv, RemoteTypes, Objects
  <2> QED BY <2>1, <2>2, <2>3 DEF Writer
<1>3. RemoteTypes'
  BY <1>1, <1>2 DEF Inv, RemoteTypes
<1>4. RemoteRowsInv' /\ Keeps
  BY <1>1, SameLines DEF Inv
<1>5. StatesInv'
  BY <1>1 DEF Inv, StatesInv, Told, Accounted, Known, Stored, Old, Start, Width
<1>6. KeepInv' /\ PlaceInv'
  BY <1>1 DEF Inv, PollInv, KeepInv, PlaceInv, Size, Width
<1>7. ReadInv'
  BY <1>1 DEF Inv, PollInv, ReadInv, Ours, Accounted, Known, Stored, Old, Start, Width
<1> QED BY <1>3, <1>4, <1>5, <1>6, <1>7 DEF Inv, PollInv

\* The steps after which no poll is at work, and that change the states in no more than
\* what they know of the object.
LEMMA IdleStep ==
  ASSUME Inv, source' = source, object' = object, remoteRows' = remoteRows, lostLines' = lostLines, missed \subseteq missed',
         step' \in {"idle", "listed", "end"}, poll' \in Polls,
         step' = "listed" => poll'.counted = 0,
         st' \in States, disk' \in {st, disk},
         st'.gen = 0 \/ \E s \in {st, disk} : st'.gen = s.gen /\ st'.off = s.off
  PROVE  Inv'
<1>1. RemoteTypes'
  BY DEF Inv, RemoteTypes
<1>2. RemoteRowsInv' /\ Keeps
  BY SameLines DEF Inv
<1>3. \A s \in {st, disk} : s.gen # 0 /\ s.gen \notin missed' /\ ~source'.compressed
         => \A k \in 1..MaxLines : Start(k) < s.off => Known(s.gen, k)' \/ Old(s.gen, k)
  BY <1>2, StillTold DEF Inv, StatesInv, Told
<1>4. StatesInv'
  BY <1>3 DEF StatesInv, Told, Accounted, Known, Stored, Old, Start, Width
<1>5. PollInv'
  BY DEF PollInv, KeepInv, PlaceInv, ReadInv, Working
<1> QED BY <1>1, <1>2, <1>4, <1>5 DEF Inv

----------------------------------------------------------------------------
(* THE ACTIONS OF A POLL                                                     *)

LEMMA ListTargetsStep == ASSUME Inv, ListTargets PROVE Inv'
<1>1. MetaOf(object) \in Metas
  <2>1. Size(object) \in Nat
    BY Widths DEF Size, Inv, RemoteTypes, Objects
  <2> QED BY <2>1, StateShapes DEF MetaOf, Metas, Inv, RemoteTypes
<1>2. poll' \in Polls /\ poll'.counted = 0
  <2>1. poll' = [NoPoll EXCEPT !.meta = MetaOf(object), !.of = object]
    BY DEF ListTargets
  <2>2. NoPoll \in Polls /\ NoPoll.counted = 0 /\ object \in Objects
    BY StateShapes DEF NoPoll, Inv, RemoteTypes
  <2> QED BY <2>1, <2>2, <1>1 DEF Polls
<1> QED BY <1>2, IdleStep DEF ListTargets, Goes, Quiet, Inv, RemoteTypes

PollKept == IF Reset(st, poll.meta) THEN NoState ELSE st
LEMMA DecideStep == ASSUME Inv, Decide PROVE Inv'
<1> DEFINE begun == IF source.compressed THEN 0 ELSE PollKept.off
<1>1. /\ PollKept \in {NoState, st} /\ PollKept \in States /\ begun \in Nat
      /\ PollKept.gen = 0 \/ (PollKept.gen = st.gen /\ PollKept.off = st.off)
  BY StateShapes DEF PollKept, Inv, RemoteTypes, States
<1>2. poll' = [poll EXCEPT !.new = ~PollKept.known, !.keep = PollKept, !.start = begun]
  BY DEF Decide, PollKept
<1>3. /\ poll' \in Polls /\ poll'.keep = PollKept /\ poll'.start = begun
      /\ poll'.of = poll.of /\ poll'.counted = poll.counted
  BY <1>1, <1>2 DEF Inv, RemoteTypes, Polls
<1>4. /\ source' = source /\ object' = object /\ remoteRows' = remoteRows /\ lostLines' = lostLines /\ disk' = disk
      /\ missed \subseteq missed' /\ step = "listed"
      /\ \/ step' = "end" /\ (st' = st \/ st' = Described(PollKept, poll.meta))
         \/ step' = "open" /\ st' = st
  BY DEF Decide, Quiet, PollKept
<1>5. CASE step' = "end" /\ st' = st
  BY <1>3, <1>4, <1>5, IdleStep DEF Inv, RemoteTypes
<1>6. CASE step' = "end" /\ st' = Described(PollKept, poll.meta)
  <2>1. poll.meta \in Metas
    BY DEF Inv, RemoteTypes, Polls
  <2>2. st' \in States /\ st'.gen = PollKept.gen /\ st'.off = PollKept.off
    BY <1>1, <1>6, <2>1, StateShapes
  <2> QED BY <1>1, <1>3, <1>4, <1>6, <2>2, IdleStep
<1>7. CASE step' = "open" /\ st' = st
  <2>1. RemoteTypes'
    BY <1>3, <1>4, <1>7 DEF Inv, RemoteTypes
  <2>2. RemoteRowsInv'
    BY <1>4, SameLines DEF Inv
  <2>3. StatesInv'
    BY <1>4, <1>7 DEF Inv, StatesInv, Told, Accounted, Known, Stored, Old, Start, Width
  <2>4. PollInv'
    BY <1>1, <1>3, <1>4, <1>7 DEF Inv, PollInv, KeepInv, PlaceInv, ReadInv, Working
  <2> QED BY <2>1, <2>2, <2>3, <2>4 DEF Inv
<1> QED BY <1>4, <1>5, <1>6, <1>7

LEMMA OpenRangeStep == ASSUME RemoteConstants, Inv, OpenRange PROVE Inv'
<1>1. /\ source' = source /\ object' = object /\ remoteRows' = remoteRows /\ lostLines' = lostLines /\ disk' = disk
      /\ st' = st /\ missed' = missed /\ step = "open" /\ step' = "read"
      /\ poll' = [poll EXCEPT !.of = object, !.pos = poll.start]
  BY DEF OpenRange, Quiet
<1>2. /\ poll' \in Polls /\ poll'.keep = poll.keep /\ poll'.start = poll.start
      /\ poll'.of = object /\ poll'.counted = 0 /\ poll'.pos = poll.start
      /\ poll.start \in Nat
  BY <1>1 DEF Inv, RemoteTypes, Polls, PollInv, PlaceInv
<1>3. RemoteTypes'
  BY <1>1, <1>2 DEF Inv, RemoteTypes
<1>4. RemoteRowsInv' /\ StatesInv'
  BY <1>1, SameLines DEF Inv, StatesInv, Told, Accounted, Known, Stored, Old, Start, Width
<1>5. poll.keep \in {NoState, st} /\ poll.start = IF source.compressed THEN 0 ELSE poll.keep.off
  BY <1>1 DEF Inv, PollInv, KeepInv, Working
<1>6. KeepInv' /\ PlaceInv'
  BY <1>1, <1>2, <1>5 DEF KeepInv, PlaceInv, Inv, RemoteTypes
<1>7. ~source.compressed /\ (poll.start = 0 \/ poll.keep.gen = object.gen) /\ object.gen \notin missed
        => Accounted(object.gen, poll.start)
  <2>1. CASE poll.start = 0
    <3> SUFFICES ASSUME NEW k \in 1..MaxLines, Start(k) < 0 PROVE FALSE
      BY <2>1 DEF Accounted
    <3>1. k \in Int /\ k >= 1
      BY DEF RemoteConstants
    <3> QED BY <3>1, Starts
  <2>2. CASE poll.keep.gen = object.gen
    <3>1. poll.keep = st /\ object.gen # 0
      BY <1>5, <2>2, StateShapes DEF Inv, RemoteTypes
    <3> QED BY <1>5, <2>2, <3>1 DEF Inv, StatesInv, Told
  <2> QED BY <2>1, <2>2
<1>8. ReadInv'
  BY <1>1, <1>2, <1>7 DEF ReadInv, Ours, Accounted, Known, Stored, Old, Start, Width
<1> QED BY <1>3, <1>4, <1>6, <1>8 DEF Inv, PollInv

LEMMA EndOfBodyStep == ASSUME Inv, EndOfBody \/ ScannerStops PROVE Inv'
<1>1. /\ source' = source /\ object' = object /\ remoteRows' = remoteRows /\ lostLines' = lostLines /\ disk' = disk
      /\ st' = st /\ missed' = missed /\ step = "read" /\ step' = "close" /\ poll' = poll
  BY DEF EndOfBody, ScannerStops, Goes, Quiet
<1>2. RemoteTypes' /\ KeepInv' /\ PlaceInv'
  BY <1>1 DEF Inv, RemoteTypes, PollInv, KeepInv, PlaceInv, Working
<1>3. RemoteRowsInv' /\ StatesInv'
  BY <1>1, SameLines DEF Inv, StatesInv, Told, Accounted, Known, Stored, Old, Start, Width
<1>4. ReadInv'
  BY <1>1 DEF Inv, PollInv, ReadInv, Ours, Accounted, Known, Stored, Old, Start, Width
<1> QED BY <1>2, <1>3, <1>4 DEF Inv, PollInv

LEMMA SetTargetStateStep == ASSUME RemoteConstants, Inv, SetTargetState PROVE Inv'
<1>1. /\ source' = source /\ object' = object /\ remoteRows' = remoteRows /\ lostLines' = lostLines /\ disk' = disk
      /\ missed' = missed /\ step = "close" /\ step' = "end" /\ poll' = poll
  BY DEF SetTargetState, Goes, Quiet
<1>2. CASE poll.again
  BY <1>1, <1>2, IdleStep DEF SetTargetState, Inv, RemoteTypes
<1>3. CASE ~poll.again
  <2> DEFINE d == Described(poll.keep, poll.meta)
             g == IF poll.start = 0 \/ d.gen = poll.of.gen THEN poll.of.gen ELSE 0
  <2>1. poll.keep \in States /\ poll.meta \in Metas /\ poll.of.gen \in Nat /\ Reached \in Nat
        /\ poll.start \in Nat /\ poll.counted \in Nat
    BY DEF Inv, RemoteTypes, Polls, Metas, Objects, Reached
  <2>2. d \in States /\ d.gen = poll.keep.gen
    BY <2>1, StateShapes
  <2>3. st' = [d EXCEPT !.off = Reached, !.gen = g]
    BY <1>3 DEF SetTargetState
  <2>4. st' \in States /\ st'.off = Reached /\ st'.gen = g
    BY <2>1, <2>2, <2>3 DEF States
  <2>5. g # 0 /\ g \notin missed /\ ~source.compressed => Accounted(g, poll.start + poll.counted)
    BY <1>1, <2>2 DEF Inv, PollInv, ReadInv, Ours
  <2>6. StatesInv'
    BY <1>1, <2>4, <2>5
       DEF Inv, StatesInv, Told, Accounted, Known, Stored, Old, Start, Width, Reached
  <2>7. RemoteTypes' /\ RemoteRowsInv'
    BY <1>1, <2>4, SameLines DEF Inv, RemoteTypes
  <2>8. PollInv'
    BY <1>1 DEF PollInv, KeepInv, PlaceInv, ReadInv, Working
  <2> QED BY <2>6, <2>7, <2>8 DEF Inv
<1> QED BY <1>2, <1>3

LEMMA EndsStep == ASSUME Inv, OpenRefused \/ PollFails \/ Save \/ PollCrash PROVE Inv'
<1>1. CASE OpenRefused
  BY <1>1, IdleStep DEF OpenRefused, Quiet, Inv, RemoteTypes
<1>2. CASE PollFails
  BY <1>2, IdleStep DEF PollFails, Inv, RemoteTypes
<1>3. CASE Save
  BY <1>3, IdleStep, StateShapes DEF Save, Goes, Quiet, Inv, RemoteTypes
<1>4. CASE PollCrash
  BY <1>4, IdleStep, StateShapes DEF PollCrash, Inv, RemoteTypes
<1> QED BY <1>1, <1>2, <1>3, <1>4

----------------------------------------------------------------------------
(* LINES THAT ARE READ                                                       *)

LEMMA ReadPlaces ==
  ASSUME Inv, step = "read", poll.pos < Size(poll.of)
  PROVE  /\ poll \in Polls /\ poll.pos \in Nat /\ poll.counted \in Nat /\ poll.start \in Nat
         /\ poll.of \in Objects /\ poll.of.gen >= 1 /\ poll.of.n \in Nat /\ poll.of.n <= MaxLines
         /\ poll.start + poll.counted <= poll.pos
         /\ ~Crlf => poll.start + poll.counted = poll.pos
  BY DEF Inv, RemoteTypes, Polls, Objects, PollInv, PlaceInv

\* A line that is read whole has a row then, or is old; without a CR the rows' fingerprints
\* are the places of their lines.
LEMMA NewLines ==
  ASSUME RemoteConstants, Inv, step = "read", NEW stop \in Nat, poll.pos < stop,
         poll.pos < Size(poll.of)
  PROVE  LET t == Taken(stop)
             R == RowsOf(poll, t)
         IN /\ \A r \in R : /\ r = [gen |-> r.gen, k |-> r.k, key |-> r.key]
                            /\ ~Crlf => r.key = Start(r.k)
            /\ \A k \in Nat \ {0} : poll.pos <= Start(k) /\ Start(k) < t.pos /\ Start(k) + 2 <= stop
                 => Old(poll.of.gen, k) \/ \E r \in R : r.gen = poll.of.gen /\ r.k = k
<1> DEFINE t == Taken(stop)
           R == RowsOf(poll, t)
<1>1. /\ \A x \in t.at : x[1] \in Nat /\ x[2] \in Nat /\ Whole(x[1], stop)
                          /\ (~Crlf => poll.start + x[2] = x[1])
      /\ \A k \in Nat \ {0} : poll.pos <= Start(k) /\ Start(k) < t.pos /\ Start(k) + 2 <= stop
                               => \E x \in t.at : x[1] = Start(k)
  BY ReadPlaces, TakenIs
<1>2. \A r \in R : \E x \in t.at : r = Row(poll, x[1], x[2])
  BY DEF RowsOf
<1>3. \A x \in t.at : Fresh(poll, x[1]) => Row(poll, x[1], x[2]) \in R
  BY DEF RowsOf
<1> HIDE DEF t, R
<1>4. ASSUME NEW r \in R
      PROVE  r = [gen |-> r.gen, k |-> r.k, key |-> r.key] /\ (~Crlf => r.key = Start(r.k))
  <2>1. PICK x \in t.at : r = Row(poll, x[1], x[2])
    BY <1>2
  <2>2. r = [gen |-> poll.of.gen, k |-> LineOf(x[1]), key |-> poll.start + x[2]]
    BY <2>1 DEF Row
  <2>3. x[1] \in Nat /\ x[1] % Width = 0 /\ (~Crlf => poll.start + x[2] = x[1])
    BY <1>1 DEF Whole
  <2>4. x[1] = Start(LineOf(x[1]))
    BY <2>3, LinePlace
  <2> QED BY <2>2, <2>3, <2>4
<1>5. ASSUME NEW k \in Nat \ {0}, poll.pos <= Start(k), Start(k) < t.pos, Start(k) + 2 <= stop
      PROVE  Old(poll.of.gen, k) \/ \E r \in R : r.gen = poll.of.gen /\ r.k = k
  <2>1. PICK x \in t.at : x[1] = Start(k)
    BY <1>1, <1>5
  <2>2. LineOf(x[1]) = k
    BY <2>1, LineOfStart
  <2>3. CASE Fresh(poll, x[1])
    BY <1>3, <2>2, <2>3 DEF Row
  <2>4. CASE ~Fresh(poll, x[1])
    BY <2>2, <2>4 DEF Fresh
  <2> QED BY <2>3, <2>4
<1> QED BY <1>4, <1>5 DEF t, R

\* One batch, of a body that goes on or that ends at stop, where it may cut a line.
LEMMA BatchStep ==
  ASSUME RemoteConstants, Inv, step = "read", NEW stop \in Nat, poll.pos < stop,
         poll.pos < Size(poll.of),
         source' = source, object' = object, st' = st, disk' = disk, missed' = missed,
         poll' = [poll EXCEPT !.pos = Taken(stop).pos, !.counted = Taken(stop).counted],
         lostLines \subseteq lostLines',
         \/ remoteRows' = remoteRows \cup RowsOf(poll, Taken(stop))
         \/ remoteRows' = remoteRows /\ LinesOf(RowsOf(poll, Taken(stop))) \subseteq lostLines',
         ~source.compressed => CutAt(Taken(stop).pos) \subseteq lostLines',
         \/ step' = "read" /\ (stop = Size(poll.of) \/ stop % Width = 0)
         \/ step' = "close"
  PROVE  Inv'
<1> DEFINE t == Taken(stop)
           R == RowsOf(poll, t)
           g == poll.of.gen
           after == poll.start + t.counted
           line == LineOf(t.pos - 1)
           Then(a, k) == (\E r \in remoteRows' : r.gen = a /\ r.k = k) \/ <<a, k>> \in lostLines'
<1>1. /\ \A r \in R : r = [gen |-> r.gen, k |-> r.k, key |-> r.key] /\ (~Crlf => r.key = Start(r.k))
      /\ \A k \in Nat \ {0} : poll.pos <= Start(k) /\ Start(k) < t.pos /\ Start(k) + 2 <= stop
           => Old(g, k) \/ \E r \in R : r.gen = g /\ r.k = k
  BY NewLines
<1>2. /\ t.pos \in Nat /\ t.counted \in Nat /\ poll.pos < t.pos /\ t.pos <= stop
      /\ after <= Start(line + 1)
      /\ stop % Width = 0 \/ t.pos # stop => t.pos = Start(line + 1) /\ (~Crlf => after = t.pos)
  BY ReadPlaces, TakenIs
<1>3. /\ poll \in Polls /\ poll.pos \in Nat /\ poll.counted \in Nat /\ poll.start \in Nat
      /\ poll.of \in Objects /\ g >= 1 /\ poll.of.n <= MaxLines
  BY ReadPlaces
<1>4. /\ line \in Nat \ {0} /\ Start(line) \in Int /\ Start(line) <= t.pos - 1
      /\ Start(line + 1) \in Int /\ t.pos - 1 < Start(line + 1)
  <2>1. t.pos - 1 \in Nat
    BY <1>2, <1>3
  <2> QED BY <2>1, LineEdges
<1>5. /\ lostLines \subseteq lostLines'
      /\ \/ remoteRows' = remoteRows \cup R
         \/ remoteRows' = remoteRows /\ LinesOf(R) \subseteq lostLines'
      /\ poll' = [poll EXCEPT !.pos = t.pos, !.counted = t.counted]
  OBVIOUS
<1>6. ASSUME ~source.compressed, NEW k \in 1..MaxLines, Start(k) < t.pos, t.pos < Start(k) + 2
      PROVE  <<g, k>> \in lostLines'
  BY <1>6 DEF CutAt
<1> HIDE DEF t, R, g, line
<1>7. /\ poll' \in Polls /\ poll'.pos = t.pos /\ poll'.counted = t.counted
      /\ poll'.start = poll.start /\ poll'.of = poll.of /\ poll'.keep = poll.keep
  BY <1>2, <1>3, <1>5 DEF Polls
<1>8. RemoteTypes'
  BY <1>7 DEF Inv, RemoteTypes
<1>9. RemoteRowsInv'
  BY <1>1, <1>5 DEF Inv, RemoteRowsInv, Start, Width
<1>10. \A a, k : Known(a, k) => Then(a, k)
  BY <1>5 DEF Known, Stored
<1>11. \A r \in R : Then(r.gen, r.k)
  BY <1>5 DEF LinesOf
<1>12. StatesInv'
  BY <1>10 DEF Inv, StatesInv, Told, Accounted, Known, Stored, Old, Start, Width
<1>13. KeepInv'
  BY <1>7 DEF Inv, PollInv, KeepInv, Working
<1>14. PlaceInv'
  <2>1. ASSUME step' = "read", t.pos < Size(poll.of)
        PROVE  after <= t.pos /\ (~Crlf => after = t.pos)
    BY <1>2, <1>4, <2>1
  <2>2. Size(poll.of)' = Size(poll'.of)
    BY DEF Size, Width
  <2>3. Size(poll'.of) = Size(poll.of)
    BY <1>7
  <2> QED BY <1>3, <1>7, <2>1, <2>2, <2>3 DEF PlaceInv, g
<1>15. ASSUME Ours, NEW k \in 1..MaxLines, Start(k) < t.pos \/ Start(k) < after
       PROVE  Then(g, k) \/ Old(g, k)
  <2>1. k \in Nat \ {0} /\ k \in Int /\ Start(k) \in Int
    <3>1. k \in Nat \ {0} /\ k \in Int
      BY DEF RemoteConstants
    <3> QED BY <3>1, Starts
  <2>2. CASE Start(k) < poll.pos
    <3>1. Accounted(g, poll.pos)
      BY <1>15 DEF Inv, PollInv, ReadInv, g
    <3>2. Known(g, k) \/ Old(g, k)
      BY <2>2, <3>1 DEF Accounted
    <3> QED BY <3>2, <1>10
  <2>3. CASE poll.pos <= Start(k)
    <3>1. Start(k) < Start(line + 1)
      BY <1>2, <1>3, <1>4, <1>15, <2>1
    <3>2. k <= line
      <4> SUFFICES ASSUME line < k PROVE FALSE
        BY <1>4, <2>1
      <4>1. Start(line + 1) <= Start(k)
        BY <1>4, <2>1, LaterLine
      <4> QED BY <4>1, <3>1, <2>1, <1>4
    <3>3. Start(k) <= Start(line)
      <4>1. k < line => Start(k) + Width <= Start(line)
        BY <1>4, <2>1, LaterLine
      <4> QED BY <4>1, <3>2, <1>4, <2>1, Widths
    <3>4. Start(k) < stop /\ Start(k) < t.pos
      BY <3>3, <1>4, <1>2, <2>1
    <3>5. CASE Start(k) + 2 <= stop
      <4>1. Old(g, k) \/ \E r \in R : r.gen = g /\ r.k = k
        BY <1>1, <2>1, <2>3, <3>4, <3>5
      <4> QED BY <4>1, <1>11
    <3>6. CASE stop < Start(k) + 2
      <4>1. ~source.compressed
        BY <1>15 DEF Ours
      <4>2. t.pos < Start(k) + 2
        BY <1>2, <2>1, <3>6
      <4> QED BY <1>6, <3>4, <4>1, <4>2
    <3> QED BY <3>5, <3>6, <2>1
  <2> QED BY <2>1, <2>2, <2>3, <1>3
<1>16. ReadInv'
  BY <1>7, <1>15 DEF ReadInv, Ours, Accounted, Known, Stored, Old, Start, Width, g
<1> QED BY <1>8, <1>9, <1>12, <1>13, <1>14, <1>16 DEF Inv, PollInv

LEMMA ReadSteps ==
  ASSUME RemoteConstants, Inv, ReadOn \/ InsertFails \/ \E stop \in 1..(MaxLines * Width) : BreakOff(stop)
  PROVE  Inv'
<1>1. step = "read" => Size(poll.of) \in Nat /\ poll.pos \in Nat
  <2>1. poll.of \in Objects /\ poll.pos \in Nat
    BY DEF Inv, RemoteTypes, Polls
  <2> QED BY <2>1, Widths DEF Size, Objects
<1>2. CASE ReadOn \/ InsertFails
  <2>1. PICK stop \in Stops : ReadBatch(stop, TRUE) \/ ReadBatch(stop, FALSE)
    BY <1>2 DEF ReadOn, InsertFails
  <2>2. step = "read" /\ step' = "read" /\ poll.pos < stop /\ stop <= Size(poll.of)
    BY <1>2, <2>1 DEF ReadOn, InsertFails, Stops
  <2>3. stop \in Nat /\ (stop = Size(poll.of) \/ stop % Width = 0)
    <3>1. CASE stop = Size(poll.of)
      BY <1>1, <2>2, <3>1
    <3>2. ASSUME NEW k \in 1..MaxLines, stop = Start(k) PROVE stop \in Nat /\ stop % Width = 0
      <4>1. k \in Nat \ {0} /\ k \in Int /\ k >= 1
        BY DEF RemoteConstants
      <4> QED BY <3>2, <4>1, LineOfStart, Starts
    <3> QED BY <2>1, <3>1, <3>2 DEF Stops
  <2>4. /\ source' = source /\ object' = object /\ st' = st /\ disk' = disk /\ missed' = missed
        /\ poll' = [poll EXCEPT !.pos = Taken(stop).pos, !.counted = Taken(stop).counted]
    BY <1>2, <2>1 DEF ReadOn, InsertFails, ReadBatch, Quiet
  <2>5. /\ lostLines \subseteq lostLines'
        /\ \/ remoteRows' = remoteRows \cup RowsOf(poll, Taken(stop))
           \/ remoteRows' = remoteRows /\ LinesOf(RowsOf(poll, Taken(stop))) \subseteq lostLines'
        /\ ~source.compressed => CutAt(Taken(stop).pos) \subseteq lostLines'
    BY <2>1 DEF ReadBatch
  <2>6. poll.pos < Size(poll.of)
    BY <1>1, <2>2, <2>3
  <2> QED BY <2>2, <2>3, <2>4, <2>5, <2>6, BatchStep
<1>3. ASSUME NEW stop \in 1..(MaxLines * Width), BreakOff(stop) PROVE Inv'
  <2>1. step = "read" /\ step' = "close" /\ poll.pos < stop /\ stop \in Nat /\ poll.pos < Size(poll.of)
        /\ stop <= Start(LineOf(poll.pos) + RemoteBatch)
    <3>1. MaxLines * Width \in Int /\ stop \in Nat
      BY Widths DEF RemoteConstants
    <3>2. step = "read" /\ step' = "close" /\ stop \in (poll.pos + 1)..(Size(poll.of) - 1)
          /\ stop <= Start(LineOf(poll.pos) + RemoteBatch)
      BY <1>3 DEF BreakOff
    <3>3. poll.pos \in Nat /\ Size(poll.of) \in Int
      BY <1>1, <3>2
    <3> QED BY <3>1, <3>2, <3>3
  <2>2. Taken(stop).pos = stop
    <3>1. /\ poll.pos \in Nat /\ poll.counted \in Nat /\ poll.start \in Nat
          /\ poll.start + poll.counted <= poll.pos /\ (~Crlf => poll.start + poll.counted = poll.pos)
      BY <2>1, ReadPlaces
    <3> QED BY <2>1, <3>1, TakenIs
  <2>3. /\ source' = source /\ object' = object /\ st' = st /\ disk' = disk /\ missed' = missed
        /\ poll' = [poll EXCEPT !.pos = Taken(stop).pos, !.counted = Taken(stop).counted]
        /\ remoteRows' = remoteRows \cup RowsOf(poll, Taken(stop)) /\ lostLines \subseteq lostLines'
    BY <1>3 DEF BreakOff
  <2>4. ~source.compressed => CutAt(stop) \subseteq lostLines'
    BY <1>3 DEF BreakOff
  <2> QED BY <2>1, <2>2, <2>3, <2>4, BatchStep
<1> QED BY <1>2, <1>3

LEMMA ReparseSteps == ASSUME RemoteConstants, Inv, Reparse \/ ReparseRange PROVE Inv'
<1>1. CASE Reparse
  <2>1. /\ source' = source /\ object' = object /\ remoteRows' = {} /\ st' = NoState /\ disk' = NoState
        /\ step = "idle" /\ step' = "idle" /\ poll' = poll
    BY <1>1 DEF Reparse
  <2>2. RemoteTypes' /\ RemoteRowsInv'
    BY <2>1, StateShapes DEF Inv, RemoteTypes, RemoteRowsInv
  <2>3. StatesInv' /\ PollInv'
    BY <2>1, StateShapes DEF StatesInv, Told, PollInv, KeepInv, PlaceInv, ReadInv, Working
  <2> QED BY <2>2, <2>3 DEF Inv
<1>2. CASE ReparseRange
  <2>1. /\ source' = source /\ object' = object /\ remoteRows' = {} /\ st' = st /\ disk' = disk
        /\ lostLines' = lostLines \cup LinesOf(remoteRows) /\ missed' = missed
        /\ step' = "open" /\ poll' = [NoPoll EXCEPT !.again = TRUE]
    BY <1>2 DEF ReparseRange, Quiet
  <2>2. poll' \in Polls /\ poll'.keep = NoState /\ poll'.start = 0 /\ poll'.counted = 0
    <3>1. NoPoll \in Polls /\ NoPoll.keep = NoState /\ NoPoll.start = 0 /\ NoPoll.counted = 0
      BY StateShapes DEF NoPoll
    <3> QED BY <2>1, <3>1 DEF Polls
  <2>3. RemoteTypes' /\ RemoteRowsInv'
    BY <2>1, <2>2 DEF Inv, RemoteTypes, RemoteRowsInv
  <2>4. \A g, k : Known(g, k) => <<g, k>> \in lostLines'
    BY <2>1 DEF Known, Stored, LinesOf
  <2>5. StatesInv'
    BY <2>1, <2>4 DEF Inv, StatesInv, Told, Accounted, Known, Old, Start, Width
  <2>6. PollInv'
    BY <2>1, <2>2, StateShapes DEF PollInv, KeepInv, PlaceInv, ReadInv
  <2> QED BY <2>3, <2>5, <2>6 DEF Inv
<1> QED BY <1>1, <1>2

LEMMA SameStep == ASSUME Inv, UNCHANGED remoteVars PROVE Inv'
<1>1. /\ source' = source /\ object' = object /\ st' = st /\ disk' = disk /\ step' = step /\ poll' = poll
      /\ remoteRows' = remoteRows /\ lostLines' = lostLines /\ missed' = missed
  BY DEF remoteVars
<1>2. RemoteTypes' /\ RemoteRowsInv' /\ KeepInv' /\ PlaceInv'
  BY <1>1, SameLines DEF Inv, RemoteTypes, PollInv, KeepInv, PlaceInv
<1>3. StatesInv' /\ ReadInv'
  BY <1>1 DEF Inv, PollInv, StatesInv, ReadInv, Told, Ours, Accounted, Known, Stored, Old,
              Start, Width
<1> QED BY <1>2, <1>3 DEF Inv, PollInv

LEMMA NextInv == ASSUME RemoteConstants, Inv, [RemoteNext]_remoteVars PROVE Inv'
<1>1. CASE Poll
  BY <1>1, ListTargetsStep, DecideStep, OpenRangeStep, EndsStep, ReadSteps, EndOfBodyStep,
     SetTargetStateStep DEF Poll
<1>2. CASE Faults
  BY <1>2, EndsStep, ReadSteps DEF Faults
<1>3. CASE AppendLine \/ (\E c \in 1..(Width - 1) : WritePart(c)) \/ (\E n \in 0..MaxLines : Replace(n))
  BY <1>3, WriterStep DEF Writer
<1>4. CASE Reparse \/ ReparseRange
  BY <1>4, ReparseSteps
<1>5. CASE UNCHANGED remoteVars
  BY <1>5, SameStep
<1> QED BY <1>1, <1>2, <1>3, <1>4, <1>5 DEF RemoteNext

----------------------------------------------------------------------------
(* THE RESULTS                                                               *)

\* A line of a remote object has one row, from whatever offset it is read again, when
\* lines end in LF (source_scanner.go, scanTarget, and the fingerprint of parseLogLines).
THEOREM LinesHaveOneRow ==
  RemoteConstants /\ ~Crlf => (RemoteInit /\ [][RemoteNext]_remoteVars => []NoDuplicates)
<1> SUFFICES ASSUME RemoteConstants, ~Crlf PROVE RemoteInit /\ [][RemoteNext]_remoteVars => []NoDuplicates
  OBVIOUS
<1>1. Inv => NoDuplicates
  BY RowsOnce DEF Inv
<1> QED BY <1>1, InitInv, NextInv, PTL

\* The offset of a state, in memory or in the file, passes no line that is not stored, old,
\* taken by a failure, or half written when it was read, whatever the lines end in and
\* wherever a scan stops at a line that is too long (setTargetState, buildTargetState).
THEOREM OffsetsAreAccounted ==
  RemoteConstants => (RemoteInit /\ [][RemoteNext]_remoteVars => []OffsetAccounted)
<1> SUFFICES ASSUME RemoteConstants PROVE RemoteInit /\ [][RemoteNext]_remoteVars => []OffsetAccounted
  OBVIOUS
<1>1. Inv => OffsetAccounted
  BY OffsetsPassed DEF Inv
<1> QED BY <1>1, InitInv, NextInv, PTL

----------------------------------------------------------------------------
(* SUMS                                                                      *)

\* A set of subsets of a finite set has a least one.
LEMMA LeastSubset ==
  ASSUME NEW S, IsFiniteSet(S), NEW T \in SUBSET (SUBSET S), T # {}
  PROVE  \E m \in T : \A t \in T : t \subseteq m => t = m
<1>1. IsWellFoundedOn(StrictSubsetOrdering(S), FiniteSubsetsOf(S))
  BY FS_StrictSubsetOrderingWellFounded
<1>2. T \subseteq FiniteSubsetsOf(S)
  BY FS_Subset DEF FiniteSubsetsOf
<1>3. PICK m \in T : \A t \in T : ~ (<<t, m>> \in StrictSubsetOrdering(S))
  BY <1>1, <1>2, WFMin
<1>4. \A t \in T : t \subseteq m /\ t # m => <<t, m>> \in StrictSubsetOrdering(S)
  BY DEF StrictSubsetOrdering
<1> SUFFICES ASSUME NEW t \in T, t \subseteq m, t # m PROVE FALSE
  BY Zenon
<1> QED BY <1>3, <1>4, Zenon

\* The hits that the ingesters of S hold for a rule.
Held(h, r, S) == MapThenSumSet(LAMBDA w : h[w].hits[r], S)
Some(s) == CHOOSE x \in s : TRUE
\* The function that a fold is computed with.
Sums(f, h, r, S) ==
  f = [s \in SUBSET S |-> IF s = {} THEN 0 ELSE h[Some(s)].hits[r] + f[s \ {Some(s)}]]
Adding(f, h, r, s) == f[s] = h[Some(s)].hits[r] + f[s \ {Some(s)}]

LEMMA HeldIs ==
  ASSUME NEW h, NEW r, NEW S
  PROVE  Held(h, r, S) = (CHOOSE f : Sums(f, h, r, S))[S]
BY DEF Held, MapThenSumSet, MapThenFoldSet, Sums, Some

LEMMA SomeIn == \A s : s # {} => Some(s) \in s
BY DEF Some

LEMMA SumNone ==
  ASSUME NEW h, NEW r, NEW S, NEW f, Sums(f, h, r, S)
  PROVE  f[{}] = 0
<1> DEFINE v(u) == IF u = {} THEN 0 ELSE h[Some(u)].hits[r] + f[u \ {Some(u)}]
           g == [u \in SUBSET S |-> v(u)]
<1>1. f = g
  BY DEF Sums
<1>2. g[{}] = v({})
  OBVIOUS
<1>3. v({}) = 0
  OBVIOUS
<1> HIDE DEF g, v
<1> QED BY <1>1, <1>2, <1>3

LEMMA SumOnce ==
  ASSUME NEW h, NEW r, NEW S, NEW f, Sums(f, h, r, S), NEW s \in SUBSET S, s # {}
  PROVE  Adding(f, h, r, s)
<1> DEFINE v(u) == IF u = {} THEN 0 ELSE h[Some(u)].hits[r] + f[u \ {Some(u)}]
           g == [u \in SUBSET S |-> v(u)]
<1>1. f = g
  BY DEF Sums
<1>2. g[s] = v(s)
  OBVIOUS
<1>3. v(s) = h[Some(s)].hits[r] + f[s \ {Some(s)}]
  OBVIOUS
<1> HIDE DEF g, v
<1> QED BY <1>1, <1>2, <1>3 DEF Adding

LEMMA SumsAgree ==
  ASSUME NEW h, NEW r, NEW R, NEW S, R \subseteq S, IsFiniteSet(R),
         NEW f, Sums(f, h, r, R), NEW g, Sums(g, h, r, S), NEW s \in SUBSET R
  PROVE  f[s] = g[s]
<1> DEFINE T == {u \in SUBSET R : f[u] # g[u]}
<1> SUFFICES ASSUME T # {} PROVE FALSE
  OBVIOUS
<1>0. T \in SUBSET (SUBSET R)
  OBVIOUS
<1>1. PICK m \in T : \A t \in T : t \subseteq m => t = m
  <2> HIDE DEF T
  <2> QED BY <1>0, LeastSubset
<1> HIDE DEF T
<1>2. m \in SUBSET R /\ m \in SUBSET S /\ f[m] # g[m]
  BY DEF T
<1>3. m # {}
  <2>1. f[{}] = 0 /\ g[{}] = 0
    BY SumNone
  <2> QED BY <1>2, <2>1
<1> DEFINE n == m \ {Some(m)}
<1>4. n \subseteq m /\ n # m /\ n \in SUBSET R
  BY <1>2, <1>3, SomeIn
<1>5. f[n] = g[n]
  BY <1>1, <1>4 DEF T
<1> HIDE DEF n
<1>6. Adding(f, h, r, m) /\ Adding(g, h, r, m)
  BY <1>2, <1>3, SumOnce
<1> QED BY <1>2, <1>5, <1>6 DEF n, Adding

LEMMA SumExists ==
  ASSUME NEW h, NEW r, NEW S, IsFiniteSet(S)
  PROVE  \E f : Sums(f, h, r, S)
<1> DEFINE Has(u) == \E f : Sums(f, h, r, u)
           T == {u \in SUBSET S : ~Has(u)}
<1> SUFFICES ASSUME T # {} PROVE FALSE
  OBVIOUS
<1>0. T \in SUBSET (SUBSET S)
  OBVIOUS
<1>1. PICK m \in T : \A t \in T : t \subseteq m => t = m
  <2> HIDE DEF T
  <2> QED BY <1>0, LeastSubset
<1>2. m \in SUBSET S /\ ~Has(m)
  OBVIOUS
<1> DEFINE F(u) == CHOOSE f : Sums(f, h, r, u)
<1>3. \A u \in SUBSET m : u # m => Sums(F(u), h, r, u)
  <2> TAKE u \in SUBSET m
  <2> HAVE u # m
  <2>1. Has(u)
    BY <1>1, <1>2
  <2> QED BY <2>1
<1> DEFINE v(u) == IF u = {} THEN 0 ELSE h[Some(u)].hits[r] + F(u \ {Some(u)})[u \ {Some(u)}]
           f == [u \in SUBSET m |-> v(u)]
<1> HIDE DEF F, T, Has
<1>4. ASSUME NEW u \in SUBSET m, u # {}
      PROVE  f[u \ {Some(u)}] = F(u \ {Some(u)})[u \ {Some(u)}]
  <2> DEFINE w == u \ {Some(u)}
             x == w \ {Some(w)}
  <2>1. w \in SUBSET m /\ w # m /\ IsFiniteSet(w)
    BY <1>2, <1>4, SomeIn, FS_Subset
  <2>2. Sums(F(w), h, r, w)
    BY <2>1, <1>3
  <2>3. f[w] = v(w)
    BY <2>1
  <2>4. w # {} => F(w)[w] = h[Some(w)].hits[r] + F(w)[x]
    <3> HIDE DEF w
    <3> QED BY <2>2, SumOnce DEF Adding
  <2>5. CASE w = {}
    <3>1. F({})[{}] = 0
      <4> HIDE DEF w
      <4> QED BY <2>2, <2>5, SumNone
    <3> QED BY <2>3, <3>1, <2>5
  <2>6. CASE w # {}
    <3>1. x \subseteq w /\ x # w /\ x \in SUBSET m /\ x # m /\ IsFiniteSet(x)
      BY <2>1, <2>6, SomeIn, FS_Subset
    <3>2. Sums(F(x), h, r, x)
      BY <3>1, <1>3
    <3> HIDE DEF w, x
    <3>3. F(x)[x] = F(w)[x]
      BY <2>1, <2>2, <3>1, <3>2, SumsAgree
    <3>4. v(w) = h[Some(w)].hits[r] + F(x)[x]
      BY <2>6 DEF x
    <3> QED BY <2>3, <2>4, <2>6, <3>3, <3>4 DEF w
  <2> QED BY <2>5, <2>6
<1>5. f = [u \in SUBSET m |-> IF u = {} THEN 0 ELSE h[Some(u)].hits[r] + f[u \ {Some(u)}]]
  <2> DEFINE g == [u \in SUBSET m |-> IF u = {} THEN 0 ELSE h[Some(u)].hits[r] + f[u \ {Some(u)}]]
  <2>1. \A u \in SUBSET m : f[u] = g[u]
    <3> TAKE u \in SUBSET m
    <3>1. CASE u = {}
      BY <3>1
    <3>2. CASE u # {}
      <4>1. f[u] = h[Some(u)].hits[r] + F(u \ {Some(u)})[u \ {Some(u)}]
        BY <3>2
      <4>2. g[u] = h[Some(u)].hits[r] + f[u \ {Some(u)}]
        BY <3>2
      <4> QED BY <1>4, <3>2, <4>1, <4>2
    <3> QED BY <3>1, <3>2
  <2> QED BY <2>1
<1>6. Sums(f, h, r, m)
  BY <1>5 DEF Sums
<1> QED BY <1>2, <1>6 DEF Has

LEMMA HeldNone == \A h, r : Held(h, r, {}) = 0
<1> TAKE h, r
<1>1. IsFiniteSet({})
  BY FS_EmptySet
<1>2. PICK f : Sums(f, h, r, {})
  BY <1>1, SumExists
<1>3. Sums(CHOOSE f0 : Sums(f0, h, r, {}), h, r, {})
  BY <1>2
<1>4. (CHOOSE f0 : Sums(f0, h, r, {}))[{}] = 0
  BY <1>3, SumNone
<1> QED BY <1>4, HeldIs

LEMMA HeldOnce ==
  ASSUME NEW h, NEW r, NEW S, IsFiniteSet(S), S # {}
  PROVE  Held(h, r, S) = h[Some(S)].hits[r] + Held(h, r, S \ {Some(S)})
<1> DEFINE R == S \ {Some(S)}
           f == CHOOSE f0 : Sums(f0, h, r, S)
           g == CHOOSE f0 : Sums(f0, h, r, R)
<1>1. IsFiniteSet(R) /\ R \subseteq S
  BY FS_Subset
<1> HIDE DEF R
<1>2. Sums(f, h, r, S)
  BY SumExists
<1>3. Sums(g, h, r, R)
  BY <1>1, SumExists
<1>4. f[S] = h[Some(S)].hits[r] + f[S \ {Some(S)}]
  <2>1. S \in SUBSET S
    OBVIOUS
  <2> HIDE DEF f, g
  <2>2. Adding(f, h, r, S)
    BY <1>2, <2>1, SumOnce
  <2> QED BY <2>2 DEF Adding
<1>5. g[R] = f[R]
  <2>1. R \in SUBSET R
    OBVIOUS
  <2> HIDE DEF f, g
  <2> QED BY ONLY <1>1, <1>2, <1>3, <2>1, SumsAgree
<1>6. Held(h, r, S) = f[S] /\ Held(h, r, R) = g[R]
  BY HeldIs
<1> QED BY <1>4, <1>5, <1>6 DEF R

\* Ingesters hold a number of hits.
Holding(h, r, S) == IsFiniteSet(S) /\ \A w \in S : h[w].hits[r] \in Nat

LEMMA HeldType ==
  ASSUME NEW h, NEW r, NEW S, Holding(h, r, S)
  PROVE  Held(h, r, S) \in Nat
<1> DEFINE T == {u \in SUBSET S : Held(h, r, u) \notin Nat}
<1> SUFFICES ASSUME T # {} PROVE FALSE
  BY DEF Holding
<1>1. T \in SUBSET (SUBSET S) /\ IsFiniteSet(S)
  BY DEF Holding
<1>2. PICK m \in T : \A t \in T : t \subseteq m => t = m
  <2> HIDE DEF T
  <2> QED BY <1>1, LeastSubset
<1>3. m # {}
  BY HeldNone
<1>4. Some(m) \in m /\ m \subseteq S /\ IsFiniteSet(m)
  BY <1>1, <1>3, SomeIn, FS_Subset
<1>5. Held(h, r, m \ {Some(m)}) \in Nat
  BY <1>2, <1>4
<1>6. h[Some(m)].hits[r] \in Nat
  BY <1>4 DEF Holding
<1>7. Held(h, r, m) = h[Some(m)].hits[r] + Held(h, r, m \ {Some(m)})
  BY <1>3, <1>4, HeldOnce
<1> QED BY <1>5, <1>6, <1>7

\* What does not change an ingester's hits does not change their sum.
LEMMA HeldSame ==
  ASSUME NEW h, NEW k, NEW r, NEW S, IsFiniteSet(S), \A w \in S : k[w].hits[r] = h[w].hits[r]
  PROVE  Held(k, r, S) = Held(h, r, S)
<1> DEFINE T == {u \in SUBSET S : Held(k, r, u) # Held(h, r, u)}
<1> SUFFICES ASSUME T # {} PROVE FALSE
  OBVIOUS
<1>1. T \in SUBSET (SUBSET S)
  OBVIOUS
<1>2. PICK m \in T : \A t \in T : t \subseteq m => t = m
  <2> HIDE DEF T
  <2> QED BY <1>1, LeastSubset
<1>3. m # {}
  BY HeldNone
<1>4. Some(m) \in m /\ m \subseteq S /\ IsFiniteSet(m)
  BY <1>1, <1>3, SomeIn, FS_Subset
<1> DEFINE n == m \ {Some(m)}
<1>5. Held(k, r, n) = Held(h, r, n)
  BY <1>2, <1>4
<1>6. /\ Held(h, r, m) = h[Some(m)].hits[r] + Held(h, r, n)
      /\ Held(k, r, m) = k[Some(m)].hits[r] + Held(k, r, n)
  BY <1>3, <1>4, HeldOnce
<1> QED BY <1>4, <1>5, <1>6

\* What changes the hits of one ingester changes the sum by as many.
LEMMA HeldChange ==
  ASSUME NEW h, NEW k, NEW r, NEW S, NEW w \in S, Holding(h, r, S), Holding(k, r, S),
         \A v \in S \ {w} : k[v].hits[r] = h[v].hits[r]
  PROVE  Held(k, r, S) + h[w].hits[r] = Held(h, r, S) + k[w].hits[r]
<1> DEFINE Moved(u) == Held(k, r, u) + h[w].hits[r] = Held(h, r, u) + k[w].hits[r]
           T == {u \in SUBSET S : w \in u /\ ~Moved(u)}
<1>0. IsFiniteSet(S)
  BY DEF Holding
<1> SUFFICES ASSUME T # {} PROVE FALSE
  OBVIOUS
<1>1. T \in SUBSET (SUBSET S)
  OBVIOUS
<1>2. PICK m \in T : \A t \in T : t \subseteq m => t = m
  <2> HIDE DEF T
  <2> QED BY <1>0, <1>1, LeastSubset
<1>3. m \subseteq S /\ w \in m /\ ~Moved(m) /\ IsFiniteSet(m) /\ Some(m) \in m
  BY <1>0, <1>2, SomeIn, FS_Subset
<1> DEFINE n == m \ {Some(m)}
<1>4. n \in SUBSET S /\ n # m /\ n \subseteq m /\ IsFiniteSet(n)
  BY <1>3, FS_Subset
<1>5. /\ Held(h, r, m) = h[Some(m)].hits[r] + Held(h, r, n)
      /\ Held(k, r, m) = k[Some(m)].hits[r] + Held(k, r, n)
  BY <1>3, HeldOnce
<1>6. Held(h, r, n) \in Nat /\ Held(k, r, n) \in Nat
  BY <1>4, HeldType DEF Holding
<1>7. /\ h[w].hits[r] \in Nat /\ k[w].hits[r] \in Nat
      /\ h[Some(m)].hits[r] \in Nat /\ k[Some(m)].hits[r] \in Nat
  BY <1>3 DEF Holding
<1>8. CASE Some(m) = w
  <2>1. Held(k, r, n) = Held(h, r, n)
    BY <1>4, <1>8, HeldSame
  <2> HIDE DEF n
  <2> QED BY <1>3, <1>5, <1>6, <1>7, <1>8, <2>1
<1>9. CASE Some(m) # w
  <2>1. w \in n
    BY <1>3, <1>9
  <2>2. Moved(n)
    BY <1>2, <1>4, <2>1
  <2>3. k[Some(m)].hits[r] = h[Some(m)].hits[r]
    BY <1>3, <1>9
  <2> HIDE DEF n
  <2> QED BY <1>3, <1>5, <1>6, <1>7, <2>2, <2>3
<1> QED BY <1>8, <1>9

LEMMA HeldZero ==
  ASSUME NEW h, NEW r, NEW S, IsFiniteSet(S), \A w \in S : h[w].hits[r] = 0
  PROVE  Held(h, r, S) = 0
<1> DEFINE T == {u \in SUBSET S : Held(h, r, u) # 0}
<1> SUFFICES ASSUME T # {} PROVE FALSE
  OBVIOUS
<1>1. T \in SUBSET (SUBSET S)
  OBVIOUS
<1>2. PICK m \in T : \A t \in T : t \subseteq m => t = m
  <2> HIDE DEF T
  <2> QED BY <1>1, LeastSubset
<1>3. m \subseteq S /\ Held(h, r, m) # 0 /\ IsFiniteSet(m)
  BY <1>2, FS_Subset
<1>4. m # {} /\ Some(m) \in m
  BY <1>3, HeldNone, SomeIn
<1>5. Held(h, r, m \ {Some(m)}) = 0
  BY <1>2, <1>3, <1>4
<1>6. Held(h, r, m) = h[Some(m)].hits[r] + Held(h, r, m \ {Some(m)})
  BY <1>3, <1>4, HeldOnce
<1> QED BY <1>3, <1>4, <1>5, <1>6

----------------------------------------------------------------------------
(* TYPES                                                                     *)

Marks == Rules \cup {NoRule}
Ingesting ==
  [pc : {"idle", "lines"}, todo : Seq(Marks), batch : Seq(Marks),
   batchHits : [Rules -> Nat], hits : [Rules -> Nat]]
\* The hits of a batch are those of its lines, and an ingester that is done holds none.
IngestOK ==
  /\ ing \in [Ingesters -> Ingesting]
  /\ \A w \in Ingesters : /\ ing[w].batchHits = CountOf(ing[w].batch)
                          /\ ing[w].pc = "idle" => ing[w].hits = None
CountsOK ==
  /\ stored \in [Rules -> Nat] /\ reread \in [Rules -> Nat]
  /\ cleared \in [Rules -> Nat] /\ hitsLost \in [Rules -> Nat]
Notice == [times : Nat, read : BOOLEAN, at : Nat]
\* NOW() is later than what has occurred, and no two notices occurred at once.
NoticesOK ==
  /\ DOMAIN notices \subseteq Prints /\ IsFiniteSet(DOMAIN notices)
  /\ clock \in Nat
  /\ notices \in [DOMAIN notices -> Notice]
  /\ \A f \in DOMAIN notices :
       /\ notices[f].at < clock
       /\ \A g \in DOMAIN notices : notices[g].at = notices[f].at => g = f
NoticesTypes == IngestOK /\ CountsOK /\ NoticesOK

\* How many lines of a batch are on the whitelist by a rule.
LEMMA CountNone == CountOf(<<>>) = None
<1>1. ASSUME NEW r \in Rules PROVE Cardinality({i \in DOMAIN <<>> : <<>>[i] = r}) = 0
  <2>1. {i \in DOMAIN <<>> : <<>>[i] = r} = {}
    OBVIOUS
  <2> QED BY <2>1, FS_EmptySet
<1> QED BY <1>1 DEF CountOf, CountAt, None

LEMMA CountPlace ==
  ASSUME NEW s \in Seq(Marks), NEW r
  PROVE  IsFiniteSet({i \in DOMAIN s : s[i] = r}) /\ Cardinality({i \in DOMAIN s : s[i] = r}) \in Nat
<1> DEFINE A == {i \in DOMAIN s : s[i] = r}
<1>1. DOMAIN s = 1..Len(s) /\ Len(s) \in Int /\ 1 \in Int
  OBVIOUS
<1>2. IsFiniteSet(DOMAIN s)
  BY <1>1, FS_Interval
<1>3. A \subseteq DOMAIN s
  OBVIOUS
<1> HIDE DEF A
<1>4. IsFiniteSet(A)
  BY <1>2, <1>3, FS_Subset
<1>5. Cardinality(A) \in Nat
  BY <1>4, FS_CardinalityType
<1> QED BY <1>4, <1>5 DEF A

LEMMA CountType ==
  ASSUME NEW s \in Seq(Marks)
  PROVE  CountOf(s) \in [Rules -> Nat]
BY CountPlace DEF CountOf, CountAt

\* The hits of a batch are those of the lines that were there already, and of the others.
LEMMA CountParts ==
  ASSUME NEW s \in Seq(Marks), NEW D \in SUBSET DOMAIN s
  PROVE  /\ CountAt(s, D) \in [Rules -> Nat] /\ CountAt(s, DOMAIN s \ D) \in [Rules -> Nat]
         /\ \A r \in Rules : CountOf(s)[r] = CountAt(s, DOMAIN s \ D)[r] + CountAt(s, D)[r]
<1> DEFINE Lines(r) == {i \in DOMAIN s : s[i] = r}
           In(r) == {i \in D : s[i] = r}
           Out(r) == {i \in DOMAIN s \ D : s[i] = r}
<1>1. ASSUME NEW r \in Rules
      PROVE  /\ Cardinality(In(r)) \in Nat /\ Cardinality(Out(r)) \in Nat
             /\ Cardinality(Lines(r)) = Cardinality(Out(r)) + Cardinality(In(r))
  <2>1. IsFiniteSet(Lines(r))
    BY CountPlace
  <2>2. In(r) \subseteq Lines(r) /\ Out(r) \subseteq Lines(r)
    OBVIOUS
  <2>3. Lines(r) = Out(r) \cup In(r) /\ Out(r) \cap In(r) = {}
    OBVIOUS
  <2> HIDE DEF Lines, In, Out
  <2>4. IsFiniteSet(In(r)) /\ IsFiniteSet(Out(r))
    BY <2>1, <2>2, FS_Subset
  <2>5. Cardinality(In(r)) \in Nat /\ Cardinality(Out(r)) \in Nat /\ Cardinality({}) = 0
    BY <2>4, FS_CardinalityType, FS_EmptySet
  <2>6. Cardinality(Out(r) \cup In(r)) = Cardinality(Out(r)) + Cardinality(In(r)) - Cardinality(Out(r) \cap In(r))
    BY <2>4, FS_Union
  <2>7. Cardinality(Lines(r)) = Cardinality(Out(r) \cup In(r)) /\ Cardinality(Out(r) \cap In(r)) = 0
    BY <2>3, <2>5, Zenon
  <2> QED BY <2>5, <2>6, <2>7
<1> QED BY <1>1 DEF CountOf, CountAt

LEMMA CountAppend ==
  ASSUME NEW s \in Seq(Marks), NEW x \in Marks, NoticesConstants
  PROVE  CountOf(Append(s, x)) =
           IF x = NoRule THEN CountOf(s) ELSE [CountOf(s) EXCEPT ![x] = @ + 1]
<1> DEFINE PlacesOf(t, r) == {i \in DOMAIN t : t[i] = r}
           t == Append(s, x)
<1>1. /\ DOMAIN s = 1..Len(s) /\ Len(s) \in Nat /\ DOMAIN t = 1..(Len(s) + 1)
      /\ t[Len(s) + 1] = x /\ \A i \in 1..Len(s) : t[i] = s[i]
  OBVIOUS
<1>2. ASSUME NEW r \in Rules
      PROVE  /\ r # x => Cardinality(PlacesOf(t, r)) = Cardinality(PlacesOf(s, r))
             /\ r = x => Cardinality(PlacesOf(t, r)) = Cardinality(PlacesOf(s, r)) + 1
  <2>1. IsFiniteSet(PlacesOf(s, r)) /\ Cardinality(PlacesOf(s, r)) \in Nat
    BY CountPlace
  <2>2. r # x => PlacesOf(t, r) = PlacesOf(s, r)
    BY <1>1
  <2>3. r = x => PlacesOf(t, r) = PlacesOf(s, r) \cup {Len(s) + 1} /\ Len(s) + 1 \notin PlacesOf(s, r)
    BY <1>1
  <2> HIDE DEF PlacesOf, t
  <2>4. r = x => Cardinality(PlacesOf(t, r)) = Cardinality(PlacesOf(s, r)) + 1
    BY <2>1, <2>3, FS_AddElement
  <2> QED BY <2>2, <2>4
<1>3. \A r \in Rules : CountOf(t)[r] = Cardinality(PlacesOf(t, r)) /\ CountOf(s)[r] = Cardinality(PlacesOf(s, r))
  BY DEF CountOf, CountAt
<1> HIDE DEF PlacesOf
<1>4. CountOf(t) = [r \in Rules |-> CountOf(t)[r]] /\ CountOf(s) = [r \in Rules |-> CountOf(s)[r]]
  BY DEF CountOf, CountAt
<1>5. NoRule \notin Rules
  BY DEF NoticesConstants
<1> HIDE DEF t
<1>6. CASE x = NoRule
  <2>1. \A r \in Rules : CountOf(t)[r] = CountOf(s)[r]
    BY <1>2, <1>3, <1>5, <1>6
  <2> QED BY <1>4, <1>6, <2>1 DEF t
<1>7. CASE x \in Rules
  <2>1. \A r \in Rules : CountOf(t)[r] = [CountOf(s) EXCEPT ![x] = @ + 1][r]
    BY <1>2, <1>3, <1>4, <1>7
  <2>2. [CountOf(s) EXCEPT ![x] = @ + 1] = [r \in Rules |-> [CountOf(s) EXCEPT ![x] = @ + 1][r]]
    BY <1>4
  <2>3. x # NoRule
    BY <1>5, <1>7
  <2> QED BY <1>4, <2>1, <2>2, <2>3 DEF t
<1> QED BY <1>6, <1>7 DEF Marks

LEMMA NoticesInitTypes ==
  ASSUME NoticesConstants, NoticesInit
  PROVE  NoticesTypes
<1>1. None \in [Rules -> Nat]
  BY DEF None
<1>2. IngestOK
  <2>1. Idle \in Ingesting
    BY <1>1 DEF Idle, Ingesting
  <2>2. Idle.batchHits = CountOf(Idle.batch) /\ Idle.hits = None
    BY CountNone DEF Idle
  <2> QED BY <2>1, <2>2 DEF NoticesInit, IngestOK
<1>3. CountsOK
  BY <1>1 DEF NoticesInit, CountsOK
<1>4. NoticesOK
  <2>1. notices = <<>> /\ DOMAIN notices = {} /\ clock = 1
    BY DEF NoticesInit
  <2> QED BY <2>1, FS_EmptySet DEF NoticesOK
<1> QED BY <1>2, <1>3, <1>4 DEF NoticesTypes

LEMMA PlusType ==
  ASSUME NEW f \in [Rules -> Nat], NEW g \in [Rules -> Nat]
  PROVE  Plus(f, g) \in [Rules -> Nat]
BY DEF Plus

\* A statement on the table keeps it one.
LEMMA UpsertTypes ==
  ASSUME NoticesOK, NEW f \in Prints, NEW n \in Nat, Upsert(f, n)
  PROVE  NoticesOK'
<1> DEFINE D == DOMAIN notices \cup {f}
           new == [times |-> Raised(f, n), read |-> FALSE, at |-> clock]
<1>1. notices' = [g \in D |-> IF g = f THEN new ELSE notices[g]] /\ clock' = clock + 1
  BY DEF Upsert
<1>2. new \in Notice /\ new.times \in Nat /\ new.at = clock
  <2>1. Raised(f, n) \in Nat /\ clock \in Nat
    BY DEF Raised, Listed, NoticesOK, Notice
  <2> QED BY <2>1 DEF Notice
<1>3. IsFiniteSet(D) /\ D \subseteq Prints
  BY FS_AddElement DEF NoticesOK
<1> HIDE DEF new
<1>4. DOMAIN notices' = D
  BY <1>1
<1>5. clock \in Nat /\ clock' \in Nat
  BY <1>1 DEF NoticesOK
<1>6. ASSUME NEW g \in D
      PROVE  /\ notices'[g].times \in Nat /\ notices'[g].at \in Nat /\ notices'[g].at < clock'
             /\ \A e \in D : notices'[e].at = notices'[g].at => e = g
  <2>1. ASSUME NEW e \in D
        PROVE  \/ e = f /\ notices'[e].times \in Nat /\ notices'[e].at = clock
               \/ e # f /\ e \in DOMAIN notices /\ notices'[e] = notices[e]
    BY <1>1, <1>2
  <2>2. notices'[g].times \in Nat /\ notices'[g].at \in Nat /\ notices'[g].at < clock'
    <3>1. clock' = clock + 1
      BY <1>1
    <3>2. CASE g = f
      BY <1>5, <2>1, <3>1, <3>2
    <3>3. CASE g # f
      <4>1. g \in DOMAIN notices /\ notices'[g] = notices[g]
        BY <2>1, <3>3
      <4>2. notices[g].times \in Nat /\ notices[g].at \in Nat /\ notices[g].at < clock
        BY <4>1 DEF NoticesOK, Notice
      <4> QED BY <1>5, <3>1, <4>1, <4>2
    <3> QED BY <3>2, <3>3
  <2>3. ASSUME NEW e \in D, notices'[e].at = notices'[g].at PROVE e = g
    BY <1>5, <2>1, <2>3 DEF NoticesOK
  <2> QED BY <2>2, <2>3
<1>7. notices' \in [D -> Notice]
  BY <1>1, <1>2 DEF NoticesOK
<1> HIDE DEF D
<1> QED BY <1>3, <1>4, <1>5, <1>6, <1>7 DEF NoticesOK

LEMMA FewerNotices ==
  ASSUME NoticesOK, DOMAIN notices' \subseteq DOMAIN notices, clock' = clock,
         notices' \in [DOMAIN notices' -> Notice],
         \A f \in DOMAIN notices' : /\ notices'[f].times = notices[f].times
                                    /\ notices'[f].at = notices[f].at
  PROVE  NoticesOK'
<1>1. IsFiniteSet(DOMAIN notices')
  BY FS_Subset DEF NoticesOK
<1> QED BY <1>1 DEF NoticesOK

LEMMA IngestTypes ==
  ASSUME NoticesConstants, NoticesTypes, NEW w \in Ingesters,
         BeginIngest(w) \/ TakeLine(w) \/ StoreBatch(w) \/ EndIngest(w) \/ BatchFails(w)
  PROVE  NoticesTypes'
<1> DEFINE i == ing[w]
<1>1. /\ i \in Ingesting /\ ing \in [Ingesters -> Ingesting]
      /\ i.batchHits = CountOf(i.batch)
      /\ \A v \in Ingesters : /\ ing[v].batchHits = CountOf(ing[v].batch)
                              /\ ing[v].pc = "idle" => ing[v].hits = None
  BY DEF NoticesTypes, IngestOK
<1>2. None \in [Rules -> Nat] /\ None = CountOf(<<>>)
  BY CountNone DEF None
<1>3. CountsOK /\ NoticesOK
  BY DEF NoticesTypes
<1>0. PICK e \in Seq(Marks) : e = <<>>
  <2>1. <<>> \in Seq(Marks)
    OBVIOUS
  <2> QED BY <2>1, Zenon
<1>4. ASSUME NEW k \in Ingesting, ing' = [ing EXCEPT ![w] = k], k.batchHits = CountOf(k.batch),
             k.pc = "idle" => k.hits = None
      PROVE  IngestOK'
  BY <1>1, <1>4 DEF IngestOK
<1>5. ASSUME UNCHANGED <<notices, clock>> PROVE NoticesOK'
  BY <1>3, <1>5 DEF NoticesOK
<1>6. ASSUME UNCHANGED <<stored, reread, cleared, hitsLost>> PROVE CountsOK'
  BY <1>3, <1>6 DEF CountsOK
<1>7. CASE BeginIngest(w)
  <2>1. PICK s \in Hits : ing' = [ing EXCEPT ![w] = [Idle EXCEPT !.pc = "lines", !.todo = s]]
    BY <1>7 DEF BeginIngest
  <2> DEFINE o == [pc |-> "idle", todo |-> e, batch |-> e, batchHits |-> None, hits |-> None]
             k == [o EXCEPT !.pc = "lines", !.todo = s]
  <2>2. s \in Seq(Marks)
    BY DEF NoticesConstants, Marks
  <2>3. k \in Ingesting
    <3>1. o \in Ingesting
      BY <1>2 DEF Ingesting
    <3> HIDE DEF o
    <3> QED BY <2>2, <3>1 DEF Ingesting
  <2>4. k.batchHits = CountOf(k.batch) /\ k.pc # "idle"
    BY <1>0, <1>2
  <2>5. ing' = [ing EXCEPT ![w] = k]
    BY <1>0, <2>1 DEF Idle
  <2> HIDE DEF k
  <2>6. IngestOK'
    BY <1>4, <2>3, <2>4, <2>5
  <2> QED BY <1>5, <1>6, <1>7, <2>6 DEF BeginIngest, NoticesTypes
<1>8. CASE TakeLine(w)
  <2> DEFINE r == Head(i.todo)
             b == IF r = NoRule THEN i.batchHits ELSE [i.batchHits EXCEPT ![r] = @ + 1]
             k == [i EXCEPT !.todo = Tail(@), !.batch = Append(@, r), !.batchHits = b]
  <2>1. i.pc = "lines" /\ i.todo # <<>>
    BY <1>8 DEF TakeLine
  <2>2. i.todo \in Seq(Marks) /\ i.batch \in Seq(Marks) /\ i.hits \in [Rules -> Nat]
    BY <1>1 DEF Ingesting
  <2>3. r \in Marks /\ Tail(i.todo) \in Seq(Marks) /\ Append(i.batch, r) \in Seq(Marks)
    BY <2>1, <2>2
  <2>4. ing' = [ing EXCEPT ![w] = k]
    <3>1. ing' = [ing EXCEPT ![w].todo = Tail(@), ![w].batch = Append(@, r),
                             ![w].batchHits = IF r = NoRule THEN @ ELSE [@ EXCEPT ![r] = @ + 1]]
      BY <1>8 DEF TakeLine
    <3>2. ing \in [Ingesters -> Ingesting]
      BY <1>1
    <3> HIDE DEF r
    <3> QED BY ONLY <3>1, <3>2 DEF Ingesting
  <2> HIDE DEF r
  <2>5. b = CountOf(Append(i.batch, r))
    BY <1>1, <2>2, <2>3, CountAppend
  <2>6. b \in [Rules -> Nat]
    BY <2>3, <2>5, CountType
  <2> HIDE DEF b
  <2>7. k \in Ingesting
    BY <1>1, <2>3, <2>6 DEF Ingesting
  <2>8. k.batchHits = CountOf(k.batch) /\ k.pc # "idle"
    BY <1>1, <2>1, <2>5 DEF Ingesting
  <2> HIDE DEF k
  <2>9. IngestOK'
    BY <1>4, <2>4, <2>7, <2>8
  <2> QED BY <1>5, <1>6, <1>8, <2>9 DEF TakeLine, NoticesTypes
<1>9. CASE StoreBatch(w)
  <2> DEFINE k == [i EXCEPT !.batch = e, !.batchHits = None, !.hits = Plus(@, i.batchHits)]
  <2>1. ing' = [ing EXCEPT ![w] = k] /\ i.pc = "lines"
    BY <1>0, <1>1, <1>9 DEF StoreBatch, Ingesting, Due
  <2>2. i.hits \in [Rules -> Nat] /\ i.batchHits \in [Rules -> Nat] /\ i.batch \in Seq(Marks)
    BY <1>1 DEF Ingesting
  <2>3. Plus(i.hits, i.batchHits) \in [Rules -> Nat]
    BY <2>2, PlusType
  <2>4. k \in Ingesting
    BY <1>1, <1>2, <2>3 DEF Ingesting
  <2>5. k.batchHits = CountOf(k.batch) /\ k.pc # "idle"
    BY <1>0, <1>1, <1>2, <2>1 DEF Ingesting
  <2> HIDE DEF k
  <2>6. IngestOK'
    BY <1>4, <2>1, <2>4, <2>5
  <2>7. stored' \in [Rules -> Nat] /\ reread' \in [Rules -> Nat]
    <3>1. PICK D \in SUBSET DOMAIN i.batch :
            /\ reread' = Plus(reread, CountAt(i.batch, D))
            /\ stored' = Plus(stored, CountAt(i.batch, DOMAIN i.batch \ D))
      BY <1>9 DEF StoreBatch
    <3>2. /\ CountAt(i.batch, D) \in [Rules -> Nat] /\ CountAt(i.batch, DOMAIN i.batch \ D) \in [Rules -> Nat]
          /\ stored \in [Rules -> Nat] /\ reread \in [Rules -> Nat]
      BY <1>3, <2>2, CountParts DEF CountsOK
    <3> QED BY <3>1, <3>2, PlusType
  <2>8. CountsOK'
    BY <1>3, <1>9, <2>7 DEF StoreBatch, CountsOK
  <2> QED BY <1>5, <1>9, <2>6, <2>8 DEF StoreBatch, NoticesTypes
<1>10. Idle \in Ingesting /\ Idle.batchHits = CountOf(Idle.batch) /\ Idle.hits = None
  BY <1>2 DEF Idle, Ingesting
<1>11. CASE EndIngest(w)
  <2>1. IngestOK'
    BY <1>4, <1>10, <1>11 DEF EndIngest
  <2> QED BY <1>5, <1>6, <1>11, <2>1 DEF EndIngest, NoticesTypes
<1>12. CASE BatchFails(w) /\ w \in Scans
  <2> DEFINE k == [i EXCEPT !.batch = e, !.batchHits = None]
  <2>1. ing' = [ing EXCEPT ![w] = k] /\ i.pc = "lines"
    BY <1>0, <1>1, <1>12 DEF BatchFails, Dropped, Due, Ingesting
  <2>2. k \in Ingesting
    BY <1>1, <1>2 DEF Ingesting
  <2>3. k.batchHits = CountOf(k.batch) /\ k.pc # "idle"
    BY <1>0, <1>1, <1>2, <2>1 DEF Ingesting
  <2> HIDE DEF k
  <2>4. IngestOK'
    BY <1>4, <2>1, <2>2, <2>3
  <2> QED BY <1>5, <1>6, <1>12, <2>4 DEF BatchFails, NoticesTypes
<1>13. CASE BatchFails(w) /\ w \notin Scans
  <2>1. ing' = [ing EXCEPT ![w] = Idle] /\ hitsLost' = Plus(hitsLost, i.hits)
    BY <1>13 DEF BatchFails
  <2>2. IngestOK'
    BY <1>4, <1>10, <2>1
  <2>3. hitsLost' \in [Rules -> Nat]
    <3>1. i.hits \in [Rules -> Nat] /\ hitsLost \in [Rules -> Nat]
      BY <1>1, <1>3 DEF Ingesting, CountsOK
    <3> QED BY <2>1, <3>1, PlusType
  <2>4. CountsOK'
    BY <1>3, <1>13, <2>3 DEF BatchFails, CountsOK
  <2> QED BY <1>5, <1>13, <2>2, <2>4 DEF BatchFails, NoticesTypes
<1> QED BY <1>7, <1>8, <1>9, <1>11, <1>12, <1>13

LEMMA FlushTypes ==
  ASSUME NoticesTypes, NEW w \in Ingesters, NEW r \in Rules, Flush(w, r) \/ FlushFails(w, r)
  PROVE  NoticesTypes'
<1> DEFINE c == [ing[w].hits EXCEPT ![r] = 0]
           k == [ing[w] EXCEPT !.hits = c]
<1>1. /\ ing \in [Ingesters -> Ingesting] /\ ing[w] \in Ingesting
      /\ ing[w].hits \in [Rules -> Nat] /\ ing[w].pc = "lines"
  BY DEF NoticesTypes, IngestOK, Ingesting, Flush, FlushFails
<1>2. c \in [Rules -> Nat]
  BY <1>1
<1>3. ing' = [ing EXCEPT ![w] = k]
  <2>1. ing' = [ing EXCEPT ![w].hits[r] = 0]
    BY DEF Flush, FlushFails
  <2> QED BY ONLY <1>1, <2>1 DEF Ingesting
<1> HIDE DEF c
<1>4. k \in Ingesting /\ k.batch = ing[w].batch /\ k.batchHits = ing[w].batchHits /\ k.pc # "idle"
  BY <1>1, <1>2 DEF Ingesting
<1> HIDE DEF k
<1>5. IngestOK'
  BY <1>3, <1>4 DEF NoticesTypes, IngestOK
<1>6. CASE Flush(w, r)
  <2>1. Upsert(r, ing[w].hits[r]) /\ ing[w].hits[r] \in Nat
    BY <1>1, <1>6 DEF Flush
  <2>2. NoticesOK'
    BY <2>1, UpsertTypes DEF NoticesTypes, Prints
  <2>3. CountsOK'
    BY <1>6 DEF Flush, NoticesTypes, CountsOK
  <2> QED BY <1>5, <2>2, <2>3 DEF NoticesTypes
<1>7. CASE FlushFails(w, r)
  <2>1. NoticesOK'
    BY <1>7 DEF FlushFails, NoticesTypes, NoticesOK
  <2>2. hitsLost' = [hitsLost EXCEPT ![r] = @ + ing[w].hits[r]] /\ ing[w].hits[r] \in Nat
    BY <1>1, <1>7 DEF FlushFails
  <2>3. CountsOK'
    BY <1>7, <2>2 DEF FlushFails, NoticesTypes, CountsOK
  <2> QED BY <1>5, <2>1, <2>3 DEF NoticesTypes
<1> QED BY <1>6, <1>7

LEMMA HoldingIs ==
  ASSUME NoticesConstants, NoticesTypes
  PROVE  \A r \in Rules : Holding(ing, r, Ingesters)
BY DEF NoticesConstants, NoticesTypes, IngestOK, Ingesting, Holding

LEMMA CrashTypes ==
  ASSUME NoticesConstants, NoticesTypes, Crash
  PROVE  NoticesTypes'
<1>1. hitsLost' = [r \in Rules |-> hitsLost[r] + Held(ing, r, Ingesters)]
  BY DEF Crash, Held
<1>2. \A r \in Rules : Held(ing, r, Ingesters) \in Nat
  BY HoldingIs, HeldType
<1>3. CountsOK'
  <2>1. UNCHANGED <<stored, reread, cleared>>
    BY DEF Crash
  <2> QED BY <1>1, <1>2, <2>1 DEF NoticesTypes, CountsOK
<1>4. Idle \in Ingesting
  <2>1. None \in [Rules -> Nat]
    BY DEF None
  <2> QED BY <2>1 DEF Idle, Ingesting
<1>5. Idle.batchHits = CountOf(Idle.batch) /\ Idle.hits = None
  BY CountNone DEF Idle
<1>6. ing' = [w \in Ingesters |-> Idle]
  BY DEF Crash
<1>7. IngestOK'
  BY <1>4, <1>5, <1>6 DEF IngestOK
<1>8. NoticesOK'
  BY DEF NoticesTypes, NoticesOK, Crash
<1> QED BY <1>3, <1>7, <1>8 DEF NoticesTypes

LEMMA ClearTypes ==
  ASSUME NoticesTypes, NEW F \in SUBSET DOMAIN notices, Clear(F)
  PROVE  NoticesTypes'
<1>1. /\ notices' = [f \in DOMAIN notices \ F |-> notices[f]]
      /\ cleared' = [r \in Rules |-> IF r \in F /\ Listed(r) THEN cleared[r] + notices[r].times
                                     ELSE cleared[r]]
      /\ UNCHANGED <<clock, ing, stored, reread, hitsLost>>
  BY DEF Clear, Deleted, Restrict, UserKept
<1>2. NoticesOK'
  <2>1. notices \in [DOMAIN notices -> Notice]
    BY DEF NoticesTypes, NoticesOK
  <2>2. DOMAIN notices' = DOMAIN notices \ F /\ notices' \in [DOMAIN notices' -> Notice]
    BY <1>1, <2>1
  <2> QED BY <1>1, <2>2, FewerNotices DEF NoticesTypes
<1>3. CountsOK'
  <2>1. \A r \in Rules : Listed(r) => notices[r].times \in Nat
    BY DEF NoticesTypes, NoticesOK, Notice, Listed
  <2> QED BY <1>1, <2>1 DEF NoticesTypes, CountsOK
<1>4. IngestOK'
  BY <1>1 DEF NoticesTypes, IngestOK
<1> QED BY <1>2, <1>3, <1>4 DEF NoticesTypes

LEMMA MarkTypes ==
  ASSUME NoticesTypes, NEW F, MarkRead(F)
  PROVE  NoticesTypes'
<1>1. /\ notices' = [f \in DOMAIN notices |-> [notices[f] EXCEPT !.read = @ \/ f \in F]]
      /\ UNCHANGED <<clock, ing, stored, reread, hitsLost, cleared>>
  BY DEF MarkRead, UserKept
<1>2. /\ DOMAIN notices' = DOMAIN notices
      /\ \A f \in DOMAIN notices : notices'[f] = [notices[f] EXCEPT !.read = @ \/ f \in F]
  BY <1>1, Zenon
<1>3. ASSUME NEW f \in DOMAIN notices
      PROVE  /\ notices'[f] \in Notice
             /\ notices'[f].times = notices[f].times /\ notices'[f].at = notices[f].at
  <2>1. notices[f] \in Notice
    BY DEF NoticesTypes, NoticesOK
  <2> QED BY <1>2, <2>1 DEF Notice
<1>6. notices' \in [DOMAIN notices' -> Notice]
  BY <1>1, <1>2, <1>3
<1>4. NoticesOK'
  BY <1>1, <1>2, <1>3, <1>6, FewerNotices DEF NoticesTypes
<1>5. IngestOK' /\ CountsOK'
  BY <1>1 DEF NoticesTypes, IngestOK, CountsOK
<1> QED BY <1>4, <1>5 DEF NoticesTypes

\* What leaves these alone.
ImagesApart == UNCHANGED <<notices, clock, ing, stored, reread, cleared, hitsLost>>

LEMMA NoticesNextTypes ==
  ASSUME NoticesConstants, NoticesTypes, [NoticesNext]_noticesVars
  PROVE  NoticesTypes'
<1>1. ASSUME ImagesApart PROVE NoticesTypes'
  BY <1>1 DEF ImagesApart, NoticesTypes, IngestOK, CountsOK, NoticesOK
<1>2. CASE UNCHANGED noticesVars
  BY <1>1, <1>2 DEF noticesVars, ImagesApart
<1>3. ASSUME NEW f \in Failures, Notify(f) PROVE NoticesTypes'
  <2>1. Upsert(f, 1) /\ UNCHANGED <<ing, stored, reread, cleared, hitsLost>>
    BY <1>3 DEF Notify
  <2>2. NoticesOK'
    BY <2>1, UpsertTypes DEF NoticesTypes, Prints
  <2> QED BY <2>1, <2>2 DEF NoticesTypes, IngestOK, CountsOK
<1>4. ASSUME NEW f \in Failures, NotifyFails(f) PROVE NoticesTypes'
  BY <1>1, <1>4 DEF NotifyFails, ImagesApart
<1>5. ASSUME NEW S, Test(S) PROVE NoticesTypes'
  BY <1>1, <1>5 DEF Test, ImagesApart
<1>6. ASSUME NEW i, Pushing(i) PROVE NoticesTypes'
  BY <1>1, <1>6 DEF Pushing, TrySend, ImagesApart
<1>7. ASSUME NEW w \in Ingesters, BeginIngest(w) \/ IngestStep(w) \/ BatchFails(w) PROVE NoticesTypes'
  BY <1>7, IngestTypes, FlushTypes DEF IngestStep
<1>8. ASSUME NEW w \in Ingesters, NEW r \in Rules, FlushFails(w, r) PROVE NoticesTypes'
  BY <1>8, FlushTypes
<1>9. ASSUME NEW F \in SUBSET DOMAIN notices, MarkRead(F) \/ Clear(F) PROVE NoticesTypes'
  BY <1>9, MarkTypes, ClearTypes
<1>10. CASE ReadPage
  BY <1>1, <1>10 DEF ReadPage, UserKept, ImagesApart
<1> QED BY <1>2, <1>3, <1>4, <1>5, <1>6, <1>7, <1>8, <1>9, <1>10, CrashTypes DEF NoticesNext

----------------------------------------------------------------------------
(* WHAT WAS STORED IS TOLD                                                   *)

Counted(r) == IF Listed(r) THEN notices[r].times ELSE 0
\* The hits of the batches that were committed.
Committed(r) == stored[r] + reread[r]
Balance(r) == Committed(r) = Counted(r) + cleared[r] + hitsLost[r] + Held(ing, r, Ingesters)

LEMMA BalanceIs == HitsCounted <=> \A r \in Rules : Balance(r)
BY DEF HitsCounted, Balance, Committed, Counted, Held

LEMMA ToldType ==
  ASSUME NoticesTypes, NEW r
  PROVE  Counted(r) \in Nat
BY DEF Counted, Listed, NoticesTypes, NoticesOK, Notice

\* A statement on a notice adds to its own count only.
LEMMA UpsertTold ==
  ASSUME NEW f, NEW n \in Nat, Upsert(f, n), NoticesTypes, NEW r
  PROVE  Counted(r)' = IF r = f THEN Counted(r) + n ELSE Counted(r)
<1> DEFINE D == DOMAIN notices \cup {f}
           new == [times |-> Raised(f, n), read |-> FALSE, at |-> clock]
<1>1. notices' = [g \in D |-> IF g = f THEN new ELSE notices[g]]
  BY DEF Upsert
<1>2. new.times = Raised(f, n)
  OBVIOUS
<1> HIDE DEF new
<1>3. DOMAIN notices' = D /\ notices'[f] = new /\ \A g \in DOMAIN notices : g # f => notices'[g] = notices[g]
  BY <1>1
<1>4. CASE r = f
  <2>1. Counted(r)' = Raised(f, n)
    BY <1>2, <1>3, <1>4 DEF Counted, Listed
  <2>2. Raised(f, n) = Counted(f) + n
    BY DEF Raised, Counted
  <2> QED BY <1>4, <2>1, <2>2
<1>5. CASE r # f
  BY <1>3, <1>5 DEF Counted, Listed
<1> QED BY <1>4, <1>5

LEMMA Numbers ==
  ASSUME NoticesTypes, NoticesConstants, NEW r \in Rules
  PROVE  /\ Committed(r) \in Nat /\ cleared[r] \in Nat /\ hitsLost[r] \in Nat
         /\ Counted(r) \in Nat /\ Held(ing, r, Ingesters) \in Nat
         /\ \A w \in Ingesters : ing[w].hits[r] \in Nat /\ ing[w].batchHits[r] \in Nat
<1>1. Held(ing, r, Ingesters) \in Nat
  BY HoldingIs, HeldType
<1>2. \A w \in Ingesters : ing[w].hits[r] \in Nat /\ ing[w].batchHits[r] \in Nat
  BY DEF NoticesTypes, IngestOK, Ingesting
<1> QED BY <1>1, <1>2, ToldType DEF NoticesTypes, CountsOK, Committed

\* A step of one ingester that moves as many hits as it stores, tells or loses.
LEMMA Moves ==
  ASSUME NoticesTypes, NoticesTypes', NoticesConstants, NEW r \in Rules, Balance(r), NEW w \in Ingesters,
         \A v \in Ingesters \ {w} : ing'[v] = ing[v],
         cleared' = cleared,
         Committed(r)' + Counted(r) + hitsLost[r] + ing[w].hits[r]
           = Committed(r) + Counted(r)' + hitsLost'[r] + ing'[w].hits[r]
  PROVE  Balance(r)'
<1> DEFINE h == Held(ing, r, Ingesters)    h1 == Held(ing', r, Ingesters)
           t == Counted(r)                 t1 == Counted(r)'
           c == Committed(r)               c1 == Committed(r)'
           l == hitsLost[r]                l1 == hitsLost'[r]
           g == ing[w].hits[r]             g1 == ing'[w].hits[r]
           d == cleared[r]
<1>1. Holding(ing, r, Ingesters) /\ Holding(ing', r, Ingesters)
  BY HoldingIs DEF NoticesConstants, NoticesTypes, IngestOK, Ingesting, Holding
<1>2. h1 + g = h + g1
  BY <1>1, HeldChange
<1>3. h \in Nat /\ h1 \in Nat
  BY <1>1, HeldType
<1>4. c \in Nat /\ d \in Nat /\ l \in Nat /\ t \in Nat /\ g \in Nat
  BY Numbers
<1>5. c1 \in Nat /\ l1 \in Nat /\ t1 \in Nat /\ g1 \in Nat
  <2>1. c1 \in Nat /\ l1 \in Nat
    BY DEF NoticesTypes, CountsOK, Committed
  <2>2. g1 \in Nat
    BY <1>1 DEF Holding
  <2>3. t1 \in Nat
    BY DEF Counted, Listed, NoticesTypes, NoticesOK, Notice
  <2> QED BY <2>1, <2>2, <2>3
<1>6. c = t + d + l + h
  BY DEF Balance
<1>7. Balance(r)' <=> c1 = t1 + cleared'[r] + l1 + h1
  BY DEF Balance
<1>8. c1 + t + l + g = c + t1 + l1 + g1
  OBVIOUS
<1>9. cleared'[r] = d
  OBVIOUS
<1> HIDE DEF h, h1, t, t1, c, c1, l, l1, g, g1, d
<1>10. c1 = t1 + d + l1 + h1
  BY ONLY <1>2, <1>3, <1>4, <1>5, <1>6, <1>8
<1> QED BY <1>7, <1>9, <1>10

LEMMA SameTold ==
  ASSUME UNCHANGED notices, NEW r
  PROVE  Counted(r)' = Counted(r)
BY DEF Counted, Listed

LEMMA SameCommitted ==
  ASSUME UNCHANGED <<stored, reread>>, NEW r
  PROVE  Committed(r)' = Committed(r)
BY DEF Committed

LEMMA IngestBalance ==
  ASSUME NoticesTypes, NoticesTypes', NoticesConstants, NEW r \in Rules, Balance(r), NEW w \in Ingesters,
         BeginIngest(w) \/ TakeLine(w) \/ StoreBatch(w) \/ EndIngest(w) \/ BatchFails(w)
  PROVE  Balance(r)'
<1>1. ing \in [Ingesters -> Ingesting] /\ cleared' = cleared /\ Counted(r)' = Counted(r)
  BY SameTold DEF BeginIngest, TakeLine, StoreBatch, EndIngest, BatchFails, NoticesTypes, IngestOK
<1>2. \A v \in Ingesters \ {w} : ing'[v] = ing[v]
  BY <1>1 DEF BeginIngest, TakeLine, StoreBatch, EndIngest, BatchFails
<1>3. /\ Committed(r) \in Nat /\ hitsLost[r] \in Nat /\ Counted(r) \in Nat /\ ing[w].hits[r] \in Nat
      /\ ing[w].batchHits[r] \in Nat
  BY Numbers
<1>4. None[r] = 0 /\ Idle.hits = None
  BY DEF None, Idle
<1>5. CASE BeginIngest(w)
  <2>1. PICK s \in Hits : ing' = [ing EXCEPT ![w] = [Idle EXCEPT !.pc = "lines", !.todo = s]]
    BY <1>5 DEF BeginIngest
  <2>2. ing'[w].hits = None
    BY <1>1, <2>1 DEF Idle
  <2>3. ing[w].hits = None
    BY <1>5 DEF BeginIngest, NoticesTypes, IngestOK
  <2>4. Committed(r)' = Committed(r) /\ hitsLost' = hitsLost
    BY <1>5, SameCommitted DEF BeginIngest
  <2> QED BY <1>1, <1>2, <2>2, <2>3, <2>4, Moves
<1>6. CASE TakeLine(w)
  <2>1. ing'[w].hits = ing[w].hits
    BY <1>1, <1>6 DEF TakeLine, Ingesting
  <2>2. Committed(r)' = Committed(r) /\ hitsLost' = hitsLost
    BY <1>6, SameCommitted DEF TakeLine
  <2> QED BY <1>1, <1>2, <2>1, <2>2, Moves
<1>7. CASE StoreBatch(w)
  <2>1. ing'[w].hits = Plus(ing[w].hits, ing[w].batchHits)
    BY <1>1, <1>7 DEF StoreBatch, Ingesting
  <2>2. ing'[w].hits[r] = ing[w].hits[r] + ing[w].batchHits[r]
    BY <2>1 DEF Plus
  <2>3. Committed(r)' = Committed(r) + ing[w].batchHits[r] /\ hitsLost' = hitsLost
    <3> DEFINE batch == ing[w].batch
    <3>1. PICK D \in SUBSET DOMAIN batch :
            /\ reread' = Plus(reread, CountAt(batch, D))
            /\ stored' = Plus(stored, CountAt(batch, DOMAIN batch \ D))
      BY <1>7 DEF StoreBatch
    <3>2. ing[w].batchHits = CountOf(batch) /\ batch \in Seq(Marks)
      BY <1>1 DEF NoticesTypes, IngestOK, Ingesting
    <3>3. /\ CountAt(batch, D)[r] \in Nat /\ CountAt(batch, DOMAIN batch \ D)[r] \in Nat
          /\ CountOf(batch)[r] = CountAt(batch, DOMAIN batch \ D)[r] + CountAt(batch, D)[r]
      BY <3>2, CountParts
    <3>4. /\ stored'[r] = stored[r] + CountAt(batch, DOMAIN batch \ D)[r]
          /\ reread'[r] = reread[r] + CountAt(batch, D)[r]
      BY <3>1 DEF Plus
    <3>5. stored[r] \in Nat /\ reread[r] \in Nat
      BY DEF NoticesTypes, CountsOK
    <3>6. hitsLost' = hitsLost
      BY <1>7 DEF StoreBatch
    <3> HIDE DEF batch
    <3> QED BY <3>2, <3>3, <3>4, <3>5, <3>6 DEF Committed
  <2>4. Committed(r)' + Counted(r) + hitsLost[r] + ing[w].hits[r]
          = Committed(r) + Counted(r) + hitsLost'[r] + ing'[w].hits[r]
    BY <1>3, <2>2, <2>3
  <2> QED BY <1>1, <1>2, <2>4, Moves
<1>8. CASE EndIngest(w)
  <2>1. ing'[w].hits = None /\ ing[w].hits = None
    BY <1>1, <1>4, <1>8 DEF EndIngest
  <2>2. Committed(r)' = Committed(r) /\ hitsLost' = hitsLost
    BY <1>8, SameCommitted DEF EndIngest
  <2> QED BY <1>1, <1>2, <2>1, <2>2, Moves
<1>9. CASE BatchFails(w) /\ w \in Scans
  <2>1. ing'[w].hits = ing[w].hits
    BY <1>1, <1>9 DEF BatchFails, Dropped, Ingesting
  <2>2. Committed(r)' = Committed(r) /\ hitsLost' = hitsLost
    BY <1>9, SameCommitted DEF BatchFails
  <2> QED BY <1>1, <1>2, <2>1, <2>2, Moves
<1>10. CASE BatchFails(w) /\ w \notin Scans
  <2>1. ing'[w].hits[r] = 0
    BY <1>1, <1>4, <1>10 DEF BatchFails
  <2>2. hitsLost'[r] = hitsLost[r] + ing[w].hits[r] /\ Committed(r)' = Committed(r)
    BY <1>10, SameCommitted DEF BatchFails, Plus
  <2>3. Committed(r)' + Counted(r) + hitsLost[r] + ing[w].hits[r]
          = Committed(r) + Counted(r) + hitsLost'[r] + ing'[w].hits[r]
    BY <1>3, <2>1, <2>2
  <2> QED BY <1>1, <1>2, <2>3, Moves
<1> QED BY <1>5, <1>6, <1>7, <1>8, <1>9, <1>10

LEMMA FlushBalance ==
  ASSUME NoticesTypes, NoticesTypes', NoticesConstants, NEW r \in Rules, Balance(r), NEW w \in Ingesters,
         NEW q \in Rules, Flush(w, q) \/ FlushFails(w, q)
  PROVE  Balance(r)'
<1>1. /\ ing \in [Ingesters -> Ingesting] /\ ing[w].hits \in [Rules -> Nat]
      /\ ing' = [ing EXCEPT ![w].hits[q] = 0]
      /\ UNCHANGED <<stored, reread, cleared>> /\ hitsLost \in [Rules -> Nat]
      /\ Committed(r)' = Committed(r)
  BY SameCommitted DEF Flush, FlushFails, NoticesTypes, IngestOK, Ingesting, CountsOK
<1>2. \A v \in Ingesters \ {w} : ing'[v] = ing[v]
  BY <1>1
<1>3. ing'[w].hits[r] = IF r = q THEN 0 ELSE ing[w].hits[r]
  BY <1>1 DEF Ingesting
<1>4. /\ Committed(r) \in Nat /\ hitsLost[r] \in Nat /\ Counted(r) \in Nat /\ ing[w].hits[r] \in Nat
  BY Numbers
<1>5. CASE Flush(w, q)
  <2>1. Upsert(q, ing[w].hits[q]) /\ ing[w].hits[q] \in Nat /\ hitsLost' = hitsLost
    BY <1>1, <1>5 DEF Flush
  <2>2. Counted(r)' = IF r = q THEN Counted(r) + ing[w].hits[q] ELSE Counted(r)
    BY <2>1, UpsertTold
  <2> DEFINE t1 == Counted(r)'
  <2> HIDE DEF t1
  <2>3. Committed(r)' + Counted(r) + hitsLost[r] + ing[w].hits[r] = Committed(r) + t1 + hitsLost'[r] + ing'[w].hits[r]
    BY <1>1, <1>3, <1>4, <2>1, <2>2 DEF t1
  <2> QED BY <1>1, <1>2, <2>3, Moves DEF t1
<1>6. CASE FlushFails(w, q)
  <2>1. Counted(r)' = Counted(r) /\ hitsLost' = [hitsLost EXCEPT ![q] = @ + ing[w].hits[q]]
    BY <1>6, SameTold DEF FlushFails
  <2>2. hitsLost'[r] = IF r = q THEN hitsLost[r] + ing[w].hits[r] ELSE hitsLost[r]
    BY <1>1, <2>1
  <2>3. Committed(r)' + Counted(r) + hitsLost[r] + ing[w].hits[r]
          = Committed(r) + Counted(r) + hitsLost'[r] + ing'[w].hits[r]
    BY <1>1, <1>3, <1>4, <2>2
  <2> QED BY <1>1, <1>2, <2>1, <2>3, Moves
<1> QED BY <1>5, <1>6

LEMMA CrashBalance ==
  ASSUME NoticesTypes, NoticesConstants, NEW r \in Rules, Balance(r), Crash
  PROVE  Balance(r)'
<1>1. /\ hitsLost' = [q \in Rules |-> hitsLost[q] + Held(ing, q, Ingesters)]
      /\ ing' = [w \in Ingesters |-> Idle] /\ UNCHANGED <<stored, reread, cleared>>
      /\ Committed(r)' = Committed(r)
  BY SameCommitted DEF Crash, Held
<1>2. Counted(r)' = Counted(r)
  BY SameTold DEF Crash
<1>3. \A w \in Ingesters : ing'[w].hits[r] = 0
  BY <1>1 DEF Idle, None
<1>5. Held(ing', r, Ingesters) = 0
  BY <1>3, HeldZero DEF NoticesConstants
<1>6. Committed(r) = Counted(r) + cleared[r] + hitsLost[r] + Held(ing, r, Ingesters)
  BY DEF Balance
<1>7. /\ Committed(r) \in Nat /\ cleared[r] \in Nat /\ hitsLost[r] \in Nat /\ Counted(r) \in Nat
      /\ Held(ing, r, Ingesters) \in Nat
  BY Numbers
<1>8. hitsLost'[r] = hitsLost[r] + Held(ing, r, Ingesters)
  BY <1>1
<1>9. Balance(r)' <=> Committed(r)' = Counted(r)' + cleared'[r] + hitsLost'[r] + Held(ing', r, Ingesters)
  BY DEF Balance
<1>10. Committed(r) = Counted(r) + cleared[r] + hitsLost'[r] + 0
  BY <1>6, <1>7, <1>8
<1> QED BY <1>1, <1>2, <1>5, <1>9, <1>10

LEMMA ClearBalance ==
  ASSUME NoticesTypes, NoticesConstants, NEW r \in Rules, Balance(r), NEW F \in SUBSET DOMAIN notices, Clear(F)
  PROVE  Balance(r)'
<1>1. /\ notices' = [f \in DOMAIN notices \ F |-> notices[f]]
      /\ cleared' = [q \in Rules |-> IF q \in F /\ Listed(q) THEN cleared[q] + notices[q].times
                                     ELSE cleared[q]]
      /\ UNCHANGED <<ing, stored, reread, hitsLost>> /\ Committed(r)' = Committed(r)
  BY SameCommitted DEF Clear, Deleted, Restrict, UserKept
<1>2. /\ Committed(r) \in Nat /\ cleared[r] \in Nat /\ hitsLost[r] \in Nat /\ Counted(r) \in Nat
      /\ Held(ing, r, Ingesters) \in Nat
  BY Numbers
<1>3. Committed(r) = Counted(r) + cleared[r] + hitsLost[r] + Held(ing, r, Ingesters)
  BY DEF Balance
<1>4. CASE r \in F
  <2>1. Counted(r)' = 0 /\ cleared'[r] = cleared[r] + Counted(r)
    BY <1>1, <1>4 DEF Counted, Listed
  <2>2. Committed(r) = 0 + (cleared[r] + Counted(r)) + hitsLost[r] + Held(ing, r, Ingesters)
    BY <1>2, <1>3
  <2> QED BY <1>1, <2>1, <2>2 DEF Balance
<1>5. CASE r \notin F
  <2>1. Counted(r)' = Counted(r) /\ cleared'[r] = cleared[r]
    BY <1>1, <1>5 DEF Counted, Listed
  <2> QED BY <1>1, <1>3, <2>1 DEF Balance
<1> QED BY <1>4, <1>5

LEMMA NextBalance ==
  ASSUME NoticesConstants, NoticesTypes, NoticesTypes', HitsCounted, [NoticesNext]_noticesVars
  PROVE  HitsCounted'
<1> SUFFICES ASSUME NEW r \in Rules PROVE Balance(r)'
  BY BalanceIs DEF HitsCounted, Balance, Committed, Counted, Held
<1>0. Balance(r)
  BY BalanceIs
<1>1. ASSUME Counted(r)' = Counted(r), UNCHANGED <<ing, stored, reread, cleared, hitsLost>> PROVE Balance(r)'
  BY <1>0, <1>1, SameCommitted DEF Balance
<1>2. CASE UNCHANGED noticesVars
  BY <1>1, <1>2, SameTold DEF noticesVars
<1>3. ASSUME NEW f \in Failures, Notify(f) PROVE Balance(r)'
  <2>1. Upsert(f, 1) /\ r # f /\ UNCHANGED <<ing, stored, reread, cleared, hitsLost>>
    BY <1>3 DEF Notify, NoticesConstants
  <2> QED BY <1>1, <2>1, UpsertTold
<1>4. ASSUME NEW f \in Failures, NotifyFails(f) PROVE Balance(r)'
  BY <1>1, <1>4, SameTold DEF NotifyFails
<1>5. ASSUME NEW S, Test(S) PROVE Balance(r)'
  BY <1>1, <1>5, SameTold DEF Test
<1>6. ASSUME NEW i, Pushing(i) PROVE Balance(r)'
  BY <1>1, <1>6, SameTold DEF Pushing, TrySend
<1>7. ASSUME NEW w \in Ingesters, BeginIngest(w) \/ IngestStep(w) \/ BatchFails(w) PROVE Balance(r)'
  BY <1>0, <1>7, IngestBalance, FlushBalance DEF IngestStep
<1>8. ASSUME NEW w \in Ingesters, NEW q \in Rules, FlushFails(w, q) PROVE Balance(r)'
  BY <1>0, <1>8, FlushBalance
<1>9. ASSUME NEW F \in SUBSET DOMAIN notices, Clear(F) PROVE Balance(r)'
  BY <1>0, <1>9, ClearBalance
<1>10. ASSUME NEW F, MarkRead(F) PROVE Balance(r)'
  <2>1. /\ notices' = [f \in DOMAIN notices |-> [notices[f] EXCEPT !.read = @ \/ f \in F]]
        /\ UNCHANGED <<ing, stored, reread, hitsLost, cleared>>
    BY <1>10 DEF MarkRead, UserKept
  <2>2. /\ DOMAIN notices' = DOMAIN notices
        /\ \A f \in DOMAIN notices : notices'[f] = [notices[f] EXCEPT !.read = @ \/ f \in F]
    BY <2>1, Zenon
  <2>3. \A f \in DOMAIN notices : notices'[f].times = notices[f].times
    <3> TAKE f \in DOMAIN notices
    <3>1. notices[f] \in Notice
      BY DEF NoticesTypes, NoticesOK
    <3> QED BY <2>2, <3>1 DEF Notice
  <2>4. Counted(r)' = Counted(r)
    BY <2>2, <2>3 DEF Counted, Listed
  <2> QED BY <1>1, <2>1, <2>4
<1>11. CASE ReadPage
  BY <1>1, <1>11, SameTold DEF ReadPage, UserKept
<1>12. CASE Crash
  BY <1>0, <1>12, CrashBalance
<1> QED BY <1>2, <1>3, <1>4, <1>5, <1>6, <1>7, <1>8, <1>9, <1>10, <1>11, <1>12 DEF NoticesNext

----------------------------------------------------------------------------
(* THE LIST, PAGE BY PAGE                                                    *)

Later(f) == {g \in DOMAIN notices : notices[g].at > notices[f].at}

\* A place in the list is below the number of notices.
LEMMA AheadType ==
  ASSUME NoticesOK, NEW f \in DOMAIN notices
  PROVE  /\ IsFiniteSet(Later(f)) /\ Ahead(f) = Cardinality(Later(f))
         /\ Ahead(f) \in Nat /\ Cardinality(DOMAIN notices) \in Nat
         /\ Ahead(f) < Cardinality(DOMAIN notices)
<1> DEFINE D == DOMAIN notices
<1>1. IsFiniteSet(D) /\ Later(f) \subseteq D /\ f \in D
  BY DEF NoticesOK, Later
<1>2. f \notin Later(f)
  BY DEF Later, NoticesOK, Notice
<1> HIDE DEF D
<1>3. /\ IsFiniteSet(Later(f)) /\ Cardinality(Later(f)) <= Cardinality(D)
      /\ (Cardinality(Later(f)) = Cardinality(D) => Later(f) = D)
  BY <1>1, FS_Subset
<1>4. Cardinality(Later(f)) \in Nat /\ Cardinality(D) \in Nat
  BY <1>1, <1>3, FS_CardinalityType
<1>5. Ahead(f) = Cardinality(Later(f))
  BY DEF Ahead, Later
<1> QED BY <1>1, <1>2, <1>3, <1>4, <1>5 DEF D

LEMMA AheadOrder ==
  ASSUME NoticesOK, NEW f \in DOMAIN notices, NEW g \in DOMAIN notices, notices[g].at > notices[f].at
  PROVE  Ahead(g) < Ahead(f)
<1>1. /\ IsFiniteSet(Later(f)) /\ Ahead(f) = Cardinality(Later(f)) /\ Ahead(f) \in Nat
      /\ IsFiniteSet(Later(g)) /\ Ahead(g) = Cardinality(Later(g)) /\ Ahead(g) \in Nat
  BY AheadType
<1>2. \A h \in DOMAIN notices : notices[h].at \in Nat
  BY DEF NoticesOK, Notice
<1>3. Later(g) \subseteq Later(f) /\ g \in Later(f) /\ g \notin Later(g)
  BY <1>2 DEF Later
<1>4. Cardinality(Later(g)) <= Cardinality(Later(f)) /\ Cardinality(Later(g)) # Cardinality(Later(f))
  BY <1>1, <1>3, FS_Subset
<1> QED BY <1>1, <1>4

LEMMA PlacesDiffer ==
  ASSUME NoticesOK, NEW f \in DOMAIN notices, NEW g \in DOMAIN notices, Ahead(f) = Ahead(g)
  PROVE  f = g
<1>1. Ahead(f) \in Nat /\ Ahead(g) \in Nat
  BY AheadType
<1>2. notices[f].at \in Nat /\ notices[g].at \in Nat
  BY DEF NoticesOK, Notice
<1>3. ~(notices[g].at > notices[f].at) /\ ~(notices[f].at > notices[g].at)
  BY <1>1, AheadOrder
<1>4. notices[g].at = notices[f].at
  BY <1>2, <1>3
<1> QED BY <1>4 DEF NoticesOK

\* The notices in the places from a to b - 1.
PlacesBetween(a, b) == {f \in DOMAIN notices : a <= Ahead(f) /\ Ahead(f) < b}

LEMMA PlacesBound ==
  ASSUME NoticesOK, NEW a \in Nat, NEW b \in Nat, a <= b
  PROVE  /\ IsFiniteSet(PlacesBetween(a, b))
         /\ Cardinality(PlacesBetween(a, b)) \in Nat
         /\ Cardinality(PlacesBetween(a, b)) <= b - a
<1> DEFINE S == PlacesBetween(a, b)
           T == a..(b - 1)
           p == [f \in S |-> Ahead(f)]
<1>1. p \in [S -> T]
  BY AheadType DEF PlacesBetween
<1>2. \A f, g \in S : p[f] = p[g] => f = g
  BY PlacesDiffer DEF PlacesBetween
<1>3. b - 1 \in Int /\ a \in Int
  OBVIOUS
<1>4. IsFiniteSet(T) /\ Cardinality(T) = b - a
  <2>1. IsFiniteSet(T) /\ Cardinality(T) = IF a > b - 1 THEN 0 ELSE (b - 1) - a + 1
    BY <1>3, FS_Interval
  <2> QED BY <2>1
<1> HIDE DEF p, T
<1>5. p \in Injection(S, T)
  BY <1>1, <1>2 DEF Injection, IsInjective
<1>6. IsFiniteSet(S) /\ Cardinality(S) <= b - a
  <2> HIDE DEF S
  <2> QED BY <1>4, <1>5, FS_Injection
<1> HIDE DEF S
<1>7. Cardinality(S) \in Nat
  BY <1>6, FS_CardinalityType
<1> QED BY <1>6, <1>7 DEF S

LEMMA Full ==
  ASSUME NEW a \in Nat, NEW b \in Nat, NEW n \in Nat, NEW x \in Nat, NEW y \in Nat, NEW z \in Nat,
         x <= a, y <= b - a, z <= n - b, n = (x + y) + z
  PROVE  y = b - a
OBVIOUS

\* There is a notice in every place.
LEMMA PlacesCount ==
  ASSUME NoticesOK, NEW a \in Nat, NEW b \in Nat, a <= b, b <= Cardinality(DOMAIN notices)
  PROVE  Cardinality(PlacesBetween(a, b)) = b - a
<1> DEFINE D == DOMAIN notices
           n == Cardinality(D)
           A == PlacesBetween(0, a)
           B == PlacesBetween(a, b)
           C == PlacesBetween(b, n)
<1>1. n \in Nat
  BY FS_CardinalityType DEF NoticesOK
<1>2. D = (A \cup B) \cup C
  BY AheadType DEF PlacesBetween
<1>3. A \cap B = {} /\ (A \cup B) \cap C = {}
  BY AheadType DEF PlacesBetween
<1>4. /\ IsFiniteSet(A) /\ Cardinality(A) \in Nat /\ Cardinality(A) <= a
      /\ IsFiniteSet(B) /\ Cardinality(B) \in Nat /\ Cardinality(B) <= b - a
      /\ IsFiniteSet(C) /\ Cardinality(C) \in Nat /\ Cardinality(C) <= n - b
  BY <1>1, PlacesBound
<1> HIDE DEF A, B, C
<1>5. Cardinality(A \cup B) = Cardinality(A) + Cardinality(B) /\ IsFiniteSet(A \cup B)
  BY <1>3, <1>4, DisjointUnion
<1>6. n = Cardinality(A \cup B) + Cardinality(C)
  BY <1>2, <1>3, <1>4, <1>5, DisjointUnion
<1> HIDE DEF n
<1>7. n = (Cardinality(A) + Cardinality(B)) + Cardinality(C)
  BY <1>5, <1>6
<1>8. Cardinality(B) = b - a
  BY <1>1, <1>4, <1>7, Full
<1> QED BY <1>8 DEF B

\* A page that has no next one reaches the last notice.
LEMMA LastPage ==
  ASSUME NoticesConstants, NoticesOK, NEW p \in Nat \ {0}, ~HasMore(p), NEW f \in DOMAIN notices
  PROVE  Ahead(f) < p * NoticePage
<1> DEFINE n == Cardinality(DOMAIN notices)
           a == (p - 1) * NoticePage
           b == p * NoticePage
<1>1. Ahead(f) \in Nat /\ n \in Nat /\ Ahead(f) < n
  BY AheadType
<1>2. a \in Nat /\ b \in Nat /\ b = a + NoticePage /\ NoticePage \in Nat \ {0}
  BY DEF NoticesConstants
<1> HIDE DEF a, b
<1>3. Window(p) = PlacesBetween(a, b + 1)
  <2>1. \A g \in DOMAIN notices : Ahead(g) \in Nat
    BY AheadType
  <2>2. Window(p) = {g \in DOMAIN notices : Ahead(g) \in a..b}
    BY DEF Window, a, b
  <2> QED BY <1>2, <2>1, <2>2 DEF PlacesBetween
<1>4. b + 1 <= n => Cardinality(Window(p)) = NoticePage + 1
  <2>1. b + 1 \in Nat /\ a <= b + 1
    BY <1>2
  <2>2. b + 1 <= n => Cardinality(PlacesBetween(a, b + 1)) = (b + 1) - a
    BY <1>2, <2>1, PlacesCount
  <2> QED BY <1>2, <1>3, <2>2
<1>5. ~(Cardinality(Window(p)) > NoticePage)
  BY DEF HasMore
<1> HIDE DEF n
<1>6. ~(b + 1 <= n)
  BY <1>2, <1>4, <1>5
<1>7. Ahead(f) < b
  BY <1>1, <1>2, <1>6
<1> QED BY <1>7 DEF b

----------------------------------------------------------------------------
(* WHAT A READER HAS SEEN                                                    *)

Readers == [page : Nat, seen : SUBSET Prints, start : SUBSET Prints, touched : SUBSET Prints,
            shifted : BOOLEAN]
\* The notices that were there from the start and kept their place.
Staying == (reader.start \cap DOMAIN notices) \ reader.touched
\* A reader has seen of those what is before the next page.
SeenBefore ==
  ~reader.shifted =>
    \A f \in Staying :
      reader.page = 0 \/ Ahead(f) < (reader.page - 1) * NoticePage => f \in reader.seen
ReaderInv == reader \in Readers /\ SeenBefore

LEMMA InitReader ==
  ASSUME NoticesInit
  PROVE  ReaderInv
BY DEF NoticesInit, NoReader, ReaderInv, Readers, SeenBefore, Staying

\* A notice that comes, or comes again, puts the others back.
LEMMA UpsertReader ==
  ASSUME NoticesConstants, NoticesOK, NoticesOK', ReaderInv, NEW f \in Prints, NEW n, Upsert(f, n)
  PROVE  ReaderInv'
<1> DEFINE D == DOMAIN notices \cup {f}
           new == [times |-> Raised(f, n), read |-> FALSE, at |-> clock]
<1>1. notices' = [g \in D |-> IF g = f THEN new ELSE notices[g]]
  BY DEF Upsert
<1>2. new.at = clock
  OBVIOUS
<1> HIDE DEF new
<1>3. /\ DOMAIN notices' = D /\ notices'[f].at = clock
      /\ \A g \in DOMAIN notices : g # f => notices'[g] = notices[g]
  BY <1>1, <1>2
<1>4. /\ reader' \in Readers /\ reader'.page = reader.page /\ reader'.seen = reader.seen
      /\ reader'.start = reader.start /\ reader'.touched = reader.touched \cup {f}
      /\ reader'.shifted = reader.shifted /\ reader.page \in Nat
  BY DEF Upsert, ReaderInv, Readers
<1>5. ASSUME NEW e \in Staying' PROVE e \in Staying /\ Ahead(e) <= Ahead(e)'
  <2>1. e # f /\ e \in DOMAIN notices /\ e \in DOMAIN notices' /\ notices'[e] = notices[e] /\ e \in Staying
    BY <1>3, <1>4 DEF Staying
  <2>2. notices[e].at < clock
    BY <2>1 DEF NoticesOK
  <2>3. \A g \in DOMAIN notices : notices[g].at > notices[e].at =>
                                    g \in DOMAIN notices' /\ notices'[g].at > notices'[e].at
    <3> TAKE g \in DOMAIN notices
    <3>1. clock \in Nat /\ notices[e].at \in Nat
      BY <2>1 DEF NoticesOK, Notice
    <3>2. clock > notices[e].at
      BY <2>2, <3>1
    <3> QED BY <1>3, <2>1, <3>2
  <2>4. Later(e) \subseteq Later(e)'
    BY <2>3 DEF Later
  <2>5. IsFiniteSet(Later(e)') /\ Ahead(e)' = Cardinality(Later(e)')
    <3>1. IsFiniteSet(DOMAIN notices') /\ Later(e)' \subseteq DOMAIN notices'
      BY DEF NoticesOK, Later
    <3>2. IsFiniteSet(Later(e)')
      BY <3>1, FS_Subset
    <3> QED BY <3>2 DEF Ahead, Later
  <2>6. Cardinality(Later(e)) <= Cardinality(Later(e)')
    BY <2>4, <2>5, FS_Subset
  <2> QED BY <2>1, <2>5, <2>6, AheadType
<1>6. ASSUME NEW e \in Staying', ~reader'.shifted,
             reader'.page = 0 \/ Ahead(e)' < (reader'.page - 1) * NoticePage
      PROVE  e \in reader'.seen
  <2> DEFINE b == (reader.page - 1) * NoticePage
             x == Ahead(e)
             y == Ahead(e)'
  <2>1. b \in Int /\ x \in Nat /\ y \in Nat /\ x <= y
    <3>1. e \in DOMAIN notices /\ e \in DOMAIN notices'
      BY <1>5, <1>6 DEF Staying
    <3>2. x \in Nat
      BY <3>1, AheadType
    <3>3. y \in Nat
      <4>1. IsFiniteSet(Later(e)')
        <5>1. IsFiniteSet(DOMAIN notices') /\ Later(e)' \subseteq DOMAIN notices'
          BY DEF NoticesOK, Later
        <5> QED BY <5>1, FS_Subset
      <4>2. Cardinality(Later(e)') \in Nat
        BY <4>1, FS_CardinalityType
      <4> QED BY <4>2 DEF Ahead, Later
    <3>4. b \in Int
      BY <1>4 DEF NoticesConstants
    <3> QED BY <1>5, <1>6, <3>2, <3>3, <3>4
  <2>2. reader'.page = 0 \/ y < b
    BY <1>4, <1>6
  <2> HIDE DEF b, x, y
  <2>3. reader.page = 0 \/ x < b
    BY <1>4, <2>1, <2>2
  <2> QED BY <1>4, <1>5, <1>6, <2>3 DEF ReaderInv, SeenBefore, x, b
<1> QED BY <1>4, <1>6 DEF ReaderInv, SeenBefore

LEMMA SameReader ==
  ASSUME ReaderInv, UNCHANGED reader, DOMAIN notices' = DOMAIN notices,
         \A f \in DOMAIN notices : notices'[f].at = notices[f].at
  PROVE  ReaderInv'
<1>1. Staying' = Staying
  BY DEF Staying
<1>2. ASSUME NEW f \in Staying PROVE Ahead(f)' = Ahead(f)
  <2>1. Later(f)' = Later(f)
    BY <1>2 DEF Later, Staying
  <2> QED BY <2>1 DEF Ahead, Later
<1> QED BY <1>1, <1>2 DEF ReaderInv, SeenBefore

LEMMA ReadReader ==
  ASSUME NoticesConstants, NoticesOK, ReaderInv, ReadPage
  PROVE  ReaderInv'
<1> DEFINE again == reader.page = 0
           p == IF again THEN 1 ELSE reader.page
           b == p * NoticePage
           old == (p - 1) * NoticePage
           seen == (IF again THEN {} ELSE reader.seen) \cup OnPage(p)
           first == IF again THEN DOMAIN notices ELSE reader.start
           touched == IF again THEN {} ELSE reader.touched
           next == IF HasMore(p) THEN p + 1 ELSE 0
<1>1. /\ reader' = [page |-> next, seen |-> seen, start |-> first, touched |-> touched,
                    shifted |-> ~again /\ reader.shifted]
      /\ notices' = notices
  BY DEF ReadPage
<1>2. p \in Nat \ {0} /\ next \in Nat /\ b \in Nat /\ old \in Nat /\ old <= b
  BY DEF ReaderInv, Readers, NoticesConstants
<1>3. reader' \in Readers
  <2>1. seen \in SUBSET Prints /\ first \in SUBSET Prints /\ touched \in SUBSET Prints
    BY DEF OnPage, Window, NoticesOK, ReaderInv, Readers
  <2>2. (~again /\ reader.shifted) \in BOOLEAN
    OBVIOUS
  <2> HIDE DEF seen, first, touched, next, again
  <2> QED BY <1>1, <1>2, <2>1, <2>2 DEF Readers
<1>4. ASSUME NEW f \in DOMAIN notices, Ahead(f) < b, ~again => (Ahead(f) < old => f \in reader.seen)
      PROVE  f \in seen
  <2>1. Ahead(f) \in Nat
    BY AheadType
  <2>2. CASE old <= Ahead(f)
    <3>1. f \in OnPage(p)
      BY <1>2, <1>4, <2>1, <2>2 DEF OnPage, Window
    <3> QED BY <3>1
  <2>3. CASE Ahead(f) < old
    <3>1. ~again
      <4> SUFFICES ASSUME again PROVE FALSE
        OBVIOUS
      <4>1. p = 1 /\ 1 - 1 = 0 /\ 0 * NoticePage = 0
        BY DEF NoticesConstants
      <4> QED BY <2>1, <2>3, <4>1
    <3> QED BY <1>4, <2>3, <3>1
  <2> QED BY <1>2, <2>1, <2>2, <2>3
<1>5. ASSUME NEW f \in Staying', ~reader'.shifted,
             reader'.page = 0 \/ Ahead(f)' < (reader'.page - 1) * NoticePage
      PROVE  f \in reader'.seen
  <2>1. /\ f \in DOMAIN notices /\ f \in first /\ f \notin touched
        /\ reader'.page = next /\ reader'.seen = seen /\ Ahead(f)' = Ahead(f)
        /\ (again \/ ~reader.shifted)
    BY <1>1, <1>5 DEF Staying, Ahead
  <2>2. Ahead(f) < b
    <3>1. CASE HasMore(p)
      <4>1. next = p + 1 /\ next # 0 /\ next - 1 = p
        BY <1>2, <3>1
      <4> QED BY <1>5, <2>1, <4>1
    <3>2. CASE ~HasMore(p)
      BY <1>2, <2>1, <3>2, LastPage
    <3> QED BY <3>1, <3>2
  <2>3. ~again => (Ahead(f) < old => f \in reader.seen)
    BY <2>1 DEF ReaderInv, SeenBefore, Staying
  <2>4. f \in seen
    BY <1>4, <2>1, <2>2, <2>3
  <2> QED BY <2>1, <2>4
<1> QED BY <1>3, <1>5 DEF ReaderInv, SeenBefore

LEMMA NextReader ==
  ASSUME NoticesConstants, NoticesTypes, NoticesTypes', ReaderInv, [NoticesNext]_noticesVars
  PROVE  ReaderInv'
<1>1. ASSUME UNCHANGED <<reader, notices>> PROVE ReaderInv'
  BY <1>1, SameReader
<1>2. NoticesOK /\ NoticesOK'
  BY DEF NoticesTypes
<1>3. CASE UNCHANGED noticesVars
  BY <1>1, <1>3 DEF noticesVars
<1>4. ASSUME NEW f \in Failures, Notify(f) PROVE ReaderInv'
  BY <1>2, <1>4, UpsertReader DEF Notify, Prints
<1>5. ASSUME NEW f \in Failures, NotifyFails(f) PROVE ReaderInv'
  BY <1>1, <1>5 DEF NotifyFails
<1>6. ASSUME NEW S, Test(S) PROVE ReaderInv'
  BY <1>1, <1>6 DEF Test
<1>7. ASSUME NEW i, Pushing(i) PROVE ReaderInv'
  BY <1>1, <1>7 DEF Pushing, TrySend
<1>8. ASSUME NEW w \in Ingesters, BeginIngest(w) \/ IngestStep(w) \/ BatchFails(w) PROVE ReaderInv'
  <2>1. ASSUME NEW r \in Rules, Flush(w, r) PROVE ReaderInv'
    BY <1>2, <2>1, UpsertReader DEF Flush, Prints
  <2>2. CASE BeginIngest(w) \/ TakeLine(w) \/ StoreBatch(w) \/ EndIngest(w) \/ BatchFails(w)
    BY <1>1, <2>2 DEF BeginIngest, TakeLine, StoreBatch, EndIngest, BatchFails
  <2> QED BY <1>8, <2>1, <2>2 DEF IngestStep
<1>9. ASSUME NEW w \in Ingesters, NEW r \in Rules, FlushFails(w, r) PROVE ReaderInv'
  BY <1>1, <1>9 DEF FlushFails
<1>10. ASSUME NEW F \in SUBSET DOMAIN notices, F # {}, Clear(F) PROVE ReaderInv'
  <2>1. reader' = [reader EXCEPT !.shifted = @ \/ F \cap DOMAIN notices # {}]
    BY <1>10 DEF Clear, Deleted
  <2>2. F \cap DOMAIN notices # {}
    BY <1>10
  <2>3. reader' \in Readers /\ reader'.shifted
    BY <2>1, <2>2 DEF ReaderInv, Readers
  <2> QED BY <2>3 DEF ReaderInv, SeenBefore
<1>11. ASSUME NEW F, MarkRead(F) PROVE ReaderInv'
  <2>1. /\ notices' = [f \in DOMAIN notices |-> [notices[f] EXCEPT !.read = @ \/ f \in F]]
        /\ UNCHANGED reader
    BY <1>11 DEF MarkRead
  <2>2. /\ DOMAIN notices' = DOMAIN notices
        /\ \A f \in DOMAIN notices : notices'[f] = [notices[f] EXCEPT !.read = @ \/ f \in F]
    BY <2>1, Zenon
  <2>3. \A f \in DOMAIN notices : notices'[f].at = notices[f].at
    <3> TAKE f \in DOMAIN notices
    <3>1. notices[f] \in Notice
      BY <1>2 DEF NoticesOK
    <3> QED BY <2>2, <3>1 DEF Notice
  <2> QED BY <2>1, <2>2, <2>3, SameReader
<1>12. CASE ReadPage
  BY <1>2, <1>12, ReadReader
<1>13. CASE Crash
  BY <1>1, <1>13 DEF Crash
<1> QED BY <1>3, <1>4, <1>5, <1>6, <1>7, <1>8, <1>9, <1>10, <1>11, <1>12, <1>13 DEF NoticesNext

----------------------------------------------------------------------------
(* THE THEOREMS                                                              *)

NoticesInv == NoticesTypes /\ HitsCounted /\ ReaderInv

LEMMA NoticesInvariant == NoticesConstants => (NoticesInit /\ [][NoticesNext]_noticesVars => []NoticesInv)
<1> SUFFICES ASSUME NoticesConstants PROVE NoticesInit /\ [][NoticesNext]_noticesVars => []NoticesInv
  OBVIOUS
<1>1. ASSUME NoticesInit PROVE HitsCounted
  <2>1. NoticesTypes
    BY <1>1, NoticesInitTypes
  <2> SUFFICES ASSUME NEW r \in Rules PROVE Balance(r)
    BY BalanceIs
  <2>2. Committed(r) = 0 /\ cleared[r] = 0 /\ hitsLost[r] = 0 /\ Counted(r) = 0
    BY <1>1 DEF NoticesInit, None, Counted, Listed, Committed
  <2>3. \A w \in Ingesters : ing[w].hits[r] = 0
    BY <1>1 DEF NoticesInit, Idle, None
  <2>4. Held(ing, r, Ingesters) = 0
    BY <2>3, HeldZero DEF NoticesConstants
  <2> QED BY <2>2, <2>4 DEF Balance
<1>2. NoticesInit => NoticesInv
  BY <1>1, NoticesInitTypes, InitReader DEF NoticesInv
<1>3. NoticesInv /\ [NoticesNext]_noticesVars => NoticesInv'
  BY NoticesNextTypes, NextBalance, NextReader DEF NoticesInv
<1> QED BY <1>2, <1>3, PTL

\* The counts of the whitelist's notices are those of the rows that were stored, and of the
\* lines that were read again (recordWhitelistHit, flushWhitelistHits, CreateSystemNotificationWithCount), for any
\* ingesters, lines, failures, crashes and users.
THEOREM HitsAreCounted == NoticesConstants => (NoticesInit /\ [][NoticesNext]_noticesVars => []HitsCounted)
<1>1. NoticesInv => HitsCounted
  BY DEF NoticesInv
<1> QED BY <1>1, NoticesInvariant, PTL

\* Who pages through the notices to the end has seen each that was there and stayed in its
\* place (ListSystemNotifications), however many come, come again or are marked meanwhile.
THEOREM NoticesAreListed == NoticesConstants => (NoticesInit /\ [][NoticesNext]_noticesVars => []ListedAll)
<1>1. NoticesInv => ListedAll
  BY DEF NoticesInv, ReaderInv, SeenBefore, Staying, ListedAll
<1> QED BY <1>1, NoticesInvariant, PTL

----------------------------------------------------------------------------
(* THE WHOLE                                                                 *)

\* A step of the whole is a step of its export jobs, or leaves them alone.
LEMMA ExportPart == OneSpec => ExportInit /\ [][ExportNext]_exportVars
<1>1. OneInit => ExportInit
  BY DEF OneInit
<1>2. [OneNext]_allVars => [ExportNext]_exportVars
  BY DEF OneNext, allVars
<1> QED BY <1>1, <1>2, PTL DEF OneSpec

\* A file that is offered is whole, and every other file has somebody to remove it, in
\* every behaviour of the whole (logs_export_jobs.go, run, cleanupLocked).
THEOREM ExportFiles == OneSpec => []FilesOwned
BY ExportPart, FilesAreOwned, ExportAssumption, PTL

\* Nor is a cancelled job shown as a success but after its goroutine's last look at the
\* flag (isCanceled).
THEOREM ExportCancels == OneSpec => []CancelHonoured
BY ExportPart, CancelIsHonoured, ExportAssumption, PTL

\* And an exported file misses no row of its first page's table and has none twice, from
\* either end (exportLogsXLSXWithProgress over LogsStatsManager.Query).
THEOREM ExportRows == OneSpec => []RowsExported
BY ExportPart, RowsAreInFile, ExportAssumption, PTL

\* A step of the whole is a step of its remote source, or leaves it alone.
LEMMA RemotePart == OneSpec => RemoteInit /\ [][RemoteNext]_remoteVars
<1>1. OneInit => RemoteInit
  BY DEF OneInit
<1>2. [OneNext]_allVars => [RemoteNext]_remoteVars
  BY DEF OneNext, allVars
<1> QED BY <1>1, <1>2, PTL DEF OneSpec

\* A line of a remote object has one row in every behaviour of the whole, when lines end in
\* LF (source_scanner.go, scanTarget).
THEOREM RemoteLines == ~Crlf => (OneSpec => []NoDuplicates)
<1> SUFFICES ASSUME ~Crlf PROVE OneSpec => []NoDuplicates
  OBVIOUS
<1>1. RemoteInit /\ [][RemoteNext]_remoteVars => []NoDuplicates
  BY LinesHaveOneRow, RemoteAssumption
<1> QED BY <1>1, RemotePart, PTL

\* And the offset of a remote object passes no line that is not accounted for, whatever
\* lines end in (setTargetState).
THEOREM RemoteOffsets == OneSpec => []OffsetAccounted
BY RemotePart, OffsetsAreAccounted, RemoteAssumption, PTL

\* A step of the whole is a step of its notices, or leaves them alone.
LEMMA NoticesPart == OneSpec => NoticesInit /\ [][NoticesNext]_noticesVars
<1>1. OneInit => NoticesInit
  BY DEF OneInit
<1>2. [OneNext]_allVars => [NoticesNext]_noticesVars
  BY DEF OneNext, allVars
<1> QED BY <1>1, <1>2, PTL DEF OneSpec

\* Every hit of the whitelist in a batch that was committed is told once for every time its
\* line was read (flushWhitelistHits), or cleared, or held or taken, in every behaviour of
\* the whole.
THEOREM NoticeHits == OneSpec => []HitsCounted
BY NoticesPart, HitsAreCounted, NoticesAssumption, PTL

\* And who pages to the end has seen every notice that stayed in its place
\* (ListSystemNotifications).
THEOREM NoticeList == OneSpec => []ListedAll
BY NoticesPart, NoticesAreListed, NoticesAssumption, PTL
=============================================================================
