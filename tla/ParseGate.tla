----------------------------- MODULE ParseGate -----------------------------
(***************************************************************************)
(* The process-wide gate that lets one log scan or one backfill run at a    *)
(* time, and the status shown while it is held: package-level variables of  *)
(* internal/ingest, each behind a mutex of its own, shared by the goroutines *)
(* of the task loop and by the handlers of the HTTP API.                    *)
(*                                                                         *)
(* A worker is a goroutine.  Tasks are the callers of ExecutePeriodicTasks: *)
(* InitialScan and RunScheduler are two goroutines and overlap when the     *)
(* first pass outlives the interval.  Reparsers are handlers of             *)
(* POST /api/logs/reparse with the goroutine that they leave behind.        *)
(* Resolvers are the "go ProcessPendingIPGeo(1)" of the override handler.   *)
(***************************************************************************)
EXTENDS Integers, FiniteSets

CONSTANTS Tasks, Reparsers, Resolvers, Sites,
          NoSite,      \* the empty parsingWebsiteID
          MaxBytes     \* bound on the byte counts of the progress

ASSUME WorkersAssumption ==
  /\ Tasks \cap Reparsers = {}
  /\ Tasks \cap Resolvers = {}
  /\ Reparsers \cap Resolvers = {}
ASSUME NoSiteAssumption == NoSite \notin Sites
ASSUME MaxBytesAssumption == MaxBytes \in Nat

Workers == Tasks \cup Reparsers \cup Resolvers

VARIABLES
  parsingMode,       \* who holds the gate (parsingMu)
  parsingWebsiteID,  \* the site being scanned (parsingMu)
  currentStage,      \* the stage shown to the user (parseStageMu)
  total, processed,  \* parseProgress (parseProgressMu)
  ipGeoRunning,      \* the gate of the IP geo worker (ipGeoMu)
  initialParsed,     \* the sites with LogScanState.InitialParsed
  pc,                \* where each worker is
  want,              \* the stage each worker passed, or will pass, to start
  kind,              \* what it runs: a scan, a full reparse, a range reparse
  ids                \* the sites it still has to visit

statusVars == <<parsingMode, parsingWebsiteID, currentStage, total, processed>>
workVars   == <<want, kind, ids>>
vars == <<statusVars, ipGeoRunning, initialParsed, pc, workVars>>

Modes  == {"none", "foreground", "backfill"}
Stages == {"none", "initial", "periodic", "reparse"}
Kinds  == {"scan", "reparse", "range"}

\* Between startIPParsingWithStage and the unlock in finishIPParsing.
Scanning == {"clear", "total", "sites", "fin1"}
\* finishIPParsing after its unlock: resetParseStage, finalizeParsingProgress.
Releasing == {"fin2", "fin3"}
PCs == Scanning \cup Releasing \cup
       {"idle", "start", "backfill?", "backfill", "geo?", "geoStart", "geo"}

TypeOK ==
  /\ parsingMode \in Modes
  /\ parsingWebsiteID \in Sites \cup {NoSite}
  /\ currentStage \in Stages
  /\ total \in 0..MaxBytes
  /\ processed \in 0..MaxBytes
  /\ ipGeoRunning \in BOOLEAN
  /\ initialParsed \in SUBSET Sites
  /\ pc \in [Workers -> PCs]
  /\ want \in [Workers -> Stages]
  /\ kind \in [Workers -> Kinds]
  /\ ids \in [Workers -> SUBSET Sites]

\* A restart keeps what updateState wrote, so any set of sites may be parsed.
Init ==
  /\ parsingMode = "none"
  /\ parsingWebsiteID = NoSite
  /\ currentStage = "none"
  /\ total = 0
  /\ processed = 0
  /\ ipGeoRunning = FALSE
  /\ initialParsed \in SUBSET Sites
  /\ pc = [w \in Workers |-> "idle"]
  /\ want = [w \in Workers |-> "none"]
  /\ kind = [w \in Workers |-> "scan"]
  /\ ids = [w \in Workers |-> {}]

Goto(w, label) == pc' = [pc EXCEPT ![w] = label]

----------------------------------------------------------------------------
\* Mutant of ChooseStage: one parsed site is enough for "periodic".
ChooseStageOfSome(w) ==
  /\ w \in Tasks
  /\ pc[w] = "idle"
  /\ want' = [want EXCEPT ![w] =
                IF Sites \cap initialParsed # {} THEN "periodic" ELSE "initial"]
  /\ kind' = [kind EXCEPT ![w] = "scan"]
  /\ ids' = [ids EXCEPT ![w] = Sites]
  /\ Goto(w, "start")
  /\ UNCHANGED <<statusVars, ipGeoRunning, initialParsed>>

(* ScanNginxLogs up to the gate: the stage is chosen from p.states before   *)
(* the gate is tried, so it may be stale by then.                           *)
ChooseStage(w) ==
  /\ w \in Tasks
  /\ pc[w] = "idle"
  /\ want' = [want EXCEPT ![w] =
                IF Sites \subseteq initialParsed THEN "periodic" ELSE "initial"]
  /\ kind' = [kind EXCEPT ![w] = "scan"]
  /\ ids' = [ids EXCEPT ![w] = Sites]
  /\ Goto(w, "start")
  /\ UNCHANGED <<statusVars, ipGeoRunning, initialParsed>>

(* POST /api/logs/reparse: a full reparse of one site or of all of them, a  *)
(* range reparse of one site.                                               *)
RequestReparse(w, k, S) ==
  /\ w \in Reparsers
  /\ pc[w] = "idle"
  /\ S = Sites \/ Cardinality(S) = 1
  /\ k = "range" => Cardinality(S) = 1
  /\ want' = [want EXCEPT ![w] = "reparse"]
  /\ kind' = [kind EXCEPT ![w] = k]
  /\ ids' = [ids EXCEPT ![w] = S]
  /\ Goto(w, "start")
  /\ UNCHANGED <<statusVars, ipGeoRunning, initialParsed>>

(* startIPParsingWithStage: all of it happens under parsingMu.  A refused   *)
(* task goes on to the backfill, a refused reparse answers 409.             *)
StartScan(w) ==
  /\ pc[w] = "start"
  /\ parsingMode = "none"
  /\ parsingMode' = "foreground"
  /\ parsingWebsiteID' = NoSite
  /\ currentStage' = want[w]
  /\ total' = 0
  /\ processed' = 0
  /\ Goto(w, IF w \in Reparsers THEN "clear" ELSE "total")
  /\ UNCHANGED <<ipGeoRunning, initialParsed, workVars>>

\* Mutant of ScanRefused: the stage is set before the gate is tested.
ScanRefusedWithStage(w) ==
  /\ pc[w] = "start"
  /\ parsingMode # "none"
  /\ currentStage' = want[w]
  /\ Goto(w, IF w \in Reparsers THEN "idle" ELSE "backfill?")
  /\ UNCHANGED <<parsingMode, parsingWebsiteID, total, processed, ipGeoRunning,
                 initialParsed, workVars>>

ScanRefused(w) ==
  /\ pc[w] = "start"
  /\ parsingMode # "none"
  /\ Goto(w, IF w \in Reparsers THEN "idle" ELSE "backfill?")
  /\ UNCHANGED <<statusVars, ipGeoRunning, initialParsed, workVars>>

(* TriggerReparse clears the rows and then resets the scan states; a range  *)
(* reparse keeps the states.  When the clear fails the handler finishes.    *)
ClearForReparse(w) ==
  /\ pc[w] = "clear"
  /\ initialParsed' = IF kind[w] = "reparse" THEN initialParsed \ ids[w]
                                             ELSE initialParsed
  /\ Goto(w, "total")
  /\ UNCHANGED <<statusVars, ipGeoRunning, workVars>>

\* Mutant of ClearFails: the early return forgets finishIPParsing.
ClearFailsHeld(w) ==
  /\ pc[w] = "clear"
  /\ Goto(w, "idle")
  /\ UNCHANGED <<statusVars, ipGeoRunning, initialParsed, workVars>>

ClearFails(w) ==
  /\ pc[w] = "clear"
  /\ Goto(w, "fin1")
  /\ UNCHANGED <<statusVars, ipGeoRunning, initialParsed, workVars>>

(* setParsingTotalBytes(calculate...), then setParsingWebsiteID("").        *)
SetTotal(w, n) ==
  /\ pc[w] = "total"
  /\ total' = n
  /\ processed' = IF n > 0 /\ processed > n THEN n ELSE processed
  /\ parsingWebsiteID' = IF parsingMode = "foreground" THEN NoSite
                                                       ELSE parsingWebsiteID
  /\ Goto(w, "sites")
  /\ UNCHANGED <<parsingMode, currentStage, ipGeoRunning, initialParsed, workVars>>

(* The loop over the sites: setParsingWebsiteID(id), markInitialParsed(id). *)
(* scanWebsiteRange does not mark its site.                                 *)
BeginSite(w, s) ==
  /\ pc[w] = "sites"
  /\ s \in ids[w]
  /\ parsingWebsiteID' = IF parsingMode = "foreground" THEN s ELSE NoSite
  /\ initialParsed' = IF kind[w] = "range" THEN initialParsed
                                           ELSE initialParsed \cup {s}
  /\ ids' = [ids EXCEPT ![w] = @ \ {s}]
  /\ UNCHANGED <<parsingMode, currentStage, total, processed, ipGeoRunning, pc,
                 want, kind>>

\* Mutant of AddProgress: nothing clamps the sum.
AddProgressUnclamped(w, d) ==
  /\ pc[w] \in {"sites", "backfill"}
  /\ d > 0
  /\ total = 0 => processed + d <= MaxBytes
  /\ processed' = processed + d
  /\ UNCHANGED <<parsingMode, parsingWebsiteID, currentStage, total,
                 ipGeoRunning, initialParsed, pc, workVars>>

(* parseLogLines reports the bytes it read, for a scan and for a gzip file  *)
(* of the backfill; a total of 0 does not clamp (bounded by MaxBytes).      *)
AddProgress(w, d) ==
  /\ pc[w] \in {"sites", "backfill"}
  /\ d > 0
  /\ total = 0 => processed + d <= MaxBytes
  /\ processed' = IF total > 0 /\ processed + d > total THEN total
                                                        ELSE processed + d
  /\ UNCHANGED <<parsingMode, parsingWebsiteID, currentStage, total,
                 ipGeoRunning, initialParsed, pc, workVars>>


(* The deferred setParsingWebsiteID("") of the scan.                        *)
EndScan(w) ==
  /\ pc[w] = "sites"
  /\ ids[w] = {}
  /\ parsingWebsiteID' = NoSite
  /\ Goto(w, "fin1")
  /\ UNCHANGED <<parsingMode, currentStage, total, processed, ipGeoRunning,
                 initialParsed, workVars>>

(* finishIPParsing releases the gate under parsingMu ...                    *)
ReleaseGate(w) ==
  /\ pc[w] = "fin1"
  /\ parsingMode' = IF parsingMode = "foreground" THEN "none" ELSE parsingMode
  /\ parsingWebsiteID' = NoSite
  /\ Goto(w, "fin2")
  /\ UNCHANGED <<currentStage, total, processed, ipGeoRunning, initialParsed,
                 workVars>>



(* ... and clears the stage and completes the progress after the unlock,    *)
(* when the next holder may already have set its own.                       *)
ResetStage(w) ==
  /\ pc[w] = "fin2"
  /\ currentStage' = "none"
  /\ Goto(w, "fin3")
  /\ UNCHANGED <<parsingMode, parsingWebsiteID, total, processed, ipGeoRunning,
                 initialParsed, workVars>>

FinalizeProgress(w) ==
  /\ pc[w] = "fin3"
  /\ processed' = IF total > 0 THEN total ELSE processed
  /\ Goto(w, IF w \in Reparsers THEN "idle" ELSE "backfill?")
  /\ UNCHANGED <<parsingMode, parsingWebsiteID, currentStage, total,
                 ipGeoRunning, initialParsed, workVars>>

----------------------------------------------------------------------------
\* Mutant of StartBackfill: the gate is taken without looking at it.
StartBackfillUnguarded(w) ==
  /\ pc[w] = "backfill?"
  /\ parsingMode' = "backfill"
  /\ Goto(w, "backfill")
  /\ UNCHANGED <<parsingWebsiteID, currentStage, total, processed, ipGeoRunning,
                 initialParsed, workVars>>

(* BackfillHistory: startBackfillParsing, the files, finishBackfillParsing. *)
StartBackfill(w) ==
  /\ pc[w] = "backfill?"
  /\ parsingMode = "none"
  /\ parsingMode' = "backfill"
  /\ Goto(w, "backfill")
  /\ UNCHANGED <<parsingWebsiteID, currentStage, total, processed, ipGeoRunning,
                 initialParsed, workVars>>

BackfillRefused(w) ==
  /\ pc[w] = "backfill?"
  /\ parsingMode # "none"
  /\ Goto(w, "geo?")
  /\ UNCHANGED <<statusVars, ipGeoRunning, initialParsed, workVars>>

FinishBackfill(w) ==
  /\ pc[w] = "backfill"
  /\ parsingMode' = IF parsingMode = "backfill" THEN "none" ELSE parsingMode
  /\ Goto(w, "geo?")
  /\ UNCHANGED <<parsingWebsiteID, currentStage, total, processed, ipGeoRunning,
                 initialParsed, workVars>>

----------------------------------------------------------------------------
(* ProcessPendingIPGeo: the test of IsIPParsing and startIPGeoParsing take  *)
(* two different locks, one after the other.                                *)
CallResolver(w) ==
  /\ w \in Resolvers
  /\ pc[w] = "idle"
  /\ Goto(w, "geo?")
  /\ UNCHANGED <<statusVars, ipGeoRunning, initialParsed, workVars>>

TestParsing(w) ==
  /\ pc[w] = "geo?"
  /\ Goto(w, IF parsingMode = "foreground" THEN "idle" ELSE "geoStart")
  /\ UNCHANGED <<statusVars, ipGeoRunning, initialParsed, workVars>>


StartIPGeo(w) ==
  /\ pc[w] = "geoStart"
  /\ Goto(w, IF ipGeoRunning THEN "idle" ELSE "geo")
  /\ ipGeoRunning' = TRUE
  /\ UNCHANGED <<statusVars, initialParsed, workVars>>

FinishIPGeo(w) ==
  /\ pc[w] = "geo"
  /\ ipGeoRunning' = FALSE
  /\ Goto(w, "idle")
  /\ UNCHANGED <<statusVars, initialParsed, workVars>>

----------------------------------------------------------------------------
\* A worker is called: by the ticker, by a request.  Nobody promises a call.
Call(w) ==
  \/ ChooseStage(w)
  \/ \E k \in {"reparse", "range"}, S \in SUBSET Sites : RequestReparse(w, k, S)
  \/ CallResolver(w)

\* What a goroutine that was called does by itself.
Run(w) ==
  \/ StartScan(w) \/ ScanRefused(w)
  \/ ClearForReparse(w) \/ ClearFails(w)
  \/ \E n \in 0..MaxBytes : SetTotal(w, n)
  \/ \E s \in Sites : BeginSite(w, s)
  \/ EndScan(w)
  \/ ReleaseGate(w) \/ ResetStage(w) \/ FinalizeProgress(w)
  \/ StartBackfill(w) \/ BackfillRefused(w) \/ FinishBackfill(w)
  \/ TestParsing(w) \/ StartIPGeo(w) \/ FinishIPGeo(w)

Next ==
  \E w \in Workers :
    \/ Call(w)
    \/ Run(w)
    \/ \E d \in 1..MaxBytes : AddProgress(w, d)

Spec == Init /\ [][Next]_vars

\* The Go runtime runs every goroutine that is not blocked, and the files a
\* scan reads end.
FairSpec == Spec /\ \A w \in Workers : WF_vars(Run(w))

----------------------------------------------------------------------------
(* PROPERTIES *)

Holds(w) == pc[w] \in Scanning \cup {"backfill"}

\* The gate excludes: a scan, a reparse and a backfill never overlap, and the
\* mode says exactly what the one holder is doing, so no early return or
\* failed clear leaves the gate held by nobody (parsing would stay refused).
GateExclusive ==
  /\ \A v, w \in Workers : Holds(v) /\ Holds(w) => v = w
  /\ parsingMode = "foreground" <=> \E w \in Workers : pc[w] \in Scanning
  /\ parsingMode = "backfill" <=> \E w \in Workers : pc[w] = "backfill"

\* While a scan runs /api/status shows that scan's own stage, or none when the
\* tail of the previous finishIPParsing wiped it; never another scan's stage.
StageOfHolder ==
  \A w \in Workers : pc[w] \in Scanning => currentStage \in {"none", want[w]}

\* A stage is never left behind: when one is shown, the scan it belongs to is
\* running or is about to clear it.
NoStaleStage ==
  currentStage # "none" =>
    \E w \in Workers : pc[w] \in Scanning \cup {"fin2"} /\ want[w] = currentStage

\* The site shown by GetParsingWebsiteID belongs to the running scan, and that
\* scan has already begun it: the overlay never names a site that waits.
SiteOfHolder ==
  parsingWebsiteID # NoSite =>
    \E w \in Workers : pc[w] = "sites" /\ parsingWebsiteID \notin ids[w]

\* The stage is chosen before the gate is taken, from states a reparse may be
\* resetting; still a scan that starts as "periodic" never is the first parse
\* of a site, whose overlay the frontend would then not show.
PeriodicIsNotFirst ==
  \A w \in Workers :
    pc[w] = "total" /\ want[w] = "periodic" => ids[w] \subseteq initialParsed

\* The progress never passes 100%, whichever of reset, total, add and finalize
\* of two scans interleave.
ProgressBounded == total > 0 => processed <= total

\* One IP geo worker at a time, and its flag is never left set.
OneResolver ==
  /\ \A v, w \in Workers : pc[v] = "geo" /\ pc[w] = "geo" => v = w
  /\ ipGeoRunning <=> \E w \in Workers : pc[w] = "geo"

\* Both gates exclude, though the IP geo worker tests one and takes the other.
GatesExclude == GateExclusive /\ OneResolver

\* What /api/status shows, the stage, the site and the progress, is never that of
\* another scan, whatever the unlocked tail of finishIPParsing interleaves with.
StatusTrue == StageOfHolder /\ NoStaleStage /\ SiteOfHolder /\ ProgressBounded

\* Whoever holds the gate gives it back: it is free again and again.
GateReleased == []<>(parsingMode = "none")

\* Every stage that is shown is cleared in the end, though its reset comes
\* after the release and another scan may start in between.
StageCleared == \A g \in Stages \ {"none"} : []<>(currentStage # g)

\* On every path, the early returns and the failed clears included, a goroutine
\* leaves the gate free and no stage of its own behind.
GateGivenBack == GateReleased /\ StageCleared
=============================================================================
