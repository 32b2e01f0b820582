---------------------------- MODULE MCEventually ----------------------------
(***************************************************************************)
(* What must happen in the end, in FileScan and in IPGeo.  A behaviour is of  *)
(* one of them: the other keeps its first state.                             *)
(***************************************************************************)
EXTENDS FileScan

CONSTANTS i1, s1, IPs, Sites, Ingesters, Scanners, Handlers, Worker, CacheLimit,
          MaxFaults, MaxEdits

VARIABLES label, queue, cache, overrides, cooling, workerPc, found, missing, sites,
          run, kick, spent,
          scanning   \* the behaviour is one of FileScan

geoVars == <<label, queue, cache, overrides, cooling, workerPc, found, missing, sites,
             run, kick, spent>>

\* The second file begins with a line that is too long.
SecondFileLong == {<<2, 1>>}
OneRow == {[ip |-> i1, site |-> s1]}
Geo == INSTANCE IPGeo WITH pc <- workerPc, Rows <- OneRow

EitherInit == scanning \in BOOLEAN /\ Init /\ Geo!Init
EitherNext ==
  \/ scanning /\ Next /\ UNCHANGED <<geoVars, scanning>>
  \/ ~scanning /\ Geo!Next /\ UNCHANGED <<vars, scanning>>
\* The fairness of FileScan!FairSpec, or of IPGeo!FairSpec.
EitherSpec ==
  /\ EitherInit /\ [][EitherNext]_<<vars, geoVars, scanning>>
  /\ WF_vars(scanning /\ Pass)
  /\ SF_vars(scanning /\ StartScan) /\ SF_vars(scanning /\ StartBackfill)
  /\ WF_geoVars(~scanning /\ Geo!WorkerStep)
  /\ \A p \in Ingesters : WF_geoVars(~scanning /\ Geo!IngestStep(p))
  /\ \A h \in Handlers : WF_geoVars(~scanning /\ Geo!HandlerStep(h))
  /\ WF_geoVars(~scanning /\ Geo!CoolDown)

\* Every row that waits for a location is shown one in the end.
EventuallyResolved == Geo!EventuallyResolved
=============================================================================
