------------------------------ MODULE IPGeoProofs ------------------------------
(* Proofs about IPGeo, for any IPs, websites, rows, ingesters, failing calls,  *)
(* crashes and edits.                                                       *)
EXTENDS IPGeo, FiniteSetTheorems, TLAPS

USE RowsAssumption, ProcessesAssumption, BoundsAssumption

----------------------------------------------------------------------------
(* TYPE CORRECTNESS                                                         *)

Spents == [faults: 0..MaxFaults, crashes: 0..MaxCrashes, edits: 0..MaxEdits]
Caches == [IPs -> {"none", "unknown", "auto"}]

LEMMA NothingType == Nothing \in [IPs -> Entries] /\ Nothing \in Caches /\ NoRun \in Runs
  BY DEF Nothing, Entries, Caches, NoRun, Runs

LEMMA InitType == Init => TypeOK
<1> SUFFICES ASSUME Init
             PROVE  TypeOK
  OBVIOUS
<1>1. /\ 0 \in 0..MaxFaults /\ 0 \in 0..MaxCrashes /\ 0 \in 0..MaxEdits
  OBVIOUS
<1>2. spent \in Spents
  BY <1>1 DEF Init, Spents
<1>3. pc \in [Procs -> PCs]
  BY DEF Init, PCs
<1> QED BY <1>2, <1>3, NothingType DEF Init, TypeOK, Spents, Caches

LEMMA FaultType ==
  ASSUME TypeOK, Fault \/ NoFault
  PROVE  spent' \in Spents
  BY DEF TypeOK, Fault, NoFault, Spents

LEMMA LeaveType ==
  ASSUME TypeOK, NEW p \in Procs, Leave(p)
  PROVE  /\ pc' \in [Procs -> PCs] /\ found' \in [Procs -> [IPs -> Entries]]
         /\ missing' \in [Procs -> SUBSET IPs] /\ sites' \in [Procs -> SUBSET Sites]
         /\ run' \in Runs
<1>1. "idle" \in PCs
  BY DEF PCs
<1> QED BY <1>1, NothingType DEF TypeOK, Leave, Goto

\* The entries of an IP and the labels they give.
LEMMA EntryType ==
  ASSUME TypeOK, NEW ip \in IPs
  PROVE  Entry(ip) \in {"none", "unknown", "auto", "manual"}
  BY DEF TypeOK, Entry

LEMMA SitesForType == \A map : SitesFor(map) \in SUBSET Sites
  BY DEF SitesFor

\* Only names of locations are written over a pending row.
LEMMA SettledType ==
  ASSUME TypeOK, NEW s, NEW map \in [IPs -> Entries]
  PROVE  Settled(s, map) \in [Rows -> Answers \cup {"absent", "pending"}]
  BY DEF TypeOK, Settled, Entries

LEMMA SettleType ==
  ASSUME TypeOK, NEW p \in Procs, SettleSite(p) \/ SettleDone(p) \/ SettleFails(p)
  PROVE  TypeOK'
<1>1. AfterSettle(p) \in PCs
  BY DEF AfterSettle, PCs
<1>2. CASE SettleSite(p)
  <2>1. label' \in [Rows -> Answers \cup {"absent", "pending"}]
    BY <1>2, SettledType DEF SettleSite, TypeOK
  <2>2. sites' \in [Procs -> SUBSET Sites]
    BY <1>2 DEF SettleSite, TypeOK
  <2> QED BY <1>2, <2>1, <2>2 DEF SettleSite, TypeOK
<1>3. CASE SettleDone(p)
  BY <1>1, <1>3 DEF SettleDone, TypeOK, tables, locals, Goto
<1>4. CASE SettleFails(p)
  <2>1. /\ pc' \in [Procs -> PCs] /\ found' \in [Procs -> [IPs -> Entries]]
        /\ missing' \in [Procs -> SUBSET IPs] /\ sites' \in [Procs -> SUBSET Sites]
        /\ run' \in Runs
    <3>1. CASE Leave(p)
      BY <3>1, LeaveType
    <3>2. CASE Goto(p, AfterSettle(p)) /\ UNCHANGED locals
      BY <1>1, <3>2 DEF TypeOK, locals, Goto
    <3> QED BY <1>4, <3>1, <3>2 DEF SettleFails
  <2>2. spent' \in Spents
    BY <1>4, FaultType DEF SettleFails
  <2> QED BY <1>4, <2>1, <2>2 DEF SettleFails, TypeOK, tables, Spents
<1> QED BY <1>2, <1>3, <1>4

LEMMA LookupType ==
  ASSUME TypeOK, NEW p \in Procs, ReadCache(p) \/ ReadCacheFails(p) \/ Enqueue(p)
  PROVE  TypeOK'
<1>1. ASSUME NEW rest
      PROVE  AfterLookup(p, rest) \in PCs
  BY DEF AfterLookup, PCs
<1>2. CASE ReadCache(p)
  <2> DEFINE hits == {ip \in missing[p] : Useful(ip)}
             map == [ip \in IPs |-> IF ip \in hits THEN Entry(ip) ELSE "none"]
  <2>1. map \in [IPs -> Entries]
    BY EntryType DEF Entries, Answers
  <2>2. found' \in [Procs -> [IPs -> Entries]] /\ sites' \in [Procs -> SUBSET Sites]
    BY <1>2, <2>1, SitesForType DEF ReadCache, TypeOK
  <2>3. missing' \in [Procs -> SUBSET IPs]
    BY <1>2 DEF ReadCache, TypeOK
  <2>4. cache' \in Caches /\ spent' \in Spents
    BY <1>2, FaultType DEF ReadCache, Try, TypeOK, Caches
  <2>5. pc' \in [Procs -> PCs]
    BY <1>1, <1>2 DEF ReadCache, Goto, TypeOK
  <2> QED BY <1>2, <2>2, <2>3, <2>4, <2>5 DEF ReadCache, TypeOK, Caches, Spents
<1>3. CASE ReadCacheFails(p)
  <2>1. found' \in [Procs -> [IPs -> Entries]] /\ sites' \in [Procs -> SUBSET Sites]
    BY <1>3, NothingType DEF ReadCacheFails, TypeOK
  <2>2. pc' \in [Procs -> PCs]
    BY <1>1, <1>3 DEF ReadCacheFails, Goto, TypeOK
  <2> QED BY <1>3, <2>1, <2>2, FaultType DEF ReadCacheFails, TypeOK, tables, Spents
<1>4. CASE Enqueue(p)
  <2>1. spent' \in Spents /\ queue' \subseteq IPs
    BY <1>4, FaultType DEF Enqueue, Try, TypeOK
  <2> QED BY <1>4, <2>1, LeaveType DEF Enqueue, TypeOK, Spents
<1> QED BY <1>2, <1>3, <1>4

LEMMA InsertType ==
  ASSUME TypeOK, NEW p \in Procs, Insert(p)
  PROVE  TypeOK'
<1>1. PICK s \in Sites : \E batch \in SUBSET {r \in Rows : r.site = s /\ label[r] = "absent"} :
        /\ label' = [r \in Rows |-> IF r \in batch THEN "pending" ELSE label[r]]
        /\ missing' = [missing EXCEPT ![p] = {r.ip : r \in batch}]
  BY DEF Insert
<1>2. PICK batch \in SUBSET Rows :
        /\ label' = [r \in Rows |-> IF r \in batch THEN "pending" ELSE label[r]]
        /\ missing' = [missing EXCEPT ![p] = {r.ip : r \in batch}]
  BY <1>1
<1>3. {r.ip : r \in batch} \subseteq IPs
  OBVIOUS
<1>4. /\ label' \in [Rows -> Answers \cup {"absent", "pending"}]
      /\ missing' \in [Procs -> SUBSET IPs]
  BY <1>2, <1>3 DEF TypeOK
<1>5. pc' \in [Procs -> PCs]
  BY DEF Insert, Goto, TypeOK, PCs
<1> QED BY <1>4, <1>5 DEF Insert, TypeOK

\* What is left of the cache.
LEMMA TrimmedType ==
  ASSUME NEW c \in Caches, NEW t \in Trimmed(c)
  PROVE  t \in Caches
  BY DEF Trimmed, Caches

\* What the worker is about to put into the cache is an answer.
StoreReady ==
  pc[Worker] = "store" =>
    \A ip \in missing[Worker] : found[Worker][ip] \in {"unknown", "auto"}

LEMMA WorkerType ==
  ASSUME TypeOK, StoreReady,
         \/ Start(TRUE) \/ Start(FALSE) \/ Count \/ GiveUp \/ Fetch \/ Resolve \/ Store
         \/ Record \/ Dequeue \/ Forget \/ Collect \/ Relookup
  PROVE  TypeOK'
<1> Worker \in Procs
  BY DEF Procs
<1>1. ASSUME NEW step \in PCs, Goto(Worker, step)
      PROVE  pc' \in [Procs -> PCs]
  BY <1>1 DEF Goto, TypeOK
<1>2. {"count", "fetch", "collect", "lookup", "resolve", "store", "record", "settle",
       "dequeue", "forget", "relookup", "resettle"} \subseteq PCs
  BY DEF PCs
<1>3. ASSUME NEW limited \in BOOLEAN, Start(limited)
      PROVE  TypeOK'
  <2>1. run' \in Runs
    BY <1>3 DEF Start, NoRun, Runs
  <2> QED BY <1>1, <1>2, <1>3, <2>1 DEF Start, TypeOK, tables
<1>4. CASE Count
  BY <1>1, <1>2, <1>4 DEF Count, TypeOK, tables, locals
<1>5. CASE GiveUp
  BY <1>5, LeaveType, FaultType DEF GiveUp, TypeOK, tables, Spents
<1>6. CASE Fetch
  <2>1. CASE Leave(Worker)
    BY <1>6, <2>1, LeaveType DEF Fetch, TypeOK, tables
  <2>2. CASE ~Leave(Worker)
    <3>1. PICK batch \in SUBSET IPs :
            /\ missing' = [missing EXCEPT ![Worker] = batch]
            /\ run' = [run EXCEPT !.owed =
                         {r \in Rows : label[r] = "pending" /\ r.ip \in batch}]
            /\ Goto(Worker, "lookup")
            /\ UNCHANGED <<found, sites>>
      BY <1>6, <2>2 DEF Fetch, TypeOK
    <3>2. missing' \in [Procs -> SUBSET IPs]
      BY <3>1 DEF TypeOK
    <3>3. run' \in Runs
      BY <3>1 DEF TypeOK, Runs
    <3> QED BY <1>1, <1>2, <1>6, <3>1, <3>2, <3>3 DEF Fetch, TypeOK, tables
  <2> QED BY <2>1, <2>2
<1>7. CASE Resolve
  <2> DEFINE asked == missing[Worker]
  <2>1. PICK good \in SUBSET asked, bad \in SUBSET asked, down \in BOOLEAN :
          LET map == [ip \in IPs |-> IF ip \in good THEN "auto"
                                     ELSE IF ip \in asked THEN "unknown"
                                     ELSE found[Worker][ip]]
          IN /\ found' = [found EXCEPT ![Worker] = map]
             /\ sites' = [sites EXCEPT ![Worker] = SitesFor(map)]
             /\ run' = [run EXCEPT !.failing = bad, !.down = down]
    BY <1>7 DEF Resolve
  <2> DEFINE map == [ip \in IPs |-> IF ip \in good THEN "auto"
                                     ELSE IF ip \in asked THEN "unknown"
                                     ELSE found[Worker][ip]]
  <2>2. map \in [IPs -> Entries]
    BY DEF TypeOK, Entries, Answers
  <2>3. /\ found' = [found EXCEPT ![Worker] = map]
        /\ sites' = [sites EXCEPT ![Worker] = SitesFor(map)]
    BY <2>1
  <2> HIDE DEF map
  <2>4. found' \in [Procs -> [IPs -> Entries]] /\ sites' \in [Procs -> SUBSET Sites]
    BY <2>2, <2>3, SitesForType DEF TypeOK
  <2>5. run' \in Runs
    <3>1. bad \subseteq IPs
      BY DEF TypeOK
    <3> QED BY <2>1, <3>1 DEF TypeOK, Runs
  <2> QED BY <1>1, <1>2, <1>7, <2>4, <2>5 DEF Resolve, TypeOK, tables
<1>8. CASE Store
  <2> DEFINE new == [ip \in IPs |-> IF ip \in missing[Worker] THEN found[Worker][ip]
                                    ELSE cache[ip]]
  <2>1. new \in Caches
    BY <1>8 DEF Store, TypeOK, StoreReady, Caches
  <2> HIDE DEF new
  <2>2. cache' \in {new} \cup Trimmed(new) \cup Trimmed(cache) /\ spent' \in Spents
    BY <1>8, FaultType DEF Store, Try, new
  <2>3. cache' \in Caches
    BY <2>1, <2>2, TrimmedType DEF TypeOK, Caches
  <2>4. pc' \in [Procs -> PCs]
    BY <1>1, <1>2, <1>8 DEF Store
  <2> QED BY <1>8, <2>2, <2>3, <2>4 DEF Store, TypeOK, locals, Caches, Spents
<1>9. CASE Record
  <2>1. spent' \in Spents /\ cooling' \subseteq IPs
    BY <1>9, FaultType DEF Record, Try, TypeOK, Runs
  <2> QED BY <1>1, <1>2, <1>9, <2>1 DEF Record, TypeOK, locals, Spents
<1>10. CASE Dequeue
  BY <1>1, <1>2, <1>10 DEF Dequeue, TypeOK, locals
<1>11. CASE Forget
  <2>1. spent' \in Spents /\ cooling' \subseteq IPs
    BY <1>11, FaultType DEF Forget, Try, TypeOK
  <2> QED BY <1>11, <2>1, LeaveType DEF Forget, TypeOK, Spents
<1>12. CASE Collect
  <2>1. spent' \in Spents
    BY <1>12, FaultType DEF Collect
  <2>2. CASE Leave(Worker)
    BY <1>12, <2>1, <2>2, LeaveType DEF Collect, TypeOK, tables, Spents
  <2>3. CASE ~Leave(Worker)
    <3>1. PICK batch \in SUBSET {r.ip : r \in Rows} :
            /\ missing' = [missing EXCEPT ![Worker] = batch]
            /\ Goto(Worker, "relookup")
            /\ UNCHANGED <<found, sites, run>>
      BY <1>12, <2>3 DEF Collect
    <3>2. missing' \in [Procs -> SUBSET IPs]
      BY <3>1 DEF TypeOK
    <3> QED BY <1>1, <1>2, <1>12, <2>1, <3>1, <3>2 DEF Collect, TypeOK, tables, Spents
  <2> QED BY <2>2, <2>3
<1>13. CASE Relookup
  <2>1. PICK hits \in SUBSET missing[Worker] :
          LET map == [ip \in IPs |-> IF ip \in hits THEN Entry(ip) ELSE "none"] IN
          /\ found' = [found EXCEPT ![Worker] = map]
          /\ missing' = [missing EXCEPT ![Worker] = @ \ hits]
          /\ sites' = [sites EXCEPT ![Worker] = SitesFor(map)]
    BY <1>13 DEF Relookup
  <2> DEFINE map == [ip \in IPs |-> IF ip \in hits THEN Entry(ip) ELSE "none"]
  <2>2. map \in [IPs -> Entries]
    BY EntryType DEF Entries, Answers
  <2>3. found' \in [Procs -> [IPs -> Entries]] /\ sites' \in [Procs -> SUBSET Sites]
    BY <2>1, <2>2, SitesForType DEF TypeOK
  <2>4. missing' \in [Procs -> SUBSET IPs]
    BY <2>1 DEF TypeOK
  <2>5. spent' \in Spents
    BY <1>13, FaultType DEF Relookup
  <2> QED BY <1>1, <1>2, <1>13, <2>3, <2>4, <2>5 DEF Relookup, TypeOK, tables, Spents
<1> QED BY <1>3, <1>4, <1>5, <1>6, <1>7, <1>8, <1>9, <1>10, <1>11, <1>12, <1>13

\* What a handler is about to write over the rows of its IP is a location or
\* "pending".
HandlerReady ==
  \A h \in Handlers : pc[h] \in {"unqueue", "mark", "markQueue", "apply"} =>
    \A ip \in missing[h] : found[h][ip] \in Answers \cup {"pending"}

LEMMA HandlerType ==
  ASSUME TypeOK, HandlerReady, NEW h \in Handlers,
         HandlerStep(h) \/ \E ip \in IPs : Save(h, ip) \/ Reset(h, ip)
  PROVE  TypeOK'
<1> h \in Procs
  BY DEF Procs
<1>1. ASSUME NEW step \in PCs, Goto(h, step)
      PROVE  pc' \in [Procs -> PCs]
  BY <1>1 DEF Goto, TypeOK
<1>2. {"unqueue", "effective", "mark", "markQueue", "apply"} \subseteq PCs
  BY DEF PCs
<1>3. ASSUME NEW ip \in IPs, Save(h, ip) \/ Reset(h, ip)
      PROVE  TypeOK'
  <2>1. Edit(h, ip)
    BY <1>3 DEF Save, Reset
  <2>3. spent' \in Spents /\ missing' \in [Procs -> SUBSET IPs]
    BY <2>1 DEF Edit, TypeOK, Spents
  <2>2. found' \in [Procs -> [IPs -> Entries]] /\ overrides' \subseteq IPs
    <3>1. [Nothing EXCEPT ![ip] = "manual"] \in [IPs -> Entries]
      BY NothingType DEF Entries, Answers
    <3>2. overrides' \subseteq IPs
      BY <1>3 DEF Save, Reset, TypeOK
    <3>3. \/ found' = found
          \/ found' = [found EXCEPT ![h] = [Nothing EXCEPT ![ip] = "manual"]]
      BY <1>3 DEF Save, Reset
    <3>4. PICK map \in [IPs -> Entries] : found' = found \/ found' = [found EXCEPT ![h] = map]
      BY <3>1, <3>3
    <3>5. found' \in [Procs -> [IPs -> Entries]]
      BY <3>4 DEF TypeOK
    <3> QED BY <3>2, <3>5
  <2>4. pc' \in [Procs -> PCs]
    BY <1>1, <1>2, <1>3 DEF Save, Reset
  <2> QED BY <2>1, <2>2, <2>3, <2>4 DEF Edit, TypeOK, Spents
<1>4. CASE Unqueue(h)
  <2>1. spent' \in Spents /\ queue' \subseteq IPs /\ sites' \in [Procs -> SUBSET Sites]
    BY <1>4, FaultType DEF Unqueue, Try, TypeOK
  <2> QED BY <1>1, <1>2, <1>4, <2>1 DEF Unqueue, TypeOK, Spents
<1>5. CASE Effective(h)
  <2> DEFINE entry(ip) == IF Entry(ip) = "none" THEN "pending" ELSE Entry(ip)
             map == [ip \in IPs |-> IF ip \in missing[h] THEN entry(ip) ELSE "none"]
  <2>1. map \in [IPs -> Entries]
    BY EntryType DEF Entries, Answers
  <2>2. found' = [found EXCEPT ![h] = map]
    BY <1>5 DEF Effective
  <2> HIDE DEF map
  <2>3. found' \in [Procs -> [IPs -> Entries]] /\ sites' \in [Procs -> SUBSET Sites]
    BY <1>5, <2>1, <2>2 DEF Effective, TypeOK
  <2>4. pc' \in [Procs -> PCs]
    BY <1>1, <1>2, <1>5 DEF Effective
  <2> QED BY <1>5, <2>3, <2>4 DEF Effective, TypeOK, tables
<1>6. CASE RelabelSite(h)
  <2>1. PICK s \in Sites :
          /\ label' = [r \in Rows |-> IF r \in Relabel(h, s) THEN found[h][r.ip]
                                      ELSE label[r]]
          /\ run' = [run EXCEPT !.owed = @ \ Relabel(h, s)]
          /\ sites' = [sites EXCEPT ![h] = @ \ {s}]
    BY <1>6 DEF RelabelSite, TypeOK
  <2>2. label' \in [Rows -> Answers \cup {"absent", "pending"}]
    <3>1. \A r \in Relabel(h, s) : found[h][r.ip] \in Answers \cup {"pending"}
      BY <1>6 DEF RelabelSite, Relabel, HandlerReady
    <3> QED BY <2>1, <3>1 DEF TypeOK
  <2>3. run' \in Runs /\ sites' \in [Procs -> SUBSET Sites]
    BY <2>1 DEF TypeOK, Runs
  <2> QED BY <1>6, <2>2, <2>3 DEF RelabelSite, TypeOK
<1>7. CASE RelabelDone(h)
  <2>1. /\ pc' \in [Procs -> PCs] /\ found' \in [Procs -> [IPs -> Entries]]
        /\ missing' \in [Procs -> SUBSET IPs] /\ sites' \in [Procs -> SUBSET Sites]
        /\ run' \in Runs
    <3>1. CASE Leave(h)
      BY <3>1, LeaveType
    <3>2. CASE Goto(h, "markQueue") /\ UNCHANGED locals
      BY <1>1, <1>2, <3>2 DEF TypeOK, locals
    <3> QED BY <1>7, <3>1, <3>2 DEF RelabelDone
  <2> QED BY <1>7, <2>1 DEF RelabelDone, TypeOK, tables
<1>8. CASE MarkQueue(h)
  <2>1. queue' \subseteq IPs /\ sites' \in [Procs -> SUBSET Sites] /\ kick' \in BOOLEAN
    BY <1>8 DEF MarkQueue, TypeOK
  <2> QED BY <1>1, <1>2, <1>8, <2>1 DEF MarkQueue, TypeOK
<1>9. CASE HandlerFails(h)
  BY <1>9, LeaveType, FaultType DEF HandlerFails, TypeOK, tables, Spents
<1> QED BY <1>3, <1>4, <1>5, <1>6, <1>7, <1>8, <1>9 DEF HandlerStep

LEMMA OtherType ==
  ASSUME TypeOK, KickRefused \/ CoolDown \/ Crash \/ UNCHANGED vars
  PROVE  TypeOK'
<1>1. CASE KickRefused
  BY <1>1 DEF KickRefused, TypeOK, tables, locals
<1>2. CASE CoolDown
  BY <1>2 DEF CoolDown, TypeOK, locals
<1>3. CASE Crash
  <2>1. spent' \in Spents
    BY <1>3 DEF Crash, TypeOK, Spents
  <2>2. pc' \in [Procs -> PCs]
    BY <1>3 DEF Crash, PCs
  <2> QED BY <1>3, <2>1, <2>2, NothingType DEF Crash, TypeOK, tables, Spents
<1>4. CASE UNCHANGED vars
  BY <1>4 DEF vars, TypeOK, tables, locals
<1> QED BY <1>1, <1>2, <1>3, <1>4

LEMMA StepType == TypeOK /\ StoreReady /\ HandlerReady /\ [Next]_vars => TypeOK'
<1> Ingesters \cup {Worker} \subseteq Procs
  BY DEF Procs
<1> QED BY SettleType, LookupType, InsertType, WorkerType, HandlerType, OtherType
        DEF Next, IngestStep, WorkerStep

----------------------------------------------------------------------------
(* WHO CHANGES WHAT                                                         *)

Same(p) == /\ pc'[p] = pc[p] /\ found'[p] = found[p]
           /\ missing'[p] = missing[p] /\ sites'[p] = sites[p]

\* A step of one process leaves the locals of the others.
LEMMA OthersSame ==
  ASSUME TypeOK, NEW p \in Procs, NEW q \in Procs \ {p},
         \/ Insert(p) \/ IngestStep(p)
         \/ HandlerStep(p) \/ \E ip \in IPs : Save(p, ip) \/ Reset(p, ip)
         \/ p = Worker /\ (WorkerStep \/ Start(TRUE))
  PROVE  Same(q)
<1> USE DEF Same, locals
<1>1. ASSUME Leave(p)
      PROVE  Same(q)
  BY <1>1 DEF Leave, Goto, TypeOK
<1>2. ASSUME NEW step, Goto(p, step), UNCHANGED locals
      PROVE  Same(q)
  BY <1>2 DEF Goto, TypeOK
<1>3. CASE Insert(p)
  <2>1. PICK ips : missing' = [missing EXCEPT ![p] = ips]
    BY <1>3 DEF Insert
  <2> QED BY <1>3, <2>1 DEF Insert, Goto, TypeOK
<1>4. CASE IngestStep(p)
  <2>1. CASE ReadCache(p) \/ ReadCacheFails(p)
    BY <2>1 DEF ReadCache, ReadCacheFails, Goto, TypeOK
  <2>2. CASE SettleSite(p)
    BY <2>2 DEF SettleSite, TypeOK
  <2>3. CASE SettleDone(p) \/ SettleFails(p) \/ Enqueue(p)
    BY <1>1, <1>2, <2>3 DEF SettleDone, SettleFails, Enqueue
  <2> QED BY <1>4, <2>1, <2>2, <2>3 DEF IngestStep
<1>5. CASE HandlerStep(p)
  <2>1. CASE Unqueue(p) \/ Effective(p) \/ MarkQueue(p)
    BY <2>1 DEF Unqueue, Effective, MarkQueue, Goto, TypeOK
  <2>2. CASE RelabelSite(p)
    BY <2>2 DEF RelabelSite, TypeOK
  <2>3. CASE RelabelDone(p) \/ HandlerFails(p)
    BY <1>1, <1>2, <2>3 DEF RelabelDone, HandlerFails
  <2> QED BY <1>5, <2>1, <2>2, <2>3 DEF HandlerStep
<1>6. ASSUME NEW ip \in IPs, Save(p, ip) \/ Reset(p, ip)
      PROVE  Same(q)
  BY <1>6 DEF Save, Reset, Edit, Goto, TypeOK
<1>7. CASE p = Worker /\ (WorkerStep \/ Start(TRUE))
  <2>1. ASSUME NEW limited \in BOOLEAN, Start(limited)
        PROVE  Same(q)
    BY <1>7, <2>1 DEF Start, Goto, TypeOK
  <2>2. CASE Count \/ Store \/ Record \/ Dequeue
    BY <1>2, <1>7, <2>2 DEF Count, Store, Record, Dequeue
  <2>3. CASE GiveUp \/ Forget
    BY <1>1, <1>7, <2>3 DEF GiveUp, Forget
  <2>4. CASE Fetch \/ Collect
    <3>1. \/ Leave(Worker)
          \/ /\ \E ips : missing' = [missing EXCEPT ![Worker] = ips]
             /\ \E step : Goto(Worker, step)
             /\ UNCHANGED <<found, sites>>
      BY <2>4 DEF Fetch, Collect
    <3> QED BY <1>1, <1>7, <3>1 DEF Goto, TypeOK
  <2>5. CASE Resolve \/ Relookup
    BY <1>7, <2>5 DEF Resolve, Relookup, Goto, TypeOK
  <2> QED BY <1>4, <1>7, <2>1, <2>2, <2>3, <2>4, <2>5 DEF WorkerStep
<1> QED BY <1>3, <1>4, <1>5, <1>6, <1>7

----------------------------------------------------------------------------
(* THE WORKER'S BATCH                                                       *)

\* A row the worker owes a label, at each of its steps: its IP is still to be
\* looked up, or has an entry; then its website is still to be visited; in the
\* end it is labelled.
Owed(r) ==
  LET has == found[Worker][r.ip] # "none" IN
  /\ label[r] # "absent"
  /\ pc[Worker] = "lookup" => r.ip \in missing[Worker]
  /\ pc[Worker] = "resolve" => r.ip \in missing[Worker] \/ has
  /\ pc[Worker] \in {"store", "record"} => has /\ sites[Worker] = Sites
  /\ pc[Worker] = "settle" /\ label[r] = "pending" => has /\ r.site \in sites[Worker]
  /\ pc[Worker] = "dequeue" => label[r] # "pending"

NoPending == \A ip \in IPs : found[Worker][ip] # "pending"

WorkerInv == StoreReady /\ NoPending /\ \A r \in run.owed : Owed(r)

LEMMA WorkerInit == Init => WorkerInv
  BY DEF Init, WorkerInv, StoreReady, NoPending, Nothing, NoRun, Procs

\* A step of the others: rows of the batch become pending only when the user
\* says so, and then they are not owed any more.
LEMMA WorkerKeeps ==
  ASSUME TypeOK, WorkerInv, Same(Worker), run'.owed \subseteq run.owed,
         \A r \in run'.owed : /\ label[r] # "absent" => label'[r] # "absent"
                              /\ label'[r] = "pending" => label[r] = "pending"
  PROVE  WorkerInv'
<1>1. StoreReady' /\ NoPending'
  BY DEF WorkerInv, StoreReady, NoPending, Same
<1>2. \A r \in run'.owed : Owed(r)'
  BY DEF WorkerInv, Owed, Same
<1> QED BY <1>1, <1>2 DEF WorkerInv

\* A transaction of UpdateIPGeoLocations.
LEMMA SettledPending ==
  ASSUME TypeOK, NEW r \in Rows, NEW s, NEW map, label' = Settled(s, map)
  PROVE  /\ label[r] # "absent" /\ map[r.ip] # "absent" => label'[r] # "absent"
         /\ label'[r] = "pending" => label[r] = "pending"
         /\ label'[r] = "pending" /\ r.site = s => map[r.ip] \in {"none", "pending"}
  BY DEF Settled

LEMMA LeaveWorker ==
  ASSUME TypeOK, Leave(Worker)
  PROVE  WorkerInv'
<1>1. pc'[Worker] = "idle" /\ found'[Worker] = Nothing /\ run'.owed = {}
  BY DEF Leave, Goto, TypeOK, Procs, NoRun
<1> QED BY <1>1 DEF WorkerInv, StoreReady, NoPending, Nothing

\* The steps of UpdateIPGeoLocations, of whichever process.
LEMMA SettleOwed ==
  ASSUME TypeOK, WorkerInv, NEW p \in Ingesters \cup {Worker},
         SettleSite(p) \/ SettleDone(p) \/ SettleFails(p)
  PROVE  WorkerInv'
<1> p \in Procs /\ Worker \in Procs
  BY DEF Procs
<1> run.owed \subseteq Rows /\ (run' = run => run'.owed = run.owed)
  BY DEF TypeOK, Runs
<1>1. CASE SettleSite(p)
  <2>1. PICK s \in sites[p] : /\ label' = Settled(s, found[p])
                              /\ sites' = [sites EXCEPT ![p] = @ \ {s}]
    BY <1>1 DEF SettleSite
  <2>2. ASSUME NEW r \in Rows
        PROVE  /\ label[r] # "absent" => label'[r] # "absent"
               /\ label'[r] = "pending" => label[r] = "pending"
               /\ label'[r] = "pending" /\ r.site = s => found[p][r.ip] \in {"none", "pending"}
    <3>1. found[p][r.ip] # "absent"
      BY DEF TypeOK, Entries, Answers
    <3> QED BY <2>1, <3>1, SettledPending
  <2>3. UNCHANGED <<pc, found, missing, run>>
    BY <1>1 DEF SettleSite
  <2>4. CASE p = Worker
    <3>1. pc[Worker] \in {"settle", "resettle"} /\ sites'[Worker] = sites[Worker] \ {s}
      BY <1>1, <2>1, <2>4 DEF SettleSite, TypeOK
    <3>2. ASSUME NEW r \in run.owed
          PROVE  Owed(r)'
      <4>1. found[Worker][r.ip] # "pending"
        BY DEF WorkerInv, NoPending
      <4> QED BY <2>2, <2>3, <2>4, <3>1, <4>1 DEF WorkerInv, Owed
    <3> QED BY <2>3, <3>2 DEF WorkerInv, StoreReady, NoPending
  <2>5. CASE p # Worker
    <3>1. Same(Worker)
      BY <2>1, <2>3, <2>5 DEF Same, TypeOK
    <3> QED BY <2>2, <2>3, <3>1, WorkerKeeps
  <2> QED BY <2>4, <2>5
<1>2. CASE SettleDone(p) \/ SettleFails(p)
  <2>1. label' = label
    BY <1>2 DEF SettleDone, SettleFails, tables
  <2>2. CASE p # Worker
    <3>1. Same(Worker) /\ run' = run
      <4>1. IngestStep(p)
        BY <1>2 DEF IngestStep
      <4>2. Same(Worker)
        BY <2>2, <4>1, OthersSame
      <4> QED BY <1>2, <2>2, <4>2 DEF SettleDone, SettleFails, locals, Leave
    <3> QED BY <2>1, <3>1, WorkerKeeps
  <2>3. CASE p = Worker /\ ~Leave(Worker)
    <3>1. /\ pc' = [pc EXCEPT ![Worker] = AfterSettle(Worker)] /\ UNCHANGED locals
          /\ pc[Worker] = "resettle" \/ (pc[Worker] = "settle" /\ sites[Worker] = {})
      <4>1. CASE SettleDone(Worker)
        BY <4>1 DEF SettleDone, Goto
      <4>2. CASE SettleFails(Worker)
        <5>1. pc[Worker] # "settle"
          BY <2>3, <4>2 DEF SettleFails
        <5> QED BY <4>2, <5>1 DEF SettleFails, Goto
      <4>3. SettleDone(Worker) \/ SettleFails(Worker)
        BY <1>2, <2>3
      <4> QED BY <4>1, <4>2, <4>3
    <3>2. /\ pc'[Worker] \in {"dequeue", "requeue"}
          /\ pc'[Worker] = "dequeue" => pc[Worker] = "settle" /\ sites[Worker] = {}
      BY <3>1 DEF AfterSettle, TypeOK
    <3>3. \A r \in run.owed : Owed(r)'
      BY <2>1, <3>2, <3>1 DEF WorkerInv, Owed, locals
    <3> QED BY <3>1, <3>2, <3>3 DEF WorkerInv, StoreReady, NoPending, locals
  <2>4. CASE p = Worker /\ Leave(Worker)
    BY <2>4, LeaveWorker
  <2> QED BY <2>2, <2>3, <2>4
<1> QED BY <1>1, <1>2

\* The worker reads the cache: each IP has an entry or stays among the missing.
LEMMA LookupOwed ==
  ASSUME TypeOK, WorkerInv, ReadCache(Worker) \/ ReadCacheFails(Worker)
  PROVE  WorkerInv'
<1> Worker \in Procs
  BY DEF Procs
<1>1. run' = run /\ label' = label /\ pc[Worker] = "lookup"
  BY DEF ReadCache, ReadCacheFails, tables
<1>2. \A r \in run.owed : r \in Rows /\ r.ip \in missing[Worker] /\ label[r] # "absent"
  BY <1>1 DEF WorkerInv, Owed, TypeOK, Runs
<1>3. CASE ReadCache(Worker)
  <2> DEFINE hits == {ip \in missing[Worker] : Useful(ip)}
             map == [ip \in IPs |-> IF ip \in hits THEN Entry(ip) ELSE "none"]
  <2>1. /\ found'[Worker] = map /\ missing'[Worker] = missing[Worker] \ hits
        /\ sites'[Worker] = SitesFor(map)
        /\ pc'[Worker] = IF missing[Worker] \ hits # {} THEN "resolve" ELSE "settle"
    BY <1>3 DEF ReadCache, TypeOK, Goto, AfterLookup
  <2>2. \A ip \in IPs : /\ map[ip] # "pending"
                        /\ ip \in hits => map[ip] # "none" /\ map # Nothing
    <3>1. ASSUME NEW ip \in IPs
          PROVE  /\ map[ip] # "pending"
                 /\ ip \in hits => map[ip] # "none"
      BY EntryType DEF Useful
    <3> HIDE DEF map
    <3> QED BY <3>1 DEF Nothing
  <2> HIDE DEF map
  <2>3. ASSUME NEW r \in run.owed
        PROVE  Owed(r)'
    <3>1. CASE r.ip \in hits
      <4>1. map[r.ip] # "none" /\ sites'[Worker] = Sites
        BY <1>2, <2>1, <2>2, <3>1 DEF SitesFor
      <4> QED BY <1>1, <1>2, <2>1, <4>1 DEF Owed
    <3>2. CASE r.ip \notin hits
      BY <1>1, <1>2, <2>1, <3>2 DEF Owed
    <3> QED BY <3>1, <3>2
  <2> QED BY <1>1, <2>1, <2>2, <2>3 DEF WorkerInv, StoreReady, NoPending
<1>4. CASE ReadCacheFails(Worker)
  <2>1. /\ found'[Worker] = Nothing /\ missing' = missing
        /\ pc'[Worker] = IF missing[Worker] # {} THEN "resolve" ELSE "settle"
    BY <1>4 DEF ReadCacheFails, TypeOK, Goto, AfterLookup
  <2>2. \A r \in run.owed : Owed(r)'
    BY <1>1, <1>2, <2>1 DEF Owed
  <2> QED BY <1>1, <2>1, <2>2 DEF WorkerInv, StoreReady, NoPending, Nothing
<1> QED BY <1>3, <1>4

LEMMA ResolveOwed ==
  ASSUME TypeOK, WorkerInv, Resolve
  PROVE  WorkerInv'
<1> Worker \in Procs
  BY DEF Procs
<1> DEFINE asked == missing[Worker]
<1>1. PICK good \in SUBSET asked, bad \in SUBSET asked, down \in BOOLEAN :
        LET map == [ip \in IPs |-> IF ip \in good THEN "auto"
                                   ELSE IF ip \in asked THEN "unknown"
                                   ELSE found[Worker][ip]]
        IN /\ found' = [found EXCEPT ![Worker] = map]
           /\ sites' = [sites EXCEPT ![Worker] = SitesFor(map)]
           /\ run' = [run EXCEPT !.failing = bad, !.down = down]
  BY DEF Resolve
<1> DEFINE map == [ip \in IPs |-> IF ip \in good THEN "auto"
                                  ELSE IF ip \in asked THEN "unknown"
                                  ELSE found[Worker][ip]]
<1>2. /\ found'[Worker] = map /\ sites'[Worker] = SitesFor(map) /\ missing' = missing
      /\ run'.owed = run.owed /\ label' = label
      /\ pc'[Worker] = "store" /\ pc[Worker] = "resolve"
  BY <1>1 DEF Resolve, TypeOK, Goto, tables, Runs
<1>3. /\ \A ip \in asked : map[ip] \in {"unknown", "auto"}
      /\ \A ip \in IPs : map[ip] # "pending"
      /\ \A ip \in IPs : found[Worker][ip] # "none" => map[ip] # "none"
  BY DEF WorkerInv, NoPending, TypeOK
<1> HIDE DEF map
<1>4. ASSUME NEW r \in run.owed
      PROVE  Owed(r)'
  <2>1. r.ip \in IPs /\ label[r] # "absent" /\ (r.ip \in asked \/ found[Worker][r.ip] # "none")
    BY <1>2 DEF WorkerInv, Owed, TypeOK, Runs
  <2>2. map[r.ip] # "none" /\ map # Nothing
    BY <1>3, <2>1 DEF Nothing
  <2> QED BY <1>2, <2>1, <2>2 DEF Owed, SitesFor
<1> QED BY <1>2, <1>3, <1>4 DEF WorkerInv, StoreReady, NoPending

\* The other steps of the worker.
LEMMA WorkerOwed ==
  ASSUME TypeOK, WorkerInv,
         \/ Start(TRUE) \/ Start(FALSE) \/ Count \/ GiveUp \/ Fetch \/ Store
         \/ Record \/ Dequeue \/ Forget \/ Collect \/ Relookup \/ Enqueue(Worker)
  PROVE  WorkerInv'
<1> Worker \in Procs
  BY DEF Procs
<1>1. ASSUME UNCHANGED <<label, locals>>, NEW step \in {"settle", "record", "forget", "collect", "fetch"},
             Goto(Worker, step),
             step = "settle" => pc[Worker] \in {"store", "record"},
             step = "record" => pc[Worker] = "store"
      PROVE  WorkerInv'
  <2>1. pc'[Worker] = step
    BY <1>1 DEF Goto, TypeOK
  <2>2. StoreReady' /\ NoPending'
    BY <1>1, <2>1 DEF WorkerInv, StoreReady, NoPending, locals
  <2>3. \A r \in run.owed : r \in Rows /\ r.site \in Sites
    BY DEF TypeOK, Runs
  <2>4. \A r \in run.owed : Owed(r)'
    BY <1>1, <2>1, <2>3 DEF WorkerInv, Owed, locals
  <2> QED BY <1>1, <2>2, <2>4 DEF WorkerInv, locals
<1>2. ASSUME NEW limited \in BOOLEAN, Start(limited)
      PROVE  WorkerInv'
  <2>1. pc'[Worker] = "count" /\ run'.owed = {} /\ found' = found
    BY <1>2 DEF Start, Goto, TypeOK, NoRun
  <2> QED BY <2>1 DEF WorkerInv, StoreReady, NoPending
<1>3. CASE Count
  BY <1>1, <1>3 DEF Count, tables
<1>4. CASE Store
  BY <1>1, <1>4 DEF Store
<1>5. CASE Record
  BY <1>1, <1>5 DEF Record
<1>6. CASE Dequeue
  BY <1>1, <1>6 DEF Dequeue
<1>7. CASE GiveUp \/ Forget \/ Enqueue(Worker)
  BY <1>7, LeaveWorker DEF GiveUp, Forget, Enqueue
<1>8. CASE Fetch /\ ~Leave(Worker)
  <2>1. PICK batch \in SUBSET IPs :
          /\ missing' = [missing EXCEPT ![Worker] = batch]
          /\ run' = [run EXCEPT !.owed =
                       {r \in Rows : label[r] = "pending" /\ r.ip \in batch}]
          /\ pc' = [pc EXCEPT ![Worker] = "lookup"]
          /\ UNCHANGED <<found, sites>>
    BY <1>8 DEF Fetch, TypeOK, Goto
  <2>2. /\ pc'[Worker] = "lookup" /\ missing'[Worker] = batch /\ label' = label
        /\ run'.owed = {r \in Rows : label[r] = "pending" /\ r.ip \in batch}
    BY <1>8, <2>1 DEF Fetch, TypeOK, Runs, tables
  <2>3. \A r \in run'.owed : Owed(r)'
    BY <2>2 DEF Owed
  <2> QED BY <2>1, <2>2, <2>3 DEF WorkerInv, StoreReady, NoPending
<1>9. CASE Collect /\ ~Leave(Worker)
  <2>1. pc'[Worker] = "relookup" /\ UNCHANGED <<found, sites, run, label>> /\ pc[Worker] = "collect"
    BY <1>9 DEF Collect, Goto, TypeOK, tables
  <2>2. \A r \in run.owed : Owed(r)'
    BY <2>1 DEF WorkerInv, Owed
  <2> QED BY <2>1, <2>2 DEF WorkerInv, StoreReady, NoPending
<1>10. CASE Relookup
  <2>1. PICK hits \in SUBSET missing[Worker] :
          found' = [found EXCEPT ![Worker] =
                      [ip \in IPs |-> IF ip \in hits THEN Entry(ip) ELSE "none"]]
    BY <1>10 DEF Relookup
  <2>2. \A ip \in IPs : found'[Worker][ip] # "pending"
    BY <2>1, EntryType DEF TypeOK
  <2>3. pc'[Worker] = "resettle" /\ UNCHANGED <<run, label>> /\ pc[Worker] = "relookup"
    BY <1>10 DEF Relookup, Goto, TypeOK, tables
  <2>4. \A r \in run.owed : Owed(r)'
    BY <2>3 DEF WorkerInv, Owed
  <2> QED BY <2>2, <2>3, <2>4 DEF WorkerInv, StoreReady, NoPending
<1>11. CASE Leave(Worker)
  BY <1>11, LeaveWorker
<1> QED BY <1>2, <1>3, <1>4, <1>5, <1>6, <1>7, <1>8, <1>9, <1>10, <1>11

LEMMA OthersOwed ==
  ASSUME TypeOK, WorkerInv,
         \/ KickRefused \/ CoolDown \/ Crash \/ UNCHANGED vars
         \/ \E p \in Ingesters : \/ Insert(p) \/ ReadCache(p) \/ ReadCacheFails(p)
                                 \/ Enqueue(p)
         \/ \E h \in Handlers : \/ HandlerStep(h)
                                \/ \E ip \in IPs : Save(h, ip) \/ Reset(h, ip)
  PROVE  WorkerInv'
<1> Worker \in Procs
  BY DEF Procs
<1>1. CASE KickRefused \/ CoolDown \/ UNCHANGED vars
  <2>1. UNCHANGED <<pc, locals, label>>
    BY <1>1 DEF KickRefused, CoolDown, vars, tables
  <2> QED BY <2>1, WorkerKeeps DEF Same, locals
<1>2. CASE Crash
  <2>1. pc'[Worker] = "idle" /\ found'[Worker] = Nothing /\ run'.owed = {}
    BY <1>2 DEF Crash, NoRun
  <2> QED BY <2>1 DEF WorkerInv, StoreReady, NoPending, Nothing
<1>3. ASSUME NEW p \in Ingesters,
             Insert(p) \/ ReadCache(p) \/ ReadCacheFails(p) \/ Enqueue(p)
      PROVE  WorkerInv'
  <2>1. p \in Procs /\ Worker \in Procs \ {p}
    BY DEF Procs
  <2>2. Same(Worker)
    BY <1>3, <2>1, OthersSame DEF IngestStep
  <2>3. run' = run
    BY <1>3, <2>1 DEF Insert, ReadCache, ReadCacheFails, Enqueue, Leave
  <2>4. CASE Insert(p)
    <3>1. PICK s \in Sites :
            \E batch \in SUBSET {r \in Rows : r.site = s /\ label[r] = "absent"} :
              label' = [r \in Rows |-> IF r \in batch THEN "pending" ELSE label[r]]
      BY <2>4 DEF Insert
    <3>2. \A r \in Rows : label[r] # "absent" => label'[r] = label[r]
      BY <3>1
    <3>3. \A r \in run.owed : r \in Rows /\ label[r] # "absent"
      BY DEF WorkerInv, Owed, TypeOK, Runs
    <3> QED BY <2>2, <2>3, <3>2, <3>3, WorkerKeeps
  <2>5. CASE ~Insert(p)
    <3>1. label' = label
      BY <1>3, <2>5 DEF ReadCache, ReadCacheFails, Enqueue, tables
    <3> QED BY <2>2, <2>3, <3>1, WorkerKeeps
  <2> QED BY <2>4, <2>5
<1>4. ASSUME NEW h \in Handlers, HandlerStep(h) \/ \E ip \in IPs : Save(h, ip) \/ Reset(h, ip)
      PROVE  WorkerInv'
  <2>1. h \in Procs /\ Worker \in Procs \ {h}
    BY DEF Procs
  <2>2. Same(Worker)
    BY <1>4, <2>1, OthersSame
  <2>3. CASE RelabelSite(h)
    <3>1. PICK s \in sites[h] :
            /\ label' = [r \in Rows |-> IF r \in Relabel(h, s) THEN found[h][r.ip]
                                        ELSE label[r]]
            /\ run' = [run EXCEPT !.owed = @ \ Relabel(h, s)]
      BY <2>3 DEF RelabelSite
    <3>2. run'.owed = run.owed \ Relabel(h, s) /\ run.owed \subseteq Rows
      BY <3>1 DEF TypeOK, Runs
    <3>3. \A r \in run'.owed : label'[r] = label[r]
      BY <3>1, <3>2
    <3> QED BY <2>2, <3>2, <3>3, WorkerKeeps
  <2>4. CASE ~RelabelSite(h)
    <3>1. label' = label /\ run' = run
      BY <1>4, <2>1, <2>4 DEF HandlerStep, Save, Reset, Edit, Unqueue, Effective, RelabelDone,
                         MarkQueue, HandlerFails, Leave, tables, locals
    <3> QED BY <2>2, <3>1, WorkerKeeps
  <2> QED BY <2>3, <2>4
<1> QED BY <1>1, <1>2, <1>3, <1>4

LEMMA WorkerInvStep == TypeOK /\ WorkerInv /\ [Next]_vars => WorkerInv'
<1> SUFFICES ASSUME TypeOK, WorkerInv, [Next]_vars
             PROVE  WorkerInv'
  OBVIOUS
<1>1. CASE WorkerStep \/ Start(TRUE)
  BY <1>1, SettleOwed, LookupOwed, ResolveOwed, WorkerOwed DEF WorkerStep, IngestStep
<1>2. ASSUME NEW p \in Ingesters, Insert(p) \/ IngestStep(p)
      PROVE  WorkerInv'
  BY <1>2, SettleOwed, OthersOwed DEF IngestStep
<1>3. CASE ~(WorkerStep \/ Start(TRUE)) /\ ~\E p \in Ingesters : Insert(p) \/ IngestStep(p)
  BY <1>3, OthersOwed DEF Next
<1> QED BY <1>1, <1>2, <1>3

----------------------------------------------------------------------------
(* THE HANDLER'S LABEL                                                      *)

\* What a handler is about to write over the rows of an IP with an override
\* is the override.
HandlerMatch ==
  \A h \in Handlers : pc[h] \in {"unqueue", "mark", "markQueue", "apply"} =>
    \A ip \in missing[h] \cap overrides : found[h][ip] = "manual"

OneHandler == \A g, h \in Handlers : g = h

LEMMA HandlerInit == Init => HandlerReady /\ HandlerMatch
  BY DEF Init, HandlerReady, HandlerMatch, Procs

\* A step that leaves one handler's locals; an override that appears or goes
\* may only be its own.
LEMMA HandlerSame ==
  ASSUME NEW h \in Handlers, Same(h)
  PROVE  /\ HandlerReady =>
              (pc[h] \in {"unqueue", "mark", "markQueue", "apply"} =>
                 \A ip \in missing[h] : found[h][ip] \in Answers \cup {"pending"})'
         /\ HandlerMatch /\ overrides' = overrides =>
              (pc[h] \in {"unqueue", "mark", "markQueue", "apply"} =>
                 \A ip \in missing[h] \cap overrides : found[h][ip] = "manual")'
  BY DEF HandlerReady, HandlerMatch, Same

\* A step of the handler itself.
LEMMA HandlerOwn ==
  ASSUME TypeOK, HandlerReady, NEW h \in Handlers,
         HandlerStep(h) \/ \E ip \in IPs : Save(h, ip) \/ Reset(h, ip)
  PROVE  /\ (pc[h] \in {"unqueue", "mark", "markQueue", "apply"} =>
               \A ip \in missing[h] : found[h][ip] \in Answers \cup {"pending"})'
         /\ HandlerMatch =>
              (pc[h] \in {"unqueue", "mark", "markQueue", "apply"} =>
                 \A ip \in missing[h] \cap overrides : found[h][ip] = "manual")'
<1> h \in Procs
  BY DEF Procs
<1>1. CASE Leave(h)
  BY <1>1 DEF Leave, Goto, TypeOK
<1>2. ASSUME NEW ip \in IPs, Save(h, ip)
      PROVE  missing'[h] = {ip} /\ found'[h][ip] = "manual"
  BY <1>2 DEF Save, Edit, TypeOK, Nothing
<1>3. ASSUME NEW ip \in IPs, Reset(h, ip)
      PROVE  pc'[h] = "effective"
  BY <1>3 DEF Reset, Goto, TypeOK
<1>4. CASE Effective(h)
  <2> DEFINE entry(ip) == IF Entry(ip) = "none" THEN "pending" ELSE Entry(ip)
             map == [ip \in IPs |-> IF ip \in missing[h] THEN entry(ip) ELSE "none"]
  <2>1. found'[h] = map /\ missing' = missing /\ overrides' = overrides
    BY <1>4 DEF Effective, TypeOK, tables
  <2>2. missing[h] \subseteq IPs
    BY DEF TypeOK
  <2>3. ASSUME NEW ip \in missing[h]
        PROVE  /\ map[ip] \in Answers \cup {"pending"}
               /\ ip \in overrides => map[ip] = "manual"
    BY <2>2, EntryType DEF Entry, Answers
  <2> HIDE DEF map
  <2> QED BY <2>1, <2>3
<1>5. CASE Unqueue(h) \/ RelabelSite(h) \/ RelabelDone(h) \/ MarkQueue(h)
  <2>1. CASE ~Leave(h)
    <3>1. /\ pc[h] \in {"unqueue", "mark", "markQueue", "apply"}
          /\ UNCHANGED <<found, missing, overrides>>
      BY <1>5, <2>1 DEF Unqueue, RelabelSite, RelabelDone, MarkQueue, tables, locals
    <3> QED BY <3>1 DEF HandlerReady, HandlerMatch
  <2> QED BY <1>1, <2>1
<1>6. CASE HandlerFails(h)
  BY <1>1, <1>6 DEF HandlerFails
<1> QED BY <1>2, <1>3, <1>4, <1>5, <1>6 DEF HandlerStep, Answers

\* Of all the processes only the handlers change the overrides.
LEMMA OverridesKept ==
  ASSUME TypeOK, [Next]_vars,
         ~\E h \in Handlers : HandlerStep(h) \/ \E ip \in IPs : Save(h, ip) \/ Reset(h, ip)
  PROVE  overrides' = overrides
  BY DEF Next, WorkerStep, IngestStep, Insert, ReadCache, ReadCacheFails, SettleSite, SettleDone,
         SettleFails, Enqueue, Start, Count, GiveUp, Fetch, Resolve, Store, Record, Dequeue,
         Forget, Collect, Relookup, KickRefused, CoolDown, Crash, vars, tables

\* The step of another process leaves a handler's locals, unless it is a crash.
LEMMA HandlersSame ==
  ASSUME TypeOK, [Next]_vars, ~Crash, NEW h \in Handlers,
         ~(HandlerStep(h) \/ \E ip \in IPs : Save(h, ip) \/ Reset(h, ip))
  PROVE  Same(h)
<1> h \in Procs /\ Worker \in Procs /\ Worker # h /\ h \notin Ingesters
  BY DEF Procs
<1>1. CASE WorkerStep \/ Start(TRUE)
  BY <1>1, OthersSame
<1>2. ASSUME NEW p \in Ingesters, Insert(p) \/ IngestStep(p)
      PROVE  Same(h)
  BY <1>2, OthersSame DEF Procs
<1>3. ASSUME NEW g \in Handlers, HandlerStep(g) \/ \E ip \in IPs : Save(g, ip) \/ Reset(g, ip)
      PROVE  Same(h)
  BY <1>3, OthersSame DEF Procs
<1>4. CASE KickRefused \/ CoolDown \/ UNCHANGED vars
  BY <1>4 DEF KickRefused, CoolDown, vars, Same, locals
<1> QED BY <1>1, <1>2, <1>3, <1>4 DEF Next

LEMMA ReadyStep == TypeOK /\ HandlerReady /\ [Next]_vars => HandlerReady'
<1> SUFFICES ASSUME TypeOK, HandlerReady, [Next]_vars, NEW h \in Handlers
             PROVE  (pc[h] \in {"unqueue", "mark", "markQueue", "apply"} =>
                       \A ip \in missing[h] : found[h][ip] \in Answers \cup {"pending"})'
  BY DEF HandlerReady
<1>1. CASE Crash
  BY <1>1 DEF Crash, Procs
<1> QED BY <1>1, HandlersSame, HandlerSame, HandlerOwn

LEMMA MatchStep ==
  OneHandler /\ TypeOK /\ HandlerReady /\ HandlerMatch /\ [Next]_vars => HandlerMatch'
<1> SUFFICES ASSUME OneHandler, TypeOK, HandlerReady, HandlerMatch, [Next]_vars,
                    NEW h \in Handlers
             PROVE  (pc[h] \in {"unqueue", "mark", "markQueue", "apply"} =>
                       \A ip \in missing[h] \cap overrides : found[h][ip] = "manual")'
  BY DEF HandlerMatch
<1>1. CASE Crash
  BY <1>1 DEF Crash, Procs
<1>2. CASE HandlerStep(h) \/ \E ip \in IPs : Save(h, ip) \/ Reset(h, ip)
  BY <1>2, HandlerOwn
<1>3. CASE ~Crash /\ ~(HandlerStep(h) \/ \E ip \in IPs : Save(h, ip) \/ Reset(h, ip))
  <2>1. overrides' = overrides
    BY <1>3, OverridesKept DEF OneHandler
  <2> QED BY <1>3, <2>1, HandlersSame, HandlerSame
<1> QED BY <1>1, <1>2, <1>3

----------------------------------------------------------------------------
(* THEOREMS                                                                 *)

IndInv == TypeOK /\ WorkerInv /\ HandlerReady

LEMMA IndStep == IndInv /\ [Next]_vars => IndInv'
  BY StepType, WorkerInvStep, ReadyStep DEF IndInv, WorkerInv

(* Every table, label and local variable keeps its type: no row ever shows   *)
(* "none", and what goes into the cache is an answer.                       *)
THEOREM TypeCorrect == Spec => []TypeOK
<1>1. Init => IndInv
  BY InitType, WorkerInit, HandlerInit DEF IndInv
<1>2. IndInv => TypeOK
  BY DEF IndInv
<1> QED BY <1>1, <1>2, IndStep, PTL DEF Spec

(* An IP leaves the queue only when every row of it that was pending when it  *)
(* was fetched shows a location, whatever failed and whoever inserted,      *)
(* looked up or edited in between (ip_geo_worker.go:265-280).                *)
THEOREM LabelledBeforeDequeue == Spec => []DequeuedAfterLabelling
<1>1. Init => IndInv
  BY InitType, WorkerInit, HandlerInit DEF IndInv
<1>2. IndInv => DequeuedAfterLabelling
  BY DEF IndInv, WorkerInv, Owed, DequeuedAfterLabelling
<1> QED BY <1>1, <1>2, IndStep, PTL DEF Spec

(* While one request at a time edits overrides, a row that shows the user's  *)
(* label keeps it as long as the override stands (handler.go:663-746).       *)
THEOREM ManualLabelStays == ASSUME OneHandler PROVE Spec => ManualStays
<1>1. Init => IndInv /\ HandlerMatch
  BY InitType, WorkerInit, HandlerInit DEF IndInv
<1>2. IndInv /\ HandlerMatch /\ [Next]_vars => (IndInv /\ HandlerMatch)'
  BY IndStep, MatchStep DEF IndInv
<1>3. IndInv /\ HandlerMatch /\ [Next]_vars =>
        [\A r \in Rows : label[r] = "manual" /\ r.ip \in overrides /\ r.ip \in overrides'
           => label'[r] = "manual"]_vars
  <2> SUFFICES ASSUME TypeOK, HandlerMatch, Next, NEW r \in Rows,
                      label[r] = "manual", r.ip \in overrides
               PROVE  label'[r] = "manual"
    BY DEF IndInv
  <2>1. ASSUME NEW p, SettleSite(p)
        PROVE  label'[r] = "manual"
    BY <2>1 DEF SettleSite, Settled
  <2>2. ASSUME NEW p, Insert(p)
        PROVE  label'[r] = "manual"
    <3>1. PICK s \in Sites :
            \E batch \in SUBSET {q \in Rows : q.site = s /\ label[q] = "absent"} :
              label' = [q \in Rows |-> IF q \in batch THEN "pending" ELSE label[q]]
      BY <2>2 DEF Insert
    <3> QED BY <3>1
  <2>3. ASSUME NEW h \in Handlers, RelabelSite(h)
        PROVE  label'[r] = "manual"
    <3>1. PICK s \in sites[h] :
            label' = [q \in Rows |-> IF q \in Relabel(h, s) THEN found[h][q.ip]
                                     ELSE label[q]]
      BY <2>3 DEF RelabelSite
    <3>2. r \in Relabel(h, s) => found[h][r.ip] = "manual"
      BY <2>3 DEF RelabelSite, Relabel, HandlerMatch
    <3> QED BY <3>1, <3>2
  <2>4. CASE label' = label
    BY <2>4
  <2>5. \/ \E p : SettleSite(p) \/ Insert(p)
        \/ \E h \in Handlers : RelabelSite(h)
        \/ label' = label
    BY DEF Next, WorkerStep, HandlerStep, IngestStep, ReadCache, ReadCacheFails, SettleDone,
           SettleFails, Enqueue, Start, Count, GiveUp, Fetch, Resolve, Store, Record, Dequeue,
           Forget, Collect, Relookup, KickRefused, CoolDown, Crash, tables, Save, Reset, Edit,
           Unqueue, Effective, RelabelDone, MarkQueue, HandlerFails
  <2> QED BY <2>1, <2>2, <2>3, <2>4, <2>5
<1> QED BY <1>1, <1>2, <1>3, PTL DEF Spec, ManualStays
=============================================================================
