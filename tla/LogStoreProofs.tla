--------------------------- MODULE LogStoreProofs ---------------------------
(***************************************************************************)
(* Proofs about LogStore, for any lines, batches, workers, ranges, failures *)
(* and crashes: the ids that the addresses and pages of the rows have, what a *)
(* transaction inserts of its batch, that the transactions and the jobs *)
(* together do what StoreContract promises, that the tables derived from *)
(* the rows are what a recount would make them, and that the sessions, which are *)
(* kept visit by visit, are sound. *)
(***************************************************************************)
EXTENDS LogStore, DerivedTablesProofs

USE LinesAssumption

----------------------------
(* THE INVARIANT *)

Phases == {"idle", "dims", "rows", "visits"}
Fields == {"phase", "batch", "at", "attempt", "ids", "fresh", "mine", "visits",
           "keys", "cache", "new", "upd"}

\* What a transaction has read and written so far.
TxShape(t) ==
  /\ DOMAIN t = Fields
  /\ t.phase \in Phases
  /\ t.batch \in Seq(Lines) /\ (t.phase # "idle" => t.batch # <<>>)
  /\ t.at \in Nat
  /\ t.ids \in [Names -> Nat]
  /\ t.fresh \subseteq Names
  /\ t.phase = "idle" => t.ids = NoIds /\ t.fresh = {} /\ t.mine = {}

\* While a database of an earlier version waits for its migration nothing else
\* has happened.
OldFirst ==
  old # {} => /\ job = StartJob /\ rows = {}
              /\ \A w \in Workers : tx[w].phase = "idle"

Lefts == [of : SUBSET Batches, batches : Int, jobs : Int, faults : Int]

Shape ==
  /\ dims \in [Names -> Nat] /\ nextId \in Nat \ {0}
  /\ \A v \in Names : dims[v] < nextId
  /\ old \subseteq OldLines
  /\ left \in Lefts
  /\ tx = [w \in Workers |-> tx[w]]
  /\ \A w \in Workers : TxShape(tx[w])
  /\ \A w \in Workers : \A v \in Names : tx[w].ids[v] < nextId
  /\ OldFirst

----------------------------
(* WHAT THE STEPS CHANGE *)

LEMMA NamesOf == \A l \in Lines : l.ip \in Names /\ l.url \in Names
  BY DEF Names

LEMMA OldLinesOf == OldLines \subseteq Lines
  BY DEF Lines

LEMMA IdleShape == TxShape(Idle) /\ Idle.ids = NoIds /\ \A v \in Names : NoIds[v] = 0
<1>1. NoIds \in [Names -> Nat] /\ \A v \in Names : NoIds[v] = 0
  BY DEF NoIds
<1>2. <<>> \in Seq(Lines)
  OBVIOUS
<1> QED BY <1>1, <1>2 DEF TxShape, Idle, Fields, Phases

\* The order of the locks rearranges the batch.
LEMMA SortedShape ==
  ASSUME NEW b \in Seq(Lines) \ {<<>>}, NEW s \in SortForLocking(b)
  PROVE  s \in Seq(Lines) \ {<<>>}
<1>1. PICK p \in [DOMAIN b -> DOMAIN b] : s = [k \in DOMAIN b |-> b[p[k]]]
  BY DEF SortForLocking, Injection
<1>2. DOMAIN b = 1..Len(b) /\ Len(b) \in Nat \ {0} /\ \A i \in 1..Len(b) : b[i] \in Lines
  OBVIOUS
<1>3. \A k \in 1..Len(b) : p[k] \in 1..Len(b)
  BY <1>1, <1>2
<1>4. s = [k \in 1..Len(b) |-> b[p[k]]]
  BY <1>1, <1>2
<1>5. s \in [1..Len(b) -> Lines]
  BY <1>2, <1>3, <1>4
<1>6. s \in Seq(Lines) /\ Len(s) = Len(b)
  <2>1. \A m \in Nat : \A S : \A f \in [1..m -> S] : f \in Seq(S) /\ Len(f) = m
    OBVIOUS
  <2> QED BY <1>2, <1>5, <2>1
<1> QED BY <1>2, <1>6

LEMMA AttemptShape ==
  ASSUME NEW s \in Seq(Lines) \ {<<>>}, NEW n
  PROVE  LET t == Attempt(s, n)
         IN  /\ TxShape(t) /\ t.phase = "dims" /\ t.at = 1 /\ t.ids = NoIds
             /\ t.fresh = {} /\ t.mine = {} /\ t.batch = s
<1>1. NoIds \in [Names -> Nat]
  BY DEF NoIds
<1> QED BY <1>1 DEF TxShape, Attempt, Idle, Fields, Phases

\* The transactions of the others, and of w at its next step.
Only(w) ==
  /\ tx' = [u \in Workers |-> tx'[u]]
  /\ \A u \in Workers \ {w} : tx'[u] = tx[u]

LEMMA BeginSteps ==
  ASSUME Shape, NEW w \in Workers, Begin(w)
  PROVE  /\ Only(w)
         /\ \E s \in Seq(Lines) \ {<<>>} : tx'[w] = Attempt(s, 1)
<1>1. PICK b \in left.of : \E s \in SortForLocking(b) : tx' = [tx EXCEPT ![w] = Attempt(s, 1)]
  BY DEF Begin
<1>2. PICK s \in SortForLocking(b) : tx' = [tx EXCEPT ![w] = Attempt(s, 1)]
  BY <1>1
<1>3. b \in Seq(Lines) \ {<<>>}
  BY DEF Shape, Lefts
<1>4. s \in Seq(Lines) \ {<<>>}
  BY <1>3, SortedShape
<1>5. Only(w) /\ tx'[w] = Attempt(s, 1)
  BY <1>2 DEF Shape, Only
<1> QED BY <1>4, <1>5

LEMMA AbortSteps ==
  ASSUME Shape, NEW w \in Workers, DeadlockVictim(w) \/ Fail(w)
  PROVE  /\ Only(w)
         /\ \/ tx'[w] = Idle
            \/ \E s \in Seq(Lines) \ {<<>>}, n \in {tx[w].attempt + 1} : tx'[w] = Attempt(s, n)
         /\ tx[w].phase # "idle"
<1>1. CASE Fail(w)
  <2>1. tx' = [tx EXCEPT ![w] = Idle] /\ tx[w].phase # "idle"
    BY <1>1 DEF Fail
  <2> QED BY <2>1 DEF Shape, Only
<1>2. CASE DeadlockVictim(w)
  <2>1. tx[w].phase # "idle"
    BY <1>2 DEF DeadlockVictim, Deadlocked, Waits
  <2>2. tx[w].batch \in Seq(Lines) \ {<<>>}
    BY <2>1 DEF Shape, TxShape
  <2>3. tx' = [tx EXCEPT ![w] = IF tx[w].attempt < MaxAttempts
                                THEN Attempt(tx[w].batch, tx[w].attempt + 1) ELSE Idle]
    BY <1>2 DEF DeadlockVictim, Shape
  <2>4. Only(w)
    BY <2>3 DEF Shape, Only
  <2>5. tx'[w] = IF tx[w].attempt < MaxAttempts
                 THEN Attempt(tx[w].batch, tx[w].attempt + 1) ELSE Idle
    BY <2>3 DEF Shape
  <2> QED BY <2>1, <2>2, <2>4, <2>5
<1> QED BY <1>1, <1>2

\* A transaction that looks for an id.
LEMMA DimSteps ==
  ASSUME Shape, NEW w \in Workers, GetOrCreateDimID(w)
  PROVE  LET t == tx[w]
             v == NextName(t)
             id == IdFor(t, v)
             n == tx'[w]
         IN  /\ Only(w) /\ t.phase = "dims" /\ DOMAIN n = Fields
             /\ n.batch = t.batch /\ n.mine = t.mine /\ n.at = t.at + 1
             /\ n.ids = [t.ids EXCEPT ![v] = id]
             /\ n.fresh = IF id = nextId THEN t.fresh \cup {v} ELSE t.fresh
             /\ n.phase = IF t.at = 2 * Len(t.batch) THEN "rows" ELSE "dims"
             /\ nextId' = IF id = nextId THEN nextId + 1 ELSE nextId
             /\ \A u \in Workers : ~Waits(w, u)
<1> DEFINE t == tx[w]
           v == NextName(t)
           id == IdFor(t, v)
<1>1. tx' = [tx EXCEPT ![w].ids[v] = id,
                       ![w].fresh = IF id = nextId THEN @ \cup {v} ELSE @,
                       ![w].at = @ + 1,
                       ![w].phase = IF t.at = 2 * Len(t.batch) THEN "rows" ELSE @]
  BY DEF GetOrCreateDimID
<1>2. t.phase = "dims" /\ DOMAIN t = Fields /\ \A u \in Workers : ~Waits(w, u)
  BY DEF GetOrCreateDimID, Runs, Shape, TxShape
<1>3. nextId' = IF id = nextId THEN nextId + 1 ELSE nextId
  BY DEF GetOrCreateDimID
<1> HIDE DEF v, id
<1>4. Only(w)
  BY <1>1 DEF Only, Shape
<1>5. tx'[w] = [t EXCEPT !.ids = [@ EXCEPT ![v] = id],
                         !.fresh = IF id = nextId THEN @ \cup {v} ELSE @,
                         !.at = @ + 1,
                         !.phase = IF t.at = 2 * Len(t.batch) THEN "rows" ELSE @]
  BY <1>1, <1>2 DEF Shape, Fields
<1>6. /\ DOMAIN tx'[w] = Fields /\ tx'[w].batch = t.batch /\ tx'[w].mine = t.mine
      /\ tx'[w].ids = [t.ids EXCEPT ![v] = id]
      /\ tx'[w].fresh = IF id = nextId THEN t.fresh \cup {v} ELSE t.fresh
      /\ tx'[w].at = t.at + 1
      /\ tx'[w].phase = IF t.at = 2 * Len(t.batch) THEN "rows" ELSE "dims"
  BY <1>2, <1>5 DEF Fields
<1> QED BY <1>2, <1>3, <1>4, <1>6 DEF v, id

\* A transaction that inserts its rows, or that has inserted them.
LEMMA RowSteps ==
  ASSUME Shape, NEW w \in Workers,
         BulkInsertLogRows(w) \/ NoVisit(w) \/ VisitOpens(w) \/ VisitExtends(w)
  PROVE  LET t == tx[w]
             n == tx'[w]
         IN  /\ Only(w) /\ DOMAIN n = Fields
             /\ n.batch = t.batch /\ n.at = t.at /\ n.ids = t.ids /\ n.fresh = t.fresh
             /\ t.phase \in {"rows", "visits"} /\ n.phase = "visits"
             /\ \/ n.mine = t.mine /\ t.phase = "visits"
                \/ /\ n.mine = {RowAt(t, i) : i \in Taken(t)}
                   /\ t.phase = "rows" /\ \A u \in Workers : ~Waits(w, u)
<1> DEFINE t == tx[w]
<1> DOMAIN t = Fields
  BY DEF Shape, TxShape
<1>1. CASE BulkInsertLogRows(w)
  <2> DEFINE M == {RowAt(t, i) : i \in Taken(t)}
  <2>1. PICK V : tx' = [tx EXCEPT ![w].mine = M, ![w].visits = V, ![w].phase = "visits"]
    BY <1>1, Zenon DEF BulkInsertLogRows
  <2>2. t.phase = "rows" /\ \A u \in Workers : ~Waits(w, u)
    BY <1>1 DEF BulkInsertLogRows, Runs
  <2> HIDE DEF M
  <2>3. Only(w) /\ tx'[w] = [t EXCEPT !.mine = M, !.visits = V, !.phase = "visits"]
    BY <2>1 DEF Only, Shape
  <2> QED BY <2>2, <2>3 DEF Fields, M
<1>2. CASE NoVisit(w) \/ VisitOpens(w) \/ VisitExtends(w)
  <2>1. t.phase = "visits"
    BY <1>2, Zenon DEF NoVisit, VisitOpens, VisitExtends, Visited, Runs
  <2>2. CASE NoVisit(w)
    <3>1. \E a, b : tx' = [tx EXCEPT ![w].visits = a, ![w].keys = b]
      BY <2>2, Zenon DEF NoVisit
    <3>2. PICK a, b : tx' = [tx EXCEPT ![w].visits = a, ![w].keys = b]
      BY <3>1
    <3>3. Only(w) /\ tx'[w] = [t EXCEPT !.visits = a, !.keys = b]
      BY <3>2 DEF Only, Shape
    <3> QED BY <2>1, <3>3 DEF Fields
  <2>3. CASE VisitOpens(w)
    <3>1. \E a, b, c, d : tx' = [tx EXCEPT ![w].visits = a, ![w].keys = b, ![w].new = c, ![w].cache = d]
      BY <2>3, Zenon DEF VisitOpens
    <3>2. PICK a, b, c, d : tx' = [tx EXCEPT ![w].visits = a, ![w].keys = b, ![w].new = c, ![w].cache = d]
      BY <3>1
    <3>3. Only(w) /\ tx'[w] = [t EXCEPT !.visits = a, !.keys = b, !.new = c, !.cache = d]
      BY <3>2 DEF Only, Shape
    <3> QED BY <2>1, <3>3 DEF Fields
  <2>4. CASE VisitExtends(w)
    <3>1. \E a, b, c, d : tx' = [tx EXCEPT ![w].visits = a, ![w].keys = b, ![w].upd = c, ![w].cache = d]
      BY <2>4, Zenon DEF VisitExtends
    <3>2. PICK a, b, c, d : tx' = [tx EXCEPT ![w].visits = a, ![w].keys = b, ![w].upd = c, ![w].cache = d]
      BY <3>1
    <3>3. Only(w) /\ tx'[w] = [t EXCEPT !.visits = a, !.keys = b, !.upd = c, !.cache = d]
      BY <3>2 DEF Only, Shape
    <3> QED BY <2>1, <3>3 DEF Fields
  <2> QED BY <1>2, <2>2, <2>3, <2>4
<1> QED BY <1>1, <1>2

LEMMA CommitSteps ==
  ASSUME Shape, NEW w \in Workers, Commit(w)
  PROVE  /\ Only(w) /\ tx'[w] = Idle /\ tx[w].phase = "visits"
         /\ dims' = [v \in Names |-> IF v \in tx[w].fresh THEN tx[w].ids[v] ELSE dims[v]]
         /\ rows' = rows \cup tx[w].mine
         /\ UNCHANGED <<nextId, old, job, left, lost>>
<1>1. tx' = [tx EXCEPT ![w] = Idle]
  BY DEF Commit
<1>2. Only(w) /\ tx'[w] = Idle
  BY <1>1 DEF Only, Shape
<1> QED BY <1>2 DEF Commit

\* Only the migration comes before anything else.
LEMMA MigratesFirst ==
  ASSUME OldFirst, NEW s, s # "Migrate", At(s)
  PROVE  old = {}
  BY DEF OldFirst, StartJob, MigrateProgram, At

\* A statement takes rows away, or ids, or migrates; every other one leaves
\* the rows, the ids and the transactions alone.
Removes(I, risk) ==
  /\ dims' = [v \in Names |-> IF dims[v] \in I THEN 0 ELSE dims[v]]
  /\ lost' = lost \cup ((I \cap risk) \ {0})
  /\ UNCHANGED <<nextId, old, rows, tx, left>>
Deletes == rows' \subseteq rows /\ UNCHANGED <<dims, nextId, old, tx, left, lost>>

LEMMA StatementSteps ==
  ASSUME OldFirst, Statement
  PROVE  \/ Migrate
         \/ old = {} /\ Deletes
         \/ old = {} /\ Removes({dims[v] : v \in Names} \ IdsOf(rows), IdsHeld)
         \/ old = {} /\ Removes({dims[v] : v \in Names}, IdsHeld \cup IdsOf(rows))
<1>1. CASE DeleteOldRows \/ DeleteRows \/ DeleteRange
  <2>1. Deletes
    BY <1>1 DEF DeleteOldRows, DeleteRows, DeleteRange, RemoveRows, Advance, Deletes
  <2>2. old = {}
    BY <1>1, MigratesFirst DEF DeleteOldRows, DeleteRows, DeleteRange
  <2> QED BY <2>1, <2>2
<1>2. CASE DeleteOrphans
  BY <1>2, MigratesFirst DEF DeleteOrphans, RemoveIds, Removes, Advance
<1>3. CASE ClearDims
  BY <1>3, MigratesFirst DEF ClearDims, RemoveIds, Removes, Advance
<1>4. CASE Migrate
  BY <1>4
<1>5. CASE DeleteOldBuckets \/ RebuildHour \/ RebuildDay \/ BackfillAggregates
           \/ AggregatesIfEmpty \/ ClearAggregates
  <2>1. old = {}
    BY <1>5, MigratesFirst DEF DeleteOldBuckets, RebuildHour, RebuildDay, BackfillAggregates,
       AggregatesIfEmpty, ClearAggregates
  <2>2. UNCHANGED <<dims, nextId, old, rows, tx, left, lost>>
    BY <1>5 DEF DeleteOldBuckets, RebuildHour, RebuildDay, BackfillAggregates,
       AggregatesIfEmpty, ClearAggregates, Recount, SetCounts, Advance, history
  <2> QED BY <2>1, <2>2 DEF Deletes
<1>6. CASE BackfillFirstSeen \/ FirstSeenIfEmpty \/ ClearFirstSeen
  <2>1. old = {}
    BY <1>6, MigratesFirst DEF BackfillFirstSeen, FirstSeenIfEmpty, ClearFirstSeen
  <2>2. UNCHANGED <<dims, nextId, old, rows, tx, left, lost>>
    BY <1>6 DEF BackfillFirstSeen, FirstSeenIfEmpty, ClearFirstSeen, SetFirstSeen, Advance,
       history
  <2> QED BY <2>1, <2>2 DEF Deletes
<1>7. CASE DeleteOldSessions \/ DeleteState \/ InsertState \/ ClearSessions \/ ClearState
           \/ BackfillSessions \/ SessionsIfEmpty
  <2>1. old = {}
    BY <1>7, MigratesFirst DEF DeleteOldSessions, DeleteState, InsertState, ClearSessions,
       ClearState, BackfillSessions, SessionsIfEmpty
  <2>2. UNCHANGED <<dims, nextId, old, rows, tx, left, lost>>
    BY <1>7 DEF DeleteOldSessions, DeleteState, InsertState, ClearSessions, ClearState,
       BackfillSessions, SessionsIfEmpty, Resession, SetSessions, Advance, history
  <2> QED BY <2>1, <2>2 DEF Deletes
<1>8. CASE DeleteOldSessionDays \/ RebuildSessionDay \/ BackfillSessionAggs
           \/ SessionAggsIfEmpty \/ ClearSessionAggs
  <2>1. old = {}
    BY <1>8, MigratesFirst DEF DeleteOldSessionDays, RebuildSessionDay, BackfillSessionAggs,
       SessionAggsIfEmpty, ClearSessionAggs
  <2>2. UNCHANGED <<dims, nextId, old, rows, tx, left, lost>>
    BY <1>8 DEF DeleteOldSessionDays, RebuildSessionDay, BackfillSessionAggs,
       SessionAggsIfEmpty, ClearSessionAggs, RecountSessions, SetSessionAggs, Advance, history
  <2> QED BY <2>1, <2>2 DEF Deletes
<1> QED BY <1>1, <1>2, <1>3, <1>4, <1>5, <1>6, <1>7, <1>8 DEF Statement

\* A finite set in a sequence: the migrated lines and their names, and the
\* sessions of a rebuild, are numbered in some order.
LEMMA Numbered ==
  ASSUME NEW S, IsFiniteSet(S)
  PROVE  /\ SetToSeq(S) \in Seq(S)
         /\ Len(SetToSeq(S)) = Cardinality(S)
         /\ \A v \in S : \E k \in DOMAIN SetToSeq(S) : SetToSeq(S)[k] = v
         /\ \A j, k \in DOMAIN SetToSeq(S) : SetToSeq(S)[j] = SetToSeq(S)[k] => j = k
<1>1. IsFiniteSet(S)
  OBVIOUS
<1>2. Cardinality(S) \in Nat /\ ExistsBijection(1..Cardinality(S), S)
  BY <1>1, FS_CardinalityType
<1> DEFINE n == Cardinality(S)
<1>3. \E f \in [1..n -> S] : IsInjective(f)
  BY <1>2 DEF ExistsBijection, Bijection, Injection, IsInjective
<1>4. SetToSeq(S) \in [1..n -> S] /\ IsInjective(SetToSeq(S))
  BY <1>3 DEF SetToSeq
<1>5. SetToSeq(S) \in Injection(1..n, S)
  BY <1>4 DEF Injection, IsInjective
<1>6. Cardinality(1..n) = n
  BY <1>2, FS_Interval
<1>7. SetToSeq(S) \in Surjection(1..n, S)
  BY <1>1, <1>5, <1>6, FS_Injection
<1>8. SetToSeq(S) \in Seq(S) /\ Len(SetToSeq(S)) = n
  BY <1>2, <1>4
<1>9. \A v \in S : \E k \in DOMAIN SetToSeq(S) : SetToSeq(S)[k] = v
  BY <1>7 DEF Surjection
<1>10. \A j, k \in DOMAIN SetToSeq(S) : SetToSeq(S)[j] = SetToSeq(S)[k] => j = k
  BY <1>5 DEF Injection, IsInjective
<1> QED BY <1>8, <1>9, <1>10

LEMMA MigrateSteps ==
  ASSUME Shape, Migrate
  PROVE  /\ old' = {} /\ rows = {} /\ UNCHANGED <<tx, left, lost>>
         /\ \A w \in Workers : tx[w].phase = "idle"
         /\ dims' \in [Names -> Nat] /\ nextId' \in Nat \ {0}
         /\ nextId <= nextId' /\ \A v \in Names : dims'[v] < nextId'
         /\ \A r \in rows' : ~r.line.fp /\ \A x \in {r.ip, r.url} :
              x # 0 /\ \E v \in Names : x = dims'[v]
<1> DEFINE S == {l.ip : l \in old} \cup {l.url : l \in old}
           names == SetToSeq(S)
           lines == SetToSeq(old)
           K(v) == CHOOSE k \in DOMAIN names : names[k] = v
           ids == [v \in Names |-> IF v \in ToSet(names) THEN nextId - 1 + K(v) ELSE 0]
           row(k) == [line |-> lines[k], n |-> k, ip |-> ids[lines[k].ip],
                      url |-> ids[lines[k].url]]
<1>1. old # {} /\ old' = {} /\ UNCHANGED <<tx, left, lost>>
  BY DEF Migrate, Advance
<1>2. rows = {} /\ \A w \in Workers : tx[w].phase = "idle"
  BY <1>1 DEF Shape, OldFirst
<1>3. dims' = ids /\ nextId' = nextId + Len(names)
  BY DEF Migrate
<1>4. rows' = {row(k) : k \in DOMAIN lines}
  BY DEF Migrate
<1>0. IsFiniteSet(old) /\ lines \in Seq(old)
  <2>1. IsFiniteSet(old)
    BY FS_Subset DEF Shape
  <2> QED BY <2>1, Numbered
<1>5. S \in SUBSET Names /\ \A l \in old : l.ip \in S /\ l.url \in S /\ ~l.fp
  BY OldLinesOf, NamesOf DEF Shape
<1>6. names \in Seq(S) /\ \A v \in S : \E k \in DOMAIN names : names[k] = v
  <2>1. IsFiniteSet(S)
    BY <1>5, FS_Subset
  <2> QED BY <2>1, Numbered
<1> HIDE DEF S, names, lines
<1>7. \A v \in ToSet(names) : K(v) \in 1..Len(names)
  BY <1>6 DEF ToSet
<1>8. \A v \in S : v \in ToSet(names)
  BY <1>6 DEF ToSet
<1>9. Len(names) \in Nat /\ nextId \in Nat \ {0}
  BY <1>6 DEF Shape
<1> HIDE DEF K
<1>10. ids \in [Names -> Nat] /\ \A v \in Names : ids[v] < nextId + Len(names)
  BY <1>7, <1>9
<1>11. \A v \in S : ids[v] # 0 /\ v \in Names
  BY <1>5, <1>7, <1>8, <1>9
<1>12. /\ nextId' \in Nat \ {0} /\ nextId <= nextId'
       /\ dims' \in [Names -> Nat] /\ \A v \in Names : dims'[v] < nextId'
  BY <1>3, <1>9, <1>10
<1>13. \A r \in rows' : ~r.line.fp /\ \A x \in {r.ip, r.url} :
              x # 0 /\ \E v \in Names : x = dims'[v]
  <2> SUFFICES ASSUME NEW l \in old
               PROVE  ~l.fp /\ \A x \in {ids[l.ip], ids[l.url]} :
                        x # 0 /\ \E v \in Names : x = dims'[v]
    <3> SUFFICES ASSUME NEW r \in rows'
                 PROVE  ~r.line.fp /\ \A x \in {r.ip, r.url} :
                          x # 0 /\ \E v \in Names : x = dims'[v]
      OBVIOUS
    <3>1. PICK k \in DOMAIN lines : r = row(k)
      BY <1>4
    <3>2. lines[k] \in old /\ r.line = lines[k]
          /\ r.ip = ids[lines[k].ip] /\ r.url = ids[lines[k].url]
      BY <1>0, <3>1
    <3> QED BY <3>2
  <2>1. dims'[l.ip] = ids[l.ip] /\ dims'[l.url] = ids[l.url]
    BY <1>3
  <2> QED BY <2>1, <1>5, <1>11
<1> QED BY <1>1, <1>2, <1>12, <1>13

----------------------------
(* THE SHAPE OF THE STATE *)

LEMMA InitShape == Init => Shape
<1> SUFFICES ASSUME Init PROVE Shape
  OBVIOUS
<1>1. tx = [w \in Workers |-> Idle]
  BY DEF Init
<1>2. \A w \in Workers : TxShape(tx[w]) /\ tx[w].ids = NoIds /\ tx[w].phase = "idle"
  BY <1>1, IdleShape DEF Idle
<1>3. dims = NoIds /\ nextId = 1 /\ NoIds \in [Names -> Nat] /\ \A v \in Names : NoIds[v] = 0
  BY DEF Init, NoIds
<1>4. left \in Lefts
  BY DEF Init, Lefts
<1> QED BY <1>1, <1>2, <1>3, <1>4 DEF Init, Shape, OldFirst

\* The value looked for is the address or the page of a line of the batch.
LEMMA NameNeeded ==
  ASSUME NEW t, TxShape(t), t.phase = "dims", t.at \in 1..(2 * Len(t.batch))
  PROVE  \E i \in 1..Len(t.batch) :
           /\ t.batch[i] \in Lines
           /\ \/ t.at = 2 * i - 1 /\ NextName(t) = t.batch[i].ip
              \/ t.at = 2 * i /\ NextName(t) = t.batch[i].url
<1> DEFINE i == (t.at + 1) \div 2
<1>0. Len(t.batch) \in Nat /\ t.batch \in Seq(Lines)
  BY DEF TxShape
<1>1. /\ i \in 1..Len(t.batch) /\ (t.at = 2 * i - 1 \/ t.at = 2 * i)
      /\ t.at % 2 = 1 <=> t.at = 2 * i - 1
  <2> DEFINE n == Len(t.batch)
             a == t.at
  <2>1. a \in Int /\ n \in Int /\ 1 <= a /\ a <= 2 * n
    BY <1>0
  <2> HIDE DEF a, n
  <2>2. (a + 1) \div 2 \in 1..n
    BY <2>1
  <2>3. a = 2 * ((a + 1) \div 2) - 1 \/ a = 2 * ((a + 1) \div 2)
    BY <2>1
  <2>4. a % 2 = 1 <=> a = 2 * ((a + 1) \div 2) - 1
    BY <2>1
  <2> QED BY <2>2, <2>3, <2>4 DEF a, n
<1>2. t.at % 2 = 1 <=> t.at = 2 * i - 1
  BY <1>1
<1>3. t.batch[i] \in Lines
  BY <1>0, <1>1
<1> QED BY <1>1, <1>2, <1>3 DEF NextName, TxShape

\* How far a transaction is with its ids.
Reached(t) ==
  /\ t.phase = "dims" => t.at \in 1..(2 * Len(t.batch))
  /\ t.phase # "idle" =>
       \A i \in 1..Len(t.batch) :
         /\ (2 * i - 1 < t.at \/ t.phase # "dims") => t.ids[t.batch[i].ip] # 0
         /\ (2 * i < t.at \/ t.phase # "dims") => t.ids[t.batch[i].url] # 0
Reach == \A w \in Workers : Reached(tx[w])

LEMMA NewIdOk ==
  ASSUME Shape, NEW w \in Workers, NEW v \in Names
  PROVE  IdFor(tx[w], v) \in Nat \ {0} /\ IdFor(tx[w], v) <= nextId
  BY DEF IdFor, Shape, TxShape

----------------------------
(* THE IDS OF THE ROWS *)

\* An id that is in its table, or that was taken away while it was in use.
Known(x) == x # 0 /\ (x \in lost \/ \E v \in Names : dims[v] = x)

\* An address or page has no id but the one its first transaction gives it.
FreshAlone ==
  \A w \in Workers : \A v \in tx[w].fresh :
    /\ dims[v] = 0 /\ tx[w].ids[v] # 0
    /\ \A u \in Workers \ {w} : v \notin tx[u].fresh
IdsKnown ==
  \A w \in Workers : \A v \in Names :
    tx[w].ids[v] = 0 \/ v \in tx[w].fresh \/ Known(tx[w].ids[v])
\* The rows of an open transaction have ids it has found.
HasId(t, x) == x # 0 /\ \E v \in Names : t.ids[v] = x
MineKnown == \A w \in Workers : \A r \in tx[w].mine : HasId(tx[w], r.ip) /\ HasId(tx[w], r.url)
RowsKnown == \A r \in rows : Known(r.ip) /\ Known(r.url)

IdsInv == Shape /\ Reach /\ FreshAlone /\ IdsKnown /\ MineKnown /\ RowsKnown

\* A transaction that has read and written nothing.
Restarted(t) ==
  /\ TxShape(t) /\ t.ids = NoIds /\ t.fresh = {} /\ t.mine = {}
  /\ t.phase = "idle" \/ (t.phase = "dims" /\ t.at = 1)
\* A step that begins, repeats or ends transactions, or takes rows away.
Quiet ==
  /\ tx' = [u \in Workers |-> tx'[u]]
  /\ \A u \in Workers : tx'[u] = tx[u] \/ Restarted(tx'[u])
  /\ rows' \subseteq rows
  /\ UNCHANGED <<dims, nextId, old, lost>>
  /\ OldFirst'
  /\ left' \in Lefts

LEMMA QuietKeeps ==
  ASSUME IdsInv, Quiet
  PROVE  IdsInv'
<1> USE DEF IdsInv, Quiet
<1>0. \A v \in Names : NoIds[v] = 0
  BY IdleShape
<1>1. Shape'
  <2>1. \A u \in Workers : TxShape(tx'[u]) /\ \A v \in Names : tx'[u].ids[v] < nextId
    BY <1>0 DEF Shape, Restarted
  <2>2. (\A u \in Workers : TxShape(tx[u]))'
    BY <2>1 DEF TxShape
  <2> QED BY <2>1, <2>2 DEF Shape
<1>2. Reach'
  <2> SUFFICES ASSUME NEW u \in Workers, tx'[u] # tx[u] PROVE Reached(tx'[u])
    BY DEF Reach, Reached
  <2>1. Restarted(tx'[u]) /\ tx'[u].batch \in Seq(Lines)
    BY DEF Restarted, TxShape
  <2> QED BY <2>1 DEF Restarted, Reached, TxShape
<1>3. FreshAlone'
  BY DEF FreshAlone, Restarted
<1>4. IdsKnown'
  BY <1>0 DEF IdsKnown, Restarted, Known
<1>5. MineKnown'
  BY DEF MineKnown, Restarted, HasId
<1>6. RowsKnown'
  BY DEF RowsKnown, Known
<1> QED BY <1>1, <1>2, <1>3, <1>4, <1>5, <1>6

LEMMA LeftLess ==
  ASSUME left \in Lefts,
         \/ left' = left
         \/ left' = [left EXCEPT !.batches = @ - 1]
         \/ left' = [left EXCEPT !.jobs = @ - 1]
         \/ left' = [left EXCEPT !.faults = @ - 1]
  PROVE  left' \in Lefts
  BY DEF Lefts

LEMMA RestartSteps ==
  ASSUME Shape, NEW w \in Workers, Begin(w) \/ DeadlockVictim(w) \/ Fail(w)
  PROVE  Quiet
<1>1. Only(w) /\ Restarted(tx'[w])
  <2>1. CASE Begin(w)
    BY <2>1, BeginSteps, AttemptShape DEF Restarted
  <2>2. CASE DeadlockVictim(w) \/ Fail(w)
    <3>1. Only(w)
      BY <2>2, AbortSteps
    <3>2. CASE tx'[w] = Idle
      BY <3>1, <3>2, IdleShape DEF Restarted, Idle
    <3>3. CASE \E s \in Seq(Lines) \ {<<>>}, n \in {tx[w].attempt + 1} : tx'[w] = Attempt(s, n)
      BY <3>1, <3>3, AttemptShape DEF Restarted
    <3> QED BY <2>2, <3>2, <3>3, AbortSteps
  <2> QED BY <2>1, <2>2
<1>2. old = {}
  <2>1. CASE Begin(w)
    BY <2>1 DEF Shape, OldFirst, StartJob, Begin
  <2>2. CASE DeadlockVictim(w) \/ Fail(w)
    BY <2>2, AbortSteps DEF Shape, OldFirst
  <2> QED BY <2>1, <2>2
<1>3. UNCHANGED <<dims, nextId, old, rows, lost>>
  BY DEF Begin, DeadlockVictim, Fail, history
<1>4. left' \in Lefts
  BY LeftLess DEF Shape, Begin, DeadlockVictim, Fail
<1> QED BY <1>1, <1>2, <1>3, <1>4 DEF Quiet, Only, OldFirst

LEMMA OtherSteps ==
  ASSUME Shape,
         \/ \E k \in {"clean", "clear", "rebuild"} : BeginJob(k)
         \/ StatementFails \/ Crash \/ (old = {} /\ Deletes) \/ UNCHANGED vars
  PROVE  Quiet
<1>1. CASE \E k \in {"clean", "clear", "rebuild"} : BeginJob(k)
  <2>1. old = {} /\ UNCHANGED <<dims, nextId, old, rows, tx, lost>>
    BY <1>1 DEF BeginJob, Shape, OldFirst, StartJob, NoJob, history
  <2>2. left' \in Lefts
    BY <1>1, LeftLess DEF BeginJob, Shape
  <2> QED BY <2>1, <2>2 DEF Quiet, Shape, OldFirst
<1>2. CASE StatementFails
  <2>1. UNCHANGED <<dims, nextId, old, rows, tx, lost>>
    BY <1>2 DEF StatementFails, history
  <2>2. left' \in Lefts
    BY <1>2, LeftLess DEF StatementFails, Shape
  <2>3. old # {} => job' = StartJob
    BY <1>2 DEF StatementFails, Shape, OldFirst, StartJob
  <2> QED BY <2>1, <2>2, <2>3 DEF Quiet, Shape, OldFirst, StartJob
<1>3. CASE Crash
  <2>1. UNCHANGED <<dims, nextId, old, rows, lost>> /\ job' = StartJob
    BY <1>3 DEF Crash, history
  <2>2. tx' = [w \in Workers |-> Idle] /\ \A w \in Workers : Restarted(tx'[w]) /\ tx'[w].phase = "idle"
    BY <1>3, IdleShape DEF Crash, Restarted, Idle
  <2>3. left' \in Lefts
    BY <1>3, LeftLess DEF Crash, Shape
  <2> QED BY <2>1, <2>2, <2>3 DEF Quiet, Shape, OldFirst, StartJob
<1>4. CASE old = {} /\ Deletes
  BY <1>4 DEF Deletes, Quiet, Shape, OldFirst
<1>5. CASE UNCHANGED vars
  BY <1>5 DEF vars, history, Quiet, Shape, OldFirst, StartJob
<1> QED BY <1>1, <1>2, <1>3, <1>4, <1>5

\* A transaction that looks for an id waits for one that has the value new.
LEMMA NotFresh ==
  ASSUME NEW w \in Workers, NEW u \in Workers \ {w}, tx[w].phase = "dims", ~Waits(w, u),
         tx[w].ids[NextName(tx[w])] = 0, dims[NextName(tx[w])] = 0
  PROVE  NextName(tx[w]) \notin tx[u].fresh
  BY DEF Waits

LEMMA DimKeeps ==
  ASSUME IdsInv, NEW w \in Workers, GetOrCreateDimID(w)
  PROVE  IdsInv'
<1> USE DEF IdsInv
<1> DEFINE t == tx[w]
           v == NextName(t)
           id == IdFor(t, v)
           n == tx'[w]
<1>1. /\ Only(w) /\ t.phase = "dims" /\ DOMAIN n = Fields
      /\ n.batch = t.batch /\ n.mine = t.mine /\ n.at = t.at + 1
      /\ n.ids = [t.ids EXCEPT ![v] = id]
      /\ n.fresh = IF id = nextId THEN t.fresh \cup {v} ELSE t.fresh
      /\ n.phase = IF t.at = 2 * Len(t.batch) THEN "rows" ELSE "dims"
      /\ nextId' = IF id = nextId THEN nextId + 1 ELSE nextId
      /\ \A u \in Workers : ~Waits(w, u)
  BY DimSteps
<1>2. UNCHANGED <<dims, old, rows, left, lost, job>>
  BY DEF GetOrCreateDimID, history
<1>3. /\ TxShape(t) /\ t.at \in 1..(2 * Len(t.batch))
      /\ t.batch \in Seq(Lines) \ {<<>>} /\ Len(t.batch) \in Nat
  BY <1>1 DEF Shape, Reach, Reached, TxShape
<1>4. PICK i \in 1..Len(t.batch) :
           /\ t.batch[i] \in Lines
           /\ \/ t.at = 2 * i - 1 /\ v = t.batch[i].ip
              \/ t.at = 2 * i /\ v = t.batch[i].url
  BY <1>1, <1>3, NameNeeded
<1>5. v \in Names
  BY <1>4, NamesOf
<1>6. id \in Nat \ {0} /\ id <= nextId
  BY <1>5, NewIdOk
<1>7. id # nextId => id = t.ids[v] \/ id = dims[v]
  BY DEF IdFor
<1>8. id = nextId => t.ids[v] = 0 /\ dims[v] = 0
  BY <1>5 DEF IdFor, Shape
<1>9. id = nextId => \A u \in Workers \ {w} : v \notin tx[u].fresh
  BY <1>1, <1>8, NotFresh
<1>9a. t.ids[v] # 0 => id = t.ids[v]
  BY DEF IdFor
<1> HIDE DEF v, id
<1>10. /\ \A x \in Names : n.ids[x] = IF x = v THEN id ELSE t.ids[x]
       /\ n.ids \in [Names -> Nat]
  BY <1>1, <1>3, <1>6 DEF TxShape
<1>11. TxShape(n)
  BY <1>1, <1>3, <1>5, <1>10 DEF TxShape, Phases
<1>12. Shape'
  <2>1. nextId' \in Nat \ {0} /\ nextId' >= nextId
    BY <1>1 DEF Shape
  <2>2. \A x \in Names : n.ids[x] < nextId'
    BY <1>1, <1>6, <1>10 DEF Shape
  <2>3. \A u \in Workers : TxShape(tx'[u]) /\ \A x \in Names : tx'[u].ids[x] < nextId'
    <3> SUFFICES ASSUME NEW u \in Workers
                 PROVE  TxShape(tx'[u]) /\ \A x \in Names : tx'[u].ids[x] < nextId'
      OBVIOUS
    <3>1. CASE u = w
      BY <3>1, <2>2, <1>11
    <3>2. CASE u # w
      <4>1. tx'[u] = tx[u] /\ TxShape(tx[u]) /\ \A x \in Names : tx[u].ids[x] < nextId
        BY <3>2, <1>1 DEF Only, Shape
      <4>2. \A x \in Names : tx[u].ids[x] \in Nat /\ nextId \in Nat
        BY <4>1 DEF TxShape, Shape
      <4> QED BY <4>1, <4>2, <2>1
    <3> QED BY <3>1, <3>2
  <2>4. (\A u \in Workers : TxShape(tx[u]))'
    BY <2>3 DEF TxShape
  <2>5. \A x \in Names : dims'[x] < nextId'
    BY <2>1, <1>2 DEF Shape
  <2>6. OldFirst'
    BY <1>1, <1>2 DEF Shape, OldFirst
  <2>7. tx' = [u \in Workers |-> tx'[u]]
    BY <1>1 DEF Only
  <2> QED BY <2>1, <2>3, <2>4, <2>5, <2>6, <2>7, <1>2 DEF Shape
<1>13. Reached(n)
  <2>1. n.phase = "dims" => n.at \in 1..(2 * Len(n.batch))
    <3>1. n.phase = "dims" => t.at # 2 * Len(t.batch)
      BY <1>1
    <3>2. \A a, m \in Int : a \in 1..(2 * m) /\ a # 2 * m => a + 1 \in 1..(2 * m)
      OBVIOUS
    <3>3. n.at = t.at + 1 /\ Len(n.batch) = Len(t.batch)
      BY <1>1
    <3>4. t.at \in Int /\ Len(t.batch) \in Int
      BY <1>3
    <3> QED BY <1>3, <3>1, <3>2, <3>3, <3>4
  <2>2. ASSUME NEW j \in 1..Len(n.batch)
        PROVE  /\ (2 * j - 1 < n.at \/ n.phase # "dims") => n.ids[n.batch[j].ip] # 0
               /\ (2 * j < n.at \/ n.phase # "dims") => n.ids[n.batch[j].url] # 0
    <3>1. t.batch[j].ip \in Names /\ t.batch[j].url \in Names
      BY <1>1, <1>3, NamesOf
    <3>2. /\ (2 * j - 1 < n.at \/ n.phase # "dims") => 2 * j - 1 <= t.at
          /\ (2 * j < n.at \/ n.phase # "dims") => 2 * j <= t.at
      BY <1>1, <1>3
    <3>3. (2 * j - 1 <= t.at) => 2 * j - 1 < t.at \/ t.batch[j].ip = v
      BY <1>1, <1>3, <1>4
    <3>4. (2 * j <= t.at) => 2 * j < t.at \/ t.batch[j].url = v
      BY <1>1, <1>3, <1>4
    <3>5. /\ 2 * j - 1 < t.at => t.ids[t.batch[j].ip] # 0
          /\ 2 * j < t.at => t.ids[t.batch[j].url] # 0
      BY <1>1 DEF Reach, Reached
    <3> QED BY <3>1, <3>2, <3>3, <3>4, <3>5, <1>1, <1>6, <1>10
  <2> QED BY <2>1, <2>2 DEF Reached
<1>14. Reach'
  <2>1. \A u \in Workers : Reached(tx'[u])
    BY <1>1, <1>13 DEF Reach, Only
  <2> QED BY <2>1 DEF Reach, Reached
<1>15. FreshAlone'
  <2> SUFFICES ASSUME NEW u \in Workers, NEW x \in tx'[u].fresh
               PROVE  /\ dims[x] = 0 /\ tx'[u].ids[x] # 0
                      /\ \A z \in Workers \ {u} : x \notin tx'[z].fresh
    BY <1>2 DEF FreshAlone
  <2>1. x \in Names
    BY <1>1, <1>11 DEF Only, Shape, TxShape
  <2>2. CASE u = w
    <3>1. x \in t.fresh \/ (id = nextId /\ x = v)
      BY <2>2, <1>1
    <3>2. dims[x] = 0 /\ n.ids[x] # 0
      <4>1. x \in t.fresh => dims[x] = 0 /\ t.ids[x] # 0
        BY DEF FreshAlone
      <4> QED BY <2>1, <3>1, <4>1, <1>6, <1>8, <1>10
    <3>3. ASSUME NEW z \in Workers \ {w} PROVE x \notin tx'[z].fresh
      <4>1. x \in t.fresh => x \notin tx[z].fresh
        BY DEF FreshAlone
      <4>2. tx'[z] = tx[z]
        BY <1>1 DEF Only
      <4> QED BY <3>1, <4>1, <4>2, <1>9
    <3> QED BY <2>2, <3>2, <3>3
  <2>3. CASE u # w
    BY <2>1, <2>3, <1>1, <1>9 DEF FreshAlone, Only
  <2> QED BY <2>2, <2>3
<1>16. IdsKnown'
  <2> SUFFICES ASSUME NEW u \in Workers, NEW x \in Names
               PROVE  tx'[u].ids[x] = 0 \/ x \in tx'[u].fresh \/ Known(tx'[u].ids[x])
    BY <1>2 DEF IdsKnown, Known
  <2>1. CASE u = w /\ x = v
    BY <2>1, <1>1, <1>5, <1>6, <1>7, <1>9a, <1>10 DEF IdsKnown, Known
  <2>2. CASE u = w /\ x # v
    BY <2>2, <1>1, <1>10 DEF IdsKnown
  <2>3. CASE u # w
    BY <2>3, <1>1 DEF IdsKnown, Only
  <2> QED BY <2>1, <2>2, <2>3
<1>17. MineKnown'
  <2> SUFFICES ASSUME NEW u \in Workers, NEW r \in tx'[u].mine
               PROVE  HasId(tx'[u], r.ip) /\ HasId(tx'[u], r.url)
    BY DEF MineKnown, HasId
  <2>1. CASE u # w
    BY <2>1, <1>1 DEF MineKnown, Only
  <2>2. CASE u = w
    <3>1. HasId(t, r.ip) /\ HasId(t, r.url)
      BY <2>2, <1>1 DEF MineKnown
    <3>2. \A x : HasId(t, x) => HasId(n, x)
      BY <1>9a, <1>10 DEF HasId
    <3> QED BY <2>2, <3>1, <3>2
  <2> QED BY <2>1, <2>2
<1>18. RowsKnown'
  BY <1>2 DEF RowsKnown, Known
<1> QED BY <1>12, <1>14, <1>15, <1>16, <1>17, <1>18

\* The rows a transaction inserts are of lines of its batch, with the ids it
\* has found.
LEMMA InsertedRows ==
  ASSUME NEW t, TxShape(t), Reached(t), t.phase = "rows", NEW i \in Taken(t)
  PROVE  /\ i \in 1..Len(t.batch) /\ RowAt(t, i).line = t.batch[i]
         /\ HasId(t, RowAt(t, i).ip) /\ HasId(t, RowAt(t, i).url)
<1>1. i \in 1..Len(t.batch)
  BY DEF Taken
<1>2. t.batch[i] \in Lines
  BY <1>1 DEF TxShape
<1>3. t.batch[i].ip \in Names /\ t.batch[i].url \in Names
  BY <1>2, NamesOf
<1>4. t.ids[t.batch[i].ip] # 0 /\ t.ids[t.batch[i].url] # 0
  BY <1>1 DEF Reached
<1>5. /\ RowAt(t, i).line = t.batch[i] /\ RowAt(t, i).ip = t.ids[t.batch[i].ip]
      /\ RowAt(t, i).url = t.ids[t.batch[i].url]
  BY DEF RowAt
<1> QED BY <1>1, <1>3, <1>4, <1>5 DEF HasId

LEMMA RowKeeps ==
  ASSUME IdsInv, NEW w \in Workers,
         BulkInsertLogRows(w) \/ NoVisit(w) \/ VisitOpens(w) \/ VisitExtends(w)
  PROVE  IdsInv'
<1> USE DEF IdsInv
<1> DEFINE t == tx[w]
           n == tx'[w]
<1>1. /\ Only(w) /\ DOMAIN n = Fields
      /\ n.batch = t.batch /\ n.at = t.at /\ n.ids = t.ids /\ n.fresh = t.fresh
      /\ t.phase \in {"rows", "visits"} /\ n.phase = "visits"
      /\ \/ n.mine = t.mine /\ t.phase = "visits"
         \/ n.mine = {RowAt(t, i) : i \in Taken(t)} /\ t.phase = "rows"
  BY RowSteps
<1>2. UNCHANGED <<dims, nextId, old, rows, left, lost, job>>
  BY Zenon DEF BulkInsertLogRows, NoVisit, VisitOpens, VisitExtends, Visited, history
<1>3. TxShape(t) /\ Reached(t)
  BY DEF Shape, Reach
<1>4. TxShape(n) /\ Reached(n)
  BY <1>1, <1>3 DEF TxShape, Reached, Phases
<1>5. Shape'
  <2>1. \A u \in Workers : TxShape(tx'[u]) /\ \A x \in Names : tx'[u].ids[x] < nextId
    BY <1>1, <1>4 DEF Only, Shape
  <2>2. (\A u \in Workers : TxShape(tx[u]))'
    BY <2>1 DEF TxShape
  <2>3. OldFirst'
    BY <1>1, <1>2 DEF Shape, OldFirst
  <2>4. tx' = [u \in Workers |-> tx'[u]]
    BY <1>1 DEF Only
  <2> QED BY <2>1, <2>2, <2>3, <2>4, <1>2 DEF Shape
<1>6. Reach'
  <2>1. \A u \in Workers : Reached(tx'[u])
    BY <1>1, <1>4 DEF Reach, Only
  <2> QED BY <2>1 DEF Reach, Reached
<1>7. \A u \in Workers : tx'[u].ids = tx[u].ids /\ tx'[u].fresh = tx[u].fresh
  BY <1>1 DEF Only
<1>8. FreshAlone'
  BY <1>2, <1>7 DEF FreshAlone
<1>9. IdsKnown' /\ RowsKnown'
  BY <1>2, <1>7 DEF IdsKnown, RowsKnown, Known
<1>10. MineKnown'
  <2> SUFFICES ASSUME NEW u \in Workers, NEW r \in tx'[u].mine
               PROVE  HasId(tx[u], r.ip) /\ HasId(tx[u], r.url)
    BY <1>7 DEF MineKnown, HasId
  <2>1. CASE r \in tx[u].mine
    BY <2>1 DEF MineKnown
  <2>2. CASE u = w /\ t.phase = "rows" /\ n.mine = {RowAt(t, i) : i \in Taken(t)}
    BY <2>2, <1>3, InsertedRows
  <2> QED BY <2>1, <2>2, <1>1 DEF Only
<1> QED BY <1>5, <1>6, <1>8, <1>9, <1>10

LEMMA CommitKeeps ==
  ASSUME IdsInv, NEW w \in Workers, Commit(w)
  PROVE  IdsInv'
<1> USE DEF IdsInv
<1> DEFINE t == tx[w]
<1>1. /\ Only(w) /\ tx'[w] = Idle /\ t.phase = "visits"
      /\ dims' = [v \in Names |-> IF v \in t.fresh THEN t.ids[v] ELSE dims[v]]
      /\ rows' = rows \cup t.mine
      /\ UNCHANGED <<nextId, old, job, left, lost>>
  BY CommitSteps
<1>2. /\ TxShape(t) /\ TxShape(Idle) /\ Idle.ids = NoIds /\ Idle.fresh = {} /\ Idle.mine = {}
      /\ Idle.phase = "idle" /\ \A v \in Names : NoIds[v] = 0
  BY IdleShape DEF Shape, Idle
<1>3. old = {}
  BY <1>1 DEF Shape, OldFirst
<1>4. dims' \in [Names -> Nat] /\ \A v \in Names : dims'[v] < nextId
  BY <1>1, <1>2 DEF Shape, TxShape
<1>5. Shape'
  <2>1. \A u \in Workers : TxShape(tx'[u]) /\ \A x \in Names : tx'[u].ids[x] < nextId
    BY <1>1, <1>2 DEF Only, Shape
  <2>2. (\A u \in Workers : TxShape(tx[u]))'
    BY <2>1 DEF TxShape
  <2>3. tx' = [u \in Workers |-> tx'[u]]
    BY <1>1 DEF Only
  <2> QED BY <2>1, <2>2, <2>3, <1>1, <1>3, <1>4 DEF Shape, OldFirst
<1>6. Reach'
  <2>1. \A u \in Workers : Reached(tx'[u])
    <3>1. Reached(Idle)
      BY <1>2 DEF Reached
    <3> QED BY <1>1, <3>1 DEF Reach, Only
  <2> QED BY <2>1 DEF Reach, Reached
<1>7. FreshAlone'
  <2> SUFFICES ASSUME NEW u \in Workers, NEW x \in tx'[u].fresh
               PROVE  /\ dims'[x] = 0 /\ tx'[u].ids[x] # 0
                      /\ \A z \in Workers \ {u} : x \notin tx'[z].fresh
    BY DEF FreshAlone
  <2>1. u # w /\ tx'[u] = tx[u] /\ x \in Names
    BY <1>1, <1>2 DEF Only, Shape, TxShape
  <2> QED BY <2>1, <1>1, <1>2 DEF FreshAlone, Only
<1>8. \A x : Known(x) => Known(x)'
  BY <1>1 DEF Known, FreshAlone
<1>9. IdsKnown'
  BY <1>1, <1>2, <1>8 DEF IdsKnown, Only
<1>10. MineKnown'
  BY <1>1, <1>2 DEF MineKnown, HasId, Only
<1>11. \A x : HasId(t, x) => Known(x)'
  BY <1>1, <1>8 DEF HasId, IdsKnown, Known
<1>12. RowsKnown'
  BY <1>1, <1>8, <1>11 DEF RowsKnown, MineKnown
<1> QED BY <1>5, <1>6, <1>7, <1>9, <1>10, <1>12

\* An id that is taken away is noted when a row or a transaction has it.
LEMMA RemoveKeeps ==
  ASSUME IdsInv, old = {}, NEW I, NEW risk, Removes(I, risk), IdsHeld \subseteq risk,
         \A x \in IdsOf(rows) : x \in I => x \in risk
  PROVE  IdsInv'
<1> USE DEF IdsInv
<1>1. /\ dims' = [v \in Names |-> IF dims[v] \in I THEN 0 ELSE dims[v]]
      /\ lost' = lost \cup ((I \cap risk) \ {0})
      /\ UNCHANGED <<nextId, old, rows, tx, left>>
  BY DEF Removes
<1>2. Shape'
  <2>1. dims' \in [Names -> Nat] /\ \A v \in Names : dims'[v] < nextId
    BY <1>1 DEF Shape
  <2>2. (\A u \in Workers : TxShape(tx[u]))'
    BY <1>1 DEF Shape, TxShape
  <2> QED BY <1>1, <2>1, <2>2 DEF Shape, OldFirst
<1>3. Reach' /\ MineKnown'
  BY <1>1 DEF Reach, Reached, MineKnown, HasId
<1>4. FreshAlone'
  <2>1. \A v \in Names : dims[v] = 0 => dims'[v] = 0
    BY <1>1
  <2>2. \A u \in Workers : tx[u].fresh \subseteq Names
    BY DEF Shape, TxShape
  <2> QED BY <1>1, <2>1, <2>2 DEF FreshAlone
<1>5. \A x : Known(x) /\ x \in risk => Known(x)'
  BY <1>1 DEF Known
<1>6. IdsKnown'
  <2> SUFFICES ASSUME NEW u \in Workers, NEW v \in Names, Known(tx[u].ids[v])
               PROVE  Known(tx[u].ids[v])'
    BY <1>1 DEF IdsKnown
  <2>1. tx[u].ids[v] \in risk
    BY DEF IdsHeld
  <2>2. Known(tx[u].ids[v])'
    BY <1>1, <2>1 DEF Known
  <2> QED BY <2>2
<1>7. RowsKnown'
  <2> SUFFICES ASSUME NEW r \in rows, NEW x \in {r.ip, r.url} PROVE Known(x)'
    BY <1>1 DEF RowsKnown, Known
  <2>1. Known(x) /\ x \in IdsOf(rows)
    BY DEF RowsKnown, IdsOf
  <2>2. x \in I => x \in risk
    BY <2>1
  <2> QED BY <1>1, <2>1, <2>2 DEF Known
<1> QED BY <1>2, <1>3, <1>4, <1>6, <1>7

LEMMA MigrateKeeps ==
  ASSUME IdsInv, Migrate
  PROVE  IdsInv'
<1> USE DEF IdsInv
<1>1. /\ old' = {} /\ UNCHANGED <<tx, left, lost>>
      /\ \A w \in Workers : tx[w].phase = "idle"
      /\ dims' \in [Names -> Nat] /\ nextId' \in Nat \ {0}
      /\ nextId <= nextId' /\ \A v \in Names : dims'[v] < nextId'
      /\ \A r \in rows' : \A x \in {r.ip, r.url} : x # 0 /\ \E v \in Names : x = dims'[v]
  BY MigrateSteps
<1>2. \A w \in Workers : TxShape(tx[w]) /\ tx[w].fresh = {} /\ tx[w].mine = {}
  BY <1>1 DEF Shape, TxShape
<1>3. \A w \in Workers : \A v \in Names : tx[w].ids[v] < nextId'
  <2> SUFFICES ASSUME NEW w \in Workers, NEW v \in Names PROVE tx[w].ids[v] < nextId'
    OBVIOUS
  <2>1. tx[w].ids[v] \in Nat /\ tx[w].ids[v] < nextId /\ nextId \in Nat
    BY DEF Shape, TxShape
  <2> QED BY <1>1, <2>1
<1>4. Shape'
  <2>1. (\A w \in Workers : TxShape(tx[w]))'
    BY <1>1, <1>2 DEF TxShape
  <2> QED BY <1>1, <1>3, <2>1 DEF Shape, OldFirst
<1>5. Reach'
  BY <1>1 DEF Reach, Reached
<1>6. FreshAlone' /\ MineKnown'
  BY <1>1, <1>2 DEF FreshAlone, MineKnown
<1>7. RowsKnown'
  BY <1>1 DEF RowsKnown, Known
<1>8. IdsKnown'
  <2>1. \A w \in Workers : tx[w].ids = NoIds
    BY <1>1 DEF Shape, TxShape
  <2> QED BY <1>1, <2>1, IdleShape DEF IdsKnown
<1> QED BY <1>4, <1>5, <1>6, <1>7, <1>8

LEMMA InitIds == Init => IdsInv
<1> SUFFICES ASSUME Init PROVE IdsInv
  OBVIOUS
<1>1. /\ tx = [w \in Workers |-> Idle] /\ rows = {} /\ dims = NoIds
      /\ Idle.phase = "idle" /\ Idle.fresh = {} /\ Idle.mine = {} /\ Idle.ids = NoIds
      /\ \A v \in Names : NoIds[v] = 0
  BY IdleShape DEF Init, Idle
<1>2. Reach /\ FreshAlone /\ IdsKnown /\ MineKnown /\ RowsKnown
  BY <1>1 DEF Reach, Reached, FreshAlone, IdsKnown, MineKnown, RowsKnown
<1> QED BY <1>2, InitShape DEF IdsInv

LEMMA IdsStep == IdsInv /\ [Next]_vars => IdsInv'
<1> SUFFICES ASSUME IdsInv, [Next]_vars PROVE IdsInv'
  OBVIOUS
<1>0. Shape /\ OldFirst
  BY DEF IdsInv, Shape
<1>1. ASSUME NEW w \in Workers, Begin(w) \/ Work(w) \/ Fail(w)
      PROVE  IdsInv'
  <2>1. CASE Begin(w) \/ DeadlockVictim(w) \/ Fail(w)
    BY <2>1, <1>0, RestartSteps, QuietKeeps
  <2>2. CASE GetOrCreateDimID(w)
    BY <2>2, DimKeeps
  <2>3. CASE BulkInsertLogRows(w) \/ NoVisit(w) \/ VisitOpens(w) \/ VisitExtends(w)
    BY <2>3, RowKeeps
  <2>4. CASE Commit(w)
    BY <2>4, CommitKeeps
  <2> QED BY <1>1, <2>1, <2>2, <2>3, <2>4 DEF Work
<1>2. CASE Statement
  <2>1. CASE Migrate
    BY <2>1, MigrateKeeps
  <2>2. CASE old = {} /\ Deletes
    BY <2>2, <1>0, OtherSteps, QuietKeeps
  <2>3. CASE old = {} /\ Removes({dims[v] : v \in Names} \ IdsOf(rows), IdsHeld)
    BY <2>3, RemoveKeeps
  <2>4. CASE old = {} /\ Removes({dims[v] : v \in Names}, IdsHeld \cup IdsOf(rows))
    BY <2>4, RemoveKeeps
  <2> QED BY <1>0, <1>2, <2>1, <2>2, <2>3, <2>4, StatementSteps
<1>3. CASE \/ \E k \in {"clean", "clear", "rebuild"} : BeginJob(k)
           \/ StatementFails \/ Crash \/ UNCHANGED vars
  BY <1>0, <1>3, OtherSteps, QuietKeeps
<1> QED BY <1>1, <1>2, <1>3 DEF Next

----------------------------
(* THE ROWS OF A LINE WITH A FINGERPRINT *)

\* A line is stored once, or is one row of one open transaction.
Once(r) ==
  \A q \in rows : q.line = r.line => q = r
Alone(w, r) ==
  /\ \A q \in rows : q.line # r.line
  /\ \A q \in tx[w].mine : q.line = r.line => q = r
  /\ \A u \in Workers \ {w} : \A q \in tx[u].mine : q.line # r.line
OneRowEach ==
  /\ \A r \in rows : r.line.fp => Once(r)
  /\ \A w \in Workers : \A r \in tx[w].mine : r.line.fp => Alone(w, r)

\* The unique index makes w wait for a transaction with a row of the same line.
LEMMA InsertedAlone ==
  ASSUME NEW w \in Workers, tx[w].phase = "rows", TxShape(tx[w]), Reached(tx[w]),
         \A u \in Workers : ~Waits(w, u),
         NEW i \in Taken(tx[w]), tx[w].batch[i].fp
  PROVE  /\ \A q \in rows : q.line # tx[w].batch[i]
         /\ \A j \in Taken(tx[w]) : tx[w].batch[j] = tx[w].batch[i] => i = j
         /\ \A u \in Workers \ {w} : \A q \in tx[u].mine : q.line # tx[w].batch[i]
<1> DEFINE t == tx[w]
           l == t.batch[i]
<1>1. i \in 1..Len(t.batch) /\ ~Stored(l) /\ Taken(t) \subseteq 1..Len(t.batch)
  BY DEF Taken
<1>2. \A q \in rows : q.line # l
  BY <1>1 DEF Stored
<1>3. \A j \in Taken(t) : t.batch[j] = l => i = j
  <2> SUFFICES ASSUME NEW j \in Taken(t), t.batch[j] = l PROVE i = j
    OBVIOUS
  <2>1. i \in Int /\ j \in Int /\ i >= 1 /\ j >= 1
    BY <1>1
  <2>2. ~(j < i) /\ ~(i < j)
    BY <2>1 DEF Taken
  <2> QED BY <2>1, <2>2
<1>4. l \in ToSet(t.batch)
  BY <1>1 DEF ToSet, TxShape
<1>5. \A u \in Workers \ {w} : ~Pending(l, u)
  BY <1>1, <1>4 DEF Waits
<1> QED BY <1>2, <1>3, <1>5 DEF Pending

LEMMA OneRowStep ==
  IdsInv /\ OneRowEach /\ [Next]_vars => OneRowEach'
<1> SUFFICES ASSUME IdsInv, OneRowEach, [Next]_vars PROVE OneRowEach'
  OBVIOUS
<1>0. Shape /\ OldFirst
  BY DEF IdsInv, Shape
<1>1. ASSUME Quiet PROVE OneRowEach'
  BY <1>1 DEF Quiet, Restarted, OneRowEach, Once, Alone
<1>2. ASSUME NEW w \in Workers, GetOrCreateDimID(w) PROVE OneRowEach'
  <2>1. \A u \in Workers : tx'[u].mine = tx[u].mine
    BY <1>0, <1>2, DimSteps DEF Only
  <2>2. rows' = rows
    BY <1>2 DEF GetOrCreateDimID
  <2> QED BY <2>1, <2>2 DEF OneRowEach, Once, Alone
<1>3. ASSUME NEW w \in Workers,
             BulkInsertLogRows(w) \/ NoVisit(w) \/ VisitOpens(w) \/ VisitExtends(w)
      PROVE  OneRowEach'
  <2> DEFINE t == tx[w]
  <2>1. rows' = rows
    BY <1>3, Zenon DEF BulkInsertLogRows, NoVisit, VisitOpens, VisitExtends, Visited
  <2>2. CASE tx'[w].mine = t.mine
    <3>1. \A u \in Workers : tx'[u].mine = tx[u].mine
      BY <1>0, <1>3, <2>2, RowSteps DEF Only
    <3> QED BY <2>1, <3>1 DEF OneRowEach, Once, Alone
  <2>3. CASE /\ tx'[w].mine = {RowAt(t, i) : i \in Taken(t)}
             /\ t.phase = "rows" /\ \A u \in Workers : ~Waits(w, u)
    <3>1. \A u \in Workers \ {w} : tx'[u] = tx[u]
      BY <1>0, <1>3, RowSteps DEF Only
    <3>2. TxShape(t) /\ Reached(t)
      BY DEF IdsInv, Shape, Reach
    <3>3. \A r \in tx'[w].mine : r.line.fp =>
            /\ \A q \in rows : q.line # r.line
            /\ \A q \in tx'[w].mine : q.line = r.line => q = r
            /\ \A u \in Workers \ {w} : \A q \in tx[u].mine : q.line # r.line
      <4> SUFFICES ASSUME NEW i \in Taken(t), RowAt(t, i).line.fp
                   PROVE  LET r == RowAt(t, i) IN
                          /\ \A q \in rows : q.line # r.line
                          /\ \A q \in tx'[w].mine : q.line = r.line => q = r
                          /\ \A u \in Workers \ {w} : \A q \in tx[u].mine : q.line # r.line
        BY <2>3
      <4>1. \A j \in Taken(t) : RowAt(t, j).line = t.batch[j]
        BY <2>3, <3>2, InsertedRows
      <4>2. /\ \A q \in rows : q.line # t.batch[i]
            /\ \A j \in Taken(t) : t.batch[j] = t.batch[i] => i = j
            /\ \A u \in Workers \ {w} : \A q \in tx[u].mine : q.line # t.batch[i]
        BY <2>3, <3>2, <4>1, InsertedAlone
      <4>3. \A q \in tx'[w].mine : q.line = t.batch[i] => q = RowAt(t, i)
        BY <2>3, <4>1, <4>2
      <4> QED BY <4>1, <4>2, <4>3
    <3>4. \A u \in Workers \ {w} : \A r \in tx[u].mine : r.line.fp =>
            \A q \in tx'[w].mine : q.line # r.line
      BY <3>3
    <3> QED BY <2>1, <3>1, <3>3, <3>4 DEF OneRowEach, Once, Alone
  <2> QED BY <1>0, <1>3, <2>2, <2>3, RowSteps
<1>4. ASSUME NEW w \in Workers, Commit(w) PROVE OneRowEach'
  <2>1. /\ Only(w) /\ tx'[w].mine = {} /\ rows' = rows \cup tx[w].mine
    BY <1>0, <1>4, CommitSteps DEF Idle
  <2> QED BY <2>1 DEF Only, OneRowEach, Once, Alone
<1>5. ASSUME old = {}, NEW I, NEW risk, Removes(I, risk) PROVE OneRowEach'
  BY <1>5 DEF Removes, OneRowEach, Once, Alone
<1>6. CASE Migrate
  <2>1. /\ tx' = tx /\ \A r \in rows' : ~r.line.fp
        /\ \A w \in Workers : tx[w].mine = {}
    BY <1>0, <1>6, MigrateSteps DEF Shape, TxShape
  <2> QED BY <2>1 DEF OneRowEach
<1>7. ASSUME NEW w \in Workers, Begin(w) \/ Work(w) \/ Fail(w) PROVE OneRowEach'
  BY <1>7, <1>0, <1>1, <1>2, <1>3, <1>4, RestartSteps DEF Work
<1>8. CASE Statement
  BY <1>8, <1>0, <1>1, <1>5, <1>6, StatementSteps, OtherSteps
<1>9. CASE \/ \E k \in {"clean", "clear", "rebuild"} : BeginJob(k)
           \/ StatementFails \/ Crash \/ UNCHANGED vars
  BY <1>9, <1>0, <1>1, OtherSteps
<1> QED BY <1>7, <1>8, <1>9 DEF Next

----------------------------
(* THEOREMS *)

(* A row's address and page are in their tables, whatever batches are open *)
(* when ids are created, orphans are removed, the website is cleared or a *)
(* database is migrated (getOrCreateDimID, cleanupOrphanDims): an id that was *)
(* in use when it was removed is the only exception. *)
THEOREM IdsOfRows == Spec => []NoDangling
<1>1. IdsInv => NoDangling
  BY DEF IdsInv, RowsKnown, Known, NoDangling, IdsOf
<1> QED BY <1>1, InitIds, IdsStep, PTL DEF Spec

(* A line with a fingerprint has at most one row, as the abstract store *)
(* promises: however many transactions insert it at once, repeat it after a *)
(* deadlock or crash, and whatever is removed meanwhile (the unique index of *)
(* the log table, bulkInsertLogRows). *)
THEOREM FingerprintOnce == Spec => []Contract!StoredOnce
<1>1. Init => OneRowEach
  BY IdleShape DEF Init, OneRowEach, Idle
<1>2. OneRowEach => Contract!StoredOnce
  <2> SUFFICES ASSUME OneRowEach, NEW r \in rows, NEW q \in rows, r.line = q.line, r.line.fp
               PROVE  r.n = q.n
    BY DEF Contract!StoredOnce
  <2> QED BY DEF OneRowEach, Once
<1> QED BY <1>1, <1>2, InitIds, IdsStep, OneRowStep, PTL DEF Spec

(* The sums and the shapes below need nothing of the lines. *)
HIDE LinesAssumption

----------------------------
(* COUNTERS AND RANKS *)

Total(c, R) == Summed([r \in R |-> Adds(r.line, c)], R)

LEMMA TotalNone == \A c : Total(c, {}) = 0
BY OverNone DEF Total

\* The rows that a total adds up have lines.
Countable(R) == IsFiniteSet(R) /\ \A r \in R : \A c \in Counters : Adds(r.line, c) \in Int

LEMMA TotalType ==
  ASSUME NEW c \in Counters, NEW R, Countable(R)
  PROVE  Total(c, R) \in Int
<1> DEFINE f == [r \in R |-> Adds(r.line, c)]
<1>1. IsFiniteSet(R) /\ \A r \in R : f[r] \in Int
  BY DEF Countable
<1>2. R \in SUBSET R
  OBVIOUS
<1> HIDE DEF f
<1>3. Summed(f, R) \in Int
  BY <1>1, <1>2, OverInt
<1> QED BY <1>3 DEF Total, f

\* What two sets of rows without a row in common count.
LEMMA TotalUnion ==
  ASSUME NEW c \in Counters, NEW R, NEW Q, R \cap Q = {}, Countable(R), Countable(Q)
  PROVE  Total(c, R \cup Q) = Total(c, R) + Total(c, Q)
<1> DEFINE f == [r \in R |-> Adds(r.line, c)]
           g == [r \in Q |-> Adds(r.line, c)]
           h == [r \in R \cup Q |-> Adds(r.line, c)]
<1>1. IsFiniteSet(R) /\ IsFiniteSet(Q) /\ \A r \in R \cup Q : h[r] \in Int
  BY DEF Countable
<1>2. (\A r \in R : f[r] = h[r]) /\ \A r \in Q : g[r] = h[r]
  OBVIOUS
<1> HIDE DEF f, g, h
<1>3. Summed(h, R \cup Q) = Summed(h, R) + Summed(h, Q)
  BY <1>1, OverUnion
<1>4. Summed(f, R) = Summed(h, R) /\ Summed(g, Q) = Summed(h, Q)
  BY <1>2, OverSame
<1> QED BY <1>3, <1>4 DEF Total, f, g, h

\* The members of a finite set of numbers have the ranks 1, 2, ...
LEMMA Ranks ==
  ASSUME NEW S \in SUBSET Nat, IsFiniteSet(S)
  PROVE  /\ \A i \in S : RankIn(S, i) \in 1..Cardinality(S)
         /\ \A i, j \in S : RankIn(S, i) = RankIn(S, j) => i = j
         /\ \A k \in 1..Cardinality(S) : \E i \in S : RankIn(S, i) = k
<1> DEFINE U(i) == {j \in S : j <= i}
           n == Cardinality(S)
           f == [i \in S |-> RankIn(S, i)]
<1>1. \A i \in S : IsFiniteSet(U(i)) /\ Cardinality(U(i)) \in Nat
                    /\ Cardinality(U(i)) <= n /\ n \in Nat
  BY FS_Subset, FS_CardinalityType
<1>2. \A i \in S : RankIn(S, i) \in 1..n
  <2> SUFFICES ASSUME NEW i \in S PROVE RankIn(S, i) \in 1..n
    OBVIOUS
  <2>1. i \in U(i)
    OBVIOUS
  <2>2. Cardinality(U(i)) # 0
    BY <1>1, <2>1, FS_EmptySet
  <2> QED BY <1>1, <2>2 DEF RankIn
<1>3. \A i, j \in S : i < j => RankIn(S, i) < RankIn(S, j)
  <2> SUFFICES ASSUME NEW i \in S, NEW j \in S, i < j PROVE RankIn(S, i) < RankIn(S, j)
    OBVIOUS
  <2>0. i \in Nat /\ j \in Nat
    OBVIOUS
  <2>1. U(i) \in SUBSET U(j) /\ j \in U(j) /\ j \notin U(i)
    <3>1. \A k \in S : k \in Nat /\ (k <= i => k <= j)
      BY <2>0
    <3>2. ~(j <= i) /\ j <= j
      BY <2>0
    <3>3. U(i) \in SUBSET U(j)
      BY <3>1
    <3>4. j \in U(j)
      BY <3>2
    <3>5. j \notin U(i)
      BY <3>2
    <3> QED BY <3>3, <3>4, <3>5
  <2>2. Cardinality(U(i)) < Cardinality(U(j))
    <3>1. IsFiniteSet(U(j)) /\ Cardinality(U(i)) \in Nat /\ Cardinality(U(j)) \in Nat
      BY <1>1
    <3> HIDE DEF U
    <3>2. Cardinality(U(i)) <= Cardinality(U(j))
          /\ (Cardinality(U(j)) = Cardinality(U(i)) => U(j) = U(i))
      BY <2>1, <3>1, FS_Subset
    <3> QED BY <2>1, <3>1, <3>2
  <2> QED BY <2>2 DEF RankIn
<1>4. \A i, j \in S : RankIn(S, i) = RankIn(S, j) => i = j
  <2> SUFFICES ASSUME NEW i \in S, NEW j \in S, RankIn(S, i) = RankIn(S, j) PROVE i = j
    OBVIOUS
  <2>1. i \in Int /\ j \in Int /\ RankIn(S, i) \in Int /\ RankIn(S, j) \in Int
    BY <1>2
  <2>2. ~(i < j) /\ ~(j < i)
    BY <1>3, <2>1
  <2> QED BY <2>1, <2>2
<1>5. f \in Injection(S, 1..n)
  BY <1>2, <1>4 DEF Injection, IsInjective
<1>6. n \in Nat /\ IsFiniteSet(1..n) /\ Cardinality(1..n) = n
  BY FS_CardinalityType, FS_Interval
<1>7. f \in Surjection(S, 1..n)
  BY <1>5, <1>6, FS_Injection
<1>8. \A k \in 1..n : \E i \in S : RankIn(S, i) = k
  BY <1>7 DEF Surjection
<1> QED BY <1>2, <1>4, <1>8

----------------------------
(* THE ROWS AND THEIR IDS *)

AllRows == rows \cup UNION {tx[u].mine : u \in Workers}
RowOK(r) == r \in [line : Lines, n : Nat \ {0}, ip : Nat, url : Nat]
RowsInv ==
  /\ IsFiniteSet(rows) /\ \A w \in Workers : IsFiniteSet(tx[w].mine)
  /\ \A r \in AllRows : RowOK(r)
  /\ \A r, q \in AllRows : r.n = q.n => r = q
  /\ \A w \in Workers : rows \cap tx[w].mine = {}
  /\ \A w, u \in Workers : w # u => tx[u].mine \cap tx[w].mine = {}

\* What any step does to the rows and to those of the open transactions.
Fewer ==
  /\ rows' \subseteq rows
  /\ \A u \in Workers : tx'[u].mine = tx[u].mine \/ tx'[u].mine = {}
Inserts(w) ==
  /\ rows' = rows /\ Only(w)
  /\ tx'[w].mine = {RowAt(tx[w], i) : i \in Taken(tx[w])} /\ tx[w].phase = "rows"
Commits(w) ==
  /\ Only(w) /\ rows' = rows \cup tx[w].mine /\ tx'[w].mine = {}
Imports ==
  /\ rows = {} /\ tx' = tx /\ \A w \in Workers : tx[w].mine = {}
  /\ dims' \in [Names -> Nat]
  /\ rows' = {[line |-> SetToSeq(old)[k], n |-> k, ip |-> dims'[SetToSeq(old)[k].ip],
               url |-> dims'[SetToSeq(old)[k].url]] : k \in DOMAIN SetToSeq(old)}

LEMMA MigrateRows ==
  ASSUME Migrate
  PROVE  rows' = {[line |-> SetToSeq(old)[k], n |-> k, ip |-> dims'[SetToSeq(old)[k].ip],
                   url |-> dims'[SetToSeq(old)[k].url]] : k \in DOMAIN SetToSeq(old)}
<1> DEFINE names == SetToSeq({l.ip : l \in old} \cup {l.url : l \in old})
           ids == [v \in Names |-> IF v \in ToSet(names)
                              THEN nextId - 1 + CHOOSE k \in DOMAIN names : names[k] = v
                              ELSE 0]
<1>1. /\ dims' = ids
      /\ rows' = {[line |-> SetToSeq(old)[k], n |-> k, ip |-> ids[SetToSeq(old)[k].ip],
                   url |-> ids[SetToSeq(old)[k].url]] : k \in DOMAIN SetToSeq(old)}
  BY DEF Migrate
<1> HIDE DEF ids
<1> QED BY <1>1

LEMMA RowMoves ==
  ASSUME IdsInv, [Next]_vars
  PROVE  Fewer \/ (\E w \in Workers : Inserts(w) \/ Commits(w)) \/ Imports
<1>0. Shape /\ OldFirst
  BY DEF IdsInv, Shape
<1>1. ASSUME Quiet PROVE Fewer
  BY <1>1 DEF Quiet, Restarted, Fewer
<1>2. ASSUME NEW w \in Workers, GetOrCreateDimID(w) PROVE Fewer
  <2>1. \A u \in Workers : tx'[u].mine = tx[u].mine
    BY <1>0, <1>2, DimSteps DEF Only
  <2> QED BY <1>2, <2>1 DEF GetOrCreateDimID, Fewer
<1>3. ASSUME NEW w \in Workers,
             BulkInsertLogRows(w) \/ NoVisit(w) \/ VisitOpens(w) \/ VisitExtends(w)
      PROVE  Fewer \/ Inserts(w)
  <2>1. rows' = rows
    BY <1>3, Zenon DEF BulkInsertLogRows, NoVisit, VisitOpens, VisitExtends, Visited
  <2> QED BY <2>1, <1>0, <1>3, RowSteps DEF Fewer, Inserts, Only
<1>4. ASSUME NEW w \in Workers, Commit(w) PROVE Commits(w)
  BY <1>0, <1>4, CommitSteps DEF Idle, Commits
<1>5. ASSUME NEW I, NEW risk, Removes(I, risk) PROVE Fewer
  BY <1>5 DEF Removes, Fewer
<1>6. CASE Migrate
  BY <1>0, <1>6, MigrateSteps, MigrateRows DEF Shape, TxShape, Imports
<1>7. ASSUME NEW w \in Workers, Begin(w) \/ Work(w) \/ Fail(w)
      PROVE  Fewer \/ Inserts(w) \/ Commits(w)
  BY <1>7, <1>0, <1>1, <1>2, <1>3, <1>4, RestartSteps DEF Work
<1>8. CASE Statement
  BY <1>8, <1>0, <1>1, <1>5, <1>6, StatementSteps, OtherSteps
<1>9. CASE \/ \E k \in {"clean", "clear", "rebuild"} : BeginJob(k)
           \/ StatementFails \/ Crash \/ UNCHANGED vars
  BY <1>9, <1>0, <1>1, OtherSteps
<1> QED BY <1>7, <1>8, <1>9 DEF Next

\* The rows that a transaction would insert have ids of their own.
LEMMA NewRows ==
  ASSUME Shape, RowsInv, NEW w \in Workers
  PROVE  /\ IsFiniteSet(Taken(tx[w]))
         /\ \A i \in Taken(tx[w]) :
              RowOK(RowAt(tx[w], i)) /\ \A r \in AllRows : r.n # RowAt(tx[w], i).n
         /\ \A i, j \in Taken(tx[w]) : RowAt(tx[w], i).n = RowAt(tx[w], j).n => i = j
<1> DEFINE t == tx[w]
           M == Max(Serials \cup {0})
           S == Taken(t)
<1>1. /\ S \subseteq 1..Len(t.batch) /\ Len(t.batch) \in Nat /\ S \in SUBSET Nat
      /\ \A i \in S : t.batch[i] \in Lines
  BY DEF Taken, Shape, TxShape
<1>2. IsFiniteSet(S)
  <2>1. 1 \in Int /\ Len(t.batch) \in Int /\ S \in SUBSET (1..Len(t.batch))
    BY <1>1
  <2> HIDE DEF S
  <2>2. IsFiniteSet(1..Len(t.batch))
    BY <2>1, FS_Interval
  <2> QED BY <2>1, <2>2, FS_Subset
<1>3. Serials \in SUBSET Nat /\ \A r \in AllRows : r.n \in Serials
  BY DEF Serials, AllRows, RowsInv, RowOK
<1>4. IsFiniteSet(Serials \cup {0})
  <2>1. IsFiniteSet({tx[u].mine : u \in Workers})
    <3> DEFINE f == [u \in Workers |-> tx[u].mine]
    <3>1. {tx[u].mine : u \in Workers} = {f[u] : u \in Workers}
      OBVIOUS
    <3> HIDE DEF f
    <3> QED BY <3>1, WorkersAssumption, ImageFinite
  <2>2. IsFiniteSet(UNION {tx[u].mine : u \in Workers})
    BY <2>1, FS_UNION DEF RowsInv
  <2>3. IsFiniteSet(rows \cup UNION {tx[u].mine : u \in Workers})
    BY <2>2, FS_Union DEF RowsInv
  <2>4. IsFiniteSet(Serials)
    <3> DEFINE D == rows \cup UNION {tx[u].mine : u \in Workers}
               f == [r \in D |-> r.n]
    <3>1. Serials = {f[r] : r \in D}
      BY DEF Serials
    <3> HIDE DEF f, D
    <3>2. IsFiniteSet(D)
      BY <2>3 DEF D
    <3> QED BY <3>1, <3>2, ImageFinite
  <2> QED BY <2>4, FS_AddElement
<1>5. M \in Nat /\ \A r \in AllRows : r.n <= M
  <2> DEFINE K == Serials \cup {0}
  <2>1. K \in SUBSET Nat /\ IsFiniteSet(K) /\ K # {}
    BY <1>3, <1>4
  <2>2. M \in K /\ \A y \in K : y <= M
    <3> HIDE DEF K
    <3> QED BY <2>1, MaxIs DEF K
  <2>3. M \in Nat
    BY <2>1, <2>2
  <2>4. \A r \in AllRows : r.n \in K
    BY <1>3
  <2> HIDE DEF K, M
  <2> QED BY <2>2, <2>3, <2>4
<1> HIDE DEF M, S
<1>6. /\ \A i \in S : RankIn(S, i) \in Nat \ {0}
      /\ \A i, j \in S : RankIn(S, i) = RankIn(S, j) => i = j
  <2>1. Cardinality(S) \in Nat
    BY <1>2, FS_CardinalityType
  <2> QED BY <2>1, <1>1, <1>2, Ranks
<1>7. \A i \in S : RowAt(t, i).line = t.batch[i] /\ RowAt(t, i).n = M + RankIn(S, i)
  BY DEF RowAt, M, S
<1>8. \A i \in S : RowOK(RowAt(t, i)) /\ RowAt(t, i).n > M
  <2> SUFFICES ASSUME NEW i \in S PROVE RowOK(RowAt(t, i)) /\ RowAt(t, i).n > M
    OBVIOUS
  <2>1. RankIn(S, i) \in Nat \ {0}
    BY <1>6
  <2>2. M + RankIn(S, i) \in Nat \ {0} /\ M + RankIn(S, i) > M
    BY <2>1, <1>5
  <2>3. t.batch[i] \in Lines /\ t.ids[t.batch[i].ip] \in Nat /\ t.ids[t.batch[i].url] \in Nat
    BY <1>1, NamesOf DEF Shape, TxShape
  <2>4. RowAt(t, i) = [line |-> t.batch[i], ip |-> t.ids[t.batch[i].ip],
                       url |-> t.ids[t.batch[i].url], n |-> M + RankIn(S, i)]
    BY DEF RowAt, M, S
  <2> QED BY <2>2, <2>3, <2>4 DEF RowOK
<1>9. \A i, j \in S : RowAt(t, i).n = RowAt(t, j).n => i = j
  <2> SUFFICES ASSUME NEW i \in S, NEW j \in S, RowAt(t, i).n = RowAt(t, j).n
               PROVE  i = j
    OBVIOUS
  <2>1. RankIn(S, i) \in Nat /\ RankIn(S, j) \in Nat
    BY <1>6
  <2>2. M + RankIn(S, i) = M + RankIn(S, j)
    BY <1>7
  <2>3. RankIn(S, i) = RankIn(S, j)
    BY <2>1, <2>2, <1>5
  <2> QED BY <2>3, <1>6
<1>10. \A i \in S, r \in AllRows : r.n # RowAt(t, i).n
  <2> SUFFICES ASSUME NEW i \in S, NEW r \in AllRows PROVE r.n # RowAt(t, i).n
    OBVIOUS
  <2>1. r.n \in Nat /\ r.n <= M /\ RowAt(t, i).n > M /\ RowAt(t, i).n \in Nat
    BY <1>5, <1>8 DEF RowsInv, RowOK
  <2> QED BY <2>1, <1>5
<1> QED BY <1>2, <1>8, <1>9, <1>10 DEF S

LEMMA RowsStep ==
  ASSUME IdsInv, RowsInv, [Next]_vars
  PROVE  RowsInv'
<1>0. Shape
  BY DEF IdsInv
<1>1. CASE Fewer
  <2>1. rows' \subseteq rows /\ \A u \in Workers : tx'[u].mine \subseteq tx[u].mine
    BY <1>1 DEF Fewer
  <2>2. AllRows' \subseteq AllRows
    BY <2>1 DEF AllRows
  <2>3. IsFiniteSet(rows') /\ \A w \in Workers : IsFiniteSet(tx'[w].mine)
    BY <2>1, FS_Subset DEF RowsInv
  <2>4. \A w \in Workers : rows' \cap tx'[w].mine = {}
    BY <2>1 DEF RowsInv
  <2>5. \A w, u \in Workers : w # u => tx'[u].mine \cap tx'[w].mine = {}
    <3> SUFFICES ASSUME NEW w \in Workers, NEW u \in Workers, w # u
                 PROVE  tx'[u].mine \cap tx'[w].mine = {}
      OBVIOUS
    <3>1. tx[u].mine \cap tx[w].mine = {}
      BY DEF RowsInv
    <3> QED BY <3>1, <2>1
  <2> QED BY <2>2, <2>3, <2>4, <2>5 DEF RowsInv, RowOK
<1>2. ASSUME NEW w \in Workers, Inserts(w) PROVE RowsInv'
  <2> DEFINE t == tx[w]
             S == Taken(t)
             N == {RowAt(t, i) : i \in S}
  <2>1. /\ IsFiniteSet(S)
        /\ \A i \in S : RowOK(RowAt(t, i)) /\ \A r \in AllRows : r.n # RowAt(t, i).n
        /\ \A i, j \in S : RowAt(t, i).n = RowAt(t, j).n => i = j
    BY <1>0, NewRows
  <2>2. tx'[w].mine = N /\ rows' = rows /\ \A u \in Workers \ {w} : tx'[u] = tx[u]
    BY <1>2 DEF Inserts, Only
  <2> HIDE DEF S
  <2>3. IsFiniteSet(N)
    <3> DEFINE f == [i \in S |-> RowAt(t, i)]
    <3>1. N = {f[i] : i \in S}
      OBVIOUS
    <3> HIDE DEF f, N
    <3> QED BY <2>1, <3>1, ImageFinite
  <2>4. /\ \A r \in N : RowOK(r) /\ \A q \in N : r.n = q.n => r = q
        /\ \A r \in AllRows, q \in N : r.n # q.n
    BY <2>1
  <2> HIDE DEF N
  <2>5. AllRows' \subseteq AllRows \cup N
    BY <2>2 DEF AllRows
  <2>6. \A r \in AllRows' : RowOK(r)
    BY <2>4, <2>5 DEF RowsInv
  <2>7. \A r, q \in AllRows' : r.n = q.n => r = q
    BY <2>4, <2>5 DEF RowsInv
  <2>8. N \cap AllRows = {}
    BY <2>4
  <2>9. rows \subseteq AllRows /\ \A u \in Workers : tx[u].mine \subseteq AllRows
    BY DEF AllRows
  <2> QED BY <2>2, <2>3, <2>6, <2>7, <2>8, <2>9 DEF RowsInv, RowOK
<1>3. ASSUME NEW w \in Workers, Commits(w) PROVE RowsInv'
  <2>1. /\ rows' = rows \cup tx[w].mine /\ tx'[w].mine = {}
        /\ \A u \in Workers \ {w} : tx'[u] = tx[u]
    BY <1>3 DEF Commits, Only
  <2>2. AllRows' \subseteq AllRows
    BY <2>1 DEF AllRows
  <2>3. IsFiniteSet(rows') /\ \A u \in Workers : IsFiniteSet(tx'[u].mine)
    BY <2>1, FS_Union, FS_EmptySet DEF RowsInv
  <2>4. \A u \in Workers : rows' \cap tx'[u].mine = {}
    BY <2>1 DEF RowsInv
  <2>5. \A v, u \in Workers : v # u => tx'[u].mine \cap tx'[v].mine = {}
    BY <2>1 DEF RowsInv
  <2> QED BY <2>2, <2>3, <2>4, <2>5 DEF RowsInv, RowOK
<1>4. CASE Imports
  <2> DEFINE lines == SetToSeq(old)
             row(k) == [line |-> lines[k], n |-> k, ip |-> dims'[lines[k].ip],
                        url |-> dims'[lines[k].url]]
  <2>1. IsFiniteSet(old) /\ old \subseteq Lines
    <3>1. old \in SUBSET OldLines /\ IsFiniteSet(OldLines)
      BY <1>0, LinesAssumption DEF Shape
    <3> QED BY <3>1, OldLinesOf, FS_Subset
  <2>2. lines \in Seq(old)
    BY <2>1, Numbered
  <2>3. rows' = {row(k) : k \in DOMAIN lines} /\ \A u \in Workers : tx'[u].mine = {}
    BY <1>4 DEF Imports
  <2> HIDE DEF lines
  <2>4. \A k \in DOMAIN lines : k \in Nat \ {0} /\ lines[k] \in Lines
    BY <2>1, <2>2
  <2>10. dims' \in [Names -> Nat]
    BY <1>4 DEF Imports
  <2>5. \A k \in DOMAIN lines : RowOK(row(k)) /\ row(k).n = k
    BY <2>4, <2>10, NamesOf DEF RowOK
  <2>6. IsFiniteSet(rows')
    <3>1. IsFiniteSet(DOMAIN lines)
      BY <2>2, FS_Interval
    <3> DEFINE f == [k \in DOMAIN lines |-> row(k)]
    <3>2. rows' = {f[k] : k \in DOMAIN lines}
      BY <2>3
    <3> HIDE DEF f
    <3> QED BY <3>1, <3>2, ImageFinite
  <2> HIDE DEF row
  <2>7. \A r \in rows' : RowOK(r) /\ \A q \in rows' : r.n = q.n => r = q
    BY <2>3, <2>5
  <2>8. AllRows' = rows'
    BY <2>3 DEF AllRows
  <2>9. \A u \in Workers : IsFiniteSet(tx'[u].mine)
    BY <2>3, FS_EmptySet
  <2> QED BY <2>3, <2>6, <2>7, <2>8, <2>9 DEF RowsInv, RowOK
<1> QED BY <1>1, <1>2, <1>3, <1>4, RowMoves

LEMMA InitRows == Init => RowsInv
<1> SUFFICES ASSUME Init PROVE RowsInv
  OBVIOUS
<1>1. rows = {} /\ \A w \in Workers : tx[w].mine = {}
  BY DEF Init, Idle
<1>2. AllRows = {}
  BY <1>1 DEF AllRows
<1> QED BY <1>1, <1>2, FS_EmptySet DEF RowsInv

USE LinesAssumption

----------------------------
(* WHAT THE COUNTERS OF TWO SETS OF ROWS ADD UP TO *)

LEMMA AddsInt == \A l \in Lines : \A c \in Counters : Adds(l, c) \in Int
BY DEF Adds

\* The rows of the table and of the transactions can be counted.
Stocked(R) == IsFiniteSet(R) /\ \A r \in R : r.line \in Lines
LEMMA StockedCounts ==
  ASSUME NEW R, Stocked(R), NEW Q \in SUBSET R
  PROVE  Stocked(Q) /\ Countable(Q)
<1>1. IsFiniteSet(Q)
  BY FS_Subset DEF Stocked
<1> QED BY <1>1, AddsInt DEF Stocked, Countable

LEMMA TallyIs == \A R : Tally(R) = [c \in Counters |-> Total(c, R)]
<1> TAKE R
<1>1. \A c \in Counters : SumOf([r \in R |-> Adds(r.line, c)]) = Total(c, R)
  <2> TAKE c \in Counters
  <2> DEFINE f == [r \in R |-> Adds(r.line, c)]
  <2>1. f = [x \in R |-> f[x]]
    OBVIOUS
  <2> HIDE DEF f
  <2>2. SumOf(f) = Summed(f, R)
    BY <2>1, OverAll
  <2> QED BY <2>2 DEF f, Total
<1> QED BY <1>1 DEF Tally

LEMMA TallyNone == Tally({}) = Zero
BY TallyIs, TotalNone DEF Zero

LEMMA TallyUnion ==
  ASSUME NEW R, NEW Q, Stocked(R), Stocked(Q), R \cap Q = {}
  PROVE  Tally(R \cup Q) = Plus(Tally(R), Tally(Q))
<1>1. \A c \in Counters : Total(c, R \cup Q) = Total(c, R) + Total(c, Q)
  BY StockedCounts, TotalUnion
<1> QED BY <1>1, TallyIs DEF Plus

\* The first page views of two sets of rows are the earlier ones of each.
LEMMA FirstUnion ==
  ASSUME NEW R, NEW Q, Stocked(R), Stocked(Q)
  PROVE  Earliest(FirstViews(R), FirstViews(Q)) = FirstViews(R \cup Q)
<1> DEFINE At1(S, i) == {r.line.ts : r \in {v \in Views(S) : v.ip = i}}
           D(S) == {r.ip : r \in Views(S)}
           f == FirstViews(R)
           g == FirstViews(Q)
           M(i) == {k[i] : k \in {x \in {f, g} : i \in DOMAIN x}}
<1>1. DOMAIN f = D(R) /\ DOMAIN g = D(Q) /\ D(R \cup Q) = D(R) \cup D(Q)
  BY DEF FirstViews, Views
<1>2. \A i \in D(R) : f[i] = Min(At1(R, i))
  BY DEF FirstViews
<1>3. \A i \in D(Q) : g[i] = Min(At1(Q, i))
  BY DEF FirstViews
<1>4. \A i : /\ At1(R, i) \in SUBSET Nat /\ At1(Q, i) \in SUBSET Nat
             /\ At1(R \cup Q, i) = At1(R, i) \cup At1(Q, i)
             /\ (At1(R, i) # {} <=> i \in D(R)) /\ (At1(Q, i) # {} <=> i \in D(Q))
  BY DEF Stocked, Views
<1>5. Earliest(f, g) = [i \in DOMAIN f \cup DOMAIN g |-> Min(M(i))]
  BY DEF Earliest
<1>6. FirstViews(R \cup Q) = [i \in D(R \cup Q) |-> Min(At1(R \cup Q, i))]
  BY DEF FirstViews
<1>7. ASSUME NEW i \in D(R) \cup D(Q) PROVE Min(M(i)) = Min(At1(R \cup Q, i))
  <2> DEFINE A == At1(R, i)
             B == At1(Q, i)
             C == A \cup B
  <2>0. At1(R \cup Q, i) = C
    BY <1>4
  <2>1. A \in SUBSET Nat /\ B \in SUBSET Nat
    BY <1>4
  <2>2. /\ A # {} <=> i \in DOMAIN f
        /\ B # {} <=> i \in DOMAIN g
    BY <1>1, <1>4
  <2>3. M(i) = {x \in {f[i]} : i \in DOMAIN f} \cup {x \in {g[i]} : i \in DOMAIN g}
    OBVIOUS
  <2>4. (A # {} => f[i] = Min(A)) /\ (B # {} => g[i] = Min(B))
    BY <1>1, <1>2, <1>3, <2>2
  <2> DEFINE N == {x \in {Min(A)} : A # {}} \cup {x \in {Min(B)} : B # {}}
  <2> HIDE DEF A, B, M, f, g, D
  <2>5. M(i) = N
    BY <2>2, <2>3, <2>4
  <2>6. C # {} /\ C \in SUBSET Nat
    BY <1>1, <1>7, <2>1, <2>2
  <2>7. N \in SUBSET C /\ N # {} /\ \A x \in C : \E y \in N : y <= x
    <3>1. A # {} => Min(A) \in A /\ \A y \in A : Min(A) <= y
      BY <2>1, MinIs
    <3>2. B # {} => Min(B) \in B /\ \A y \in B : Min(B) <= y
      BY <2>1, MinIs
    <3> QED BY <2>6, <3>1, <3>2
  <2> HIDE DEF N, C
  <2>8. Min(C) \in C /\ \A y \in C : Min(C) <= y
    BY <2>6, MinIs
  <2>9. Min(N) \in N /\ \A y \in N : Min(N) <= y
    <3>1. N \in SUBSET Nat /\ N # {}
      BY <2>6, <2>7
    <3> QED BY <3>1, MinIs
  <2>10. Min(N) \in Nat /\ Min(C) \in Nat /\ Min(C) <= Min(N)
    BY <2>6, <2>7, <2>8, <2>9
  <2>11. PICK y \in N : y <= Min(C)
    BY <2>7, <2>8
  <2>12. Min(N) <= y /\ y \in Nat
    BY <2>6, <2>7, <2>9, <2>11
  <2>13. Min(N) = Min(C)
    BY <2>10, <2>11, <2>12
  <2> QED BY <2>0, <2>5, <2>13
<1> HIDE DEF f, g, D, M, At1
<1>8. Earliest(f, g) = [i \in D(R \cup Q) |-> Min(At1(R \cup Q, i))]
  BY <1>1, <1>5, <1>7
<1> QED BY <1>6, <1>8 DEF f, g

LEMMA FirstNone == FirstViews({}) = <<>>
<1>1. {r.ip : r \in Views({})} = {}
  BY DEF Views
<1>2. <<>> = [i \in {} |-> Min({r.line.ts : r \in {v \in Views({}) : v.ip = i}})]
  OBVIOUS
<1> QED BY <1>1, <1>2 DEF FirstViews

----------------------------
(* COUNTING AN IMAGE *)

\* f does not send two elements of D to one.
Apart(f, D) == \A x, y \in D : f[x] = f[y] => x = y
LEMMA SameSize ==
  ASSUME NEW D, IsFiniteSet(D), NEW f, Apart(f, D)
  PROVE  Cardinality({f[x] : x \in D}) = Cardinality(D) /\ Cardinality(D) \in Nat
<1> DEFINE E == {f[x] : x \in D}
           g == [x \in D |-> f[x]]
<1>1. g \in Bijection(D, E)
  BY DEF Bijection, Injection, Surjection, IsInjective, Apart
<1>2. IsFiniteSet(D)
  OBVIOUS
<1> HIDE DEF g, E
<1>3. ExistsBijection(D, E)
  BY <1>1 DEF ExistsBijection
<1>4. Cardinality(E) = Cardinality(D)
  BY <1>2, <1>3, FS_Bijection
<1> QED BY <1>2, <1>4, FS_CardinalityType DEF E

----------------------------
(* WHAT A TRANSACTION INSERTS OF ITS BATCH *)

PlacesOf(b, l) == {i \in DOMAIN b : b[i] = l}
\* The same lines, as often.
Rearranged(s, b) ==
  /\ ToSet(s) = ToSet(b)
  /\ \A l : Cardinality(PlacesOf(s, l)) = Cardinality(PlacesOf(b, l))
RowsFor(R, l) == {r \in R : r.line = l}
\* Every line is stored: with a fingerprint once, or it was removed since;
\* without one as often as the batch has it.
Fulfilled(t, R, gone) ==
  /\ \A r \in t.mine : r.line \in ToSet(t.batch)
  /\ \A l \in ToSet(t.batch) :
       /\ l.fp => l \in gone \/ \E r \in R \cup t.mine : r.line = l
       /\ ~l.fp => Cardinality(RowsFor(t.mine, l)) = Cardinality(PlacesOf(t.batch, l))
BatchInv ==
  /\ daily = [d \in Days |-> daily[d]]
  /\ \A w \in Workers :
       /\ tx[w].phase # "idle" => \E b \in Batches : Rearranged(tx[w].batch, b)
       /\ tx[w].phase = "visits" => Fulfilled(tx[w], rows, dropped)

LEMMA SortedRearranges ==
  ASSUME NEW b \in Seq(Lines) \ {<<>>}, NEW s \in SortForLocking(b)
  PROVE  Rearranged(s, b)
<1> DEFINE D == DOMAIN b
<1>1. PICK p \in Injection(D, D) : s = [k \in D |-> b[p[k]]]
  BY DEF SortForLocking
<1>2. IsFiniteSet(D)
  <2>1. D = 1..Len(b) /\ 1 \in Int /\ Len(b) \in Int
    OBVIOUS
  <2> HIDE DEF D
  <2> QED BY <2>1, FS_Interval
<1>3. p \in Surjection(D, D)
  <2> HIDE DEF D
  <2> QED BY <1>1, <1>2, FS_Injection
<1>4. /\ p \in [D -> D] /\ \A x \in D : \E k \in D : p[k] = x
      /\ \A j, k \in D : p[j] = p[k] => j = k
  BY <1>1, <1>3 DEF Injection, Surjection, IsInjective
<1>5. DOMAIN s = D /\ \A k \in D : s[k] = b[p[k]]
  BY <1>1
<1>6. ToSet(s) = ToSet(b)
  <2>1. \A v : v \in ToSet(s) <=> \E k \in D : s[k] = v
    BY <1>5 DEF ToSet
  <2>2. \A v : v \in ToSet(b) <=> \E k \in D : b[k] = v
    BY DEF ToSet
  <2> HIDE DEF D
  <2>3. \A k \in D : p[k] \in D /\ s[k] = b[p[k]]
    BY <1>4, <1>5
  <2>4. \A x \in D : \E k \in D : s[k] = b[x]
    BY <1>4, <1>5
  <2>5. \A v : v \in ToSet(s) <=> v \in ToSet(b)
    <3> TAKE v
    <3>1. ASSUME v \in ToSet(s) PROVE v \in ToSet(b)
      <4>1. PICK k \in D : s[k] = v
        BY <2>1, <3>1
      <4>2. p[k] \in D /\ b[p[k]] = v
        BY <2>3, <4>1
      <4> QED BY <2>2, <4>2
    <3>2. ASSUME v \in ToSet(b) PROVE v \in ToSet(s)
      <4>1. PICK x \in D : b[x] = v
        BY <2>2, <3>2
      <4>2. PICK k \in D : s[k] = b[x]
        BY <2>4
      <4> QED BY <2>1, <4>1, <4>2
    <3> QED BY <3>1, <3>2
  <2> QED BY <2>5
<1>7. ASSUME NEW l PROVE Cardinality(PlacesOf(s, l)) = Cardinality(PlacesOf(b, l))
  <2> DEFINE P == PlacesOf(s, l)
  <2> HIDE DEF D
  <2>1. PlacesOf(b, l) = {p[k] : k \in P}
    BY <1>4, <1>5 DEF PlacesOf, D
  <2>2. IsFiniteSet(P) /\ Apart(p, P)
    BY <1>2, <1>4, <1>5, FS_Subset DEF PlacesOf, Apart
  <2> HIDE DEF P
  <2>3. Cardinality({p[k] : k \in P}) = Cardinality(P)
    BY <2>2, SameSize
  <2> QED BY <2>1, <2>3 DEF P
<1> QED BY <1>6, <1>7 DEF Rearranged

\* Inserting the rows stores every line.
LEMMA InsertFulfills ==
  ASSUME NEW t, TxShape(t), NEW m, m.batch = t.batch, m.mine = {RowAt(t, i) : i \in Taken(t)},
         \A r, q \in m.mine : r.n = q.n => r = q,
         \A i, j \in Taken(t) : RowAt(t, i).n = RowAt(t, j).n => i = j
  PROVE  Fulfilled(m, rows, dropped)
<1> DEFINE b == t.batch
           S == Taken(t)
<1>1. b \in Seq(Lines) /\ DOMAIN b = 1..Len(b) /\ Len(b) \in Nat
  BY DEF TxShape
<1>2. S \in SUBSET (1..Len(b)) /\ IsFiniteSet(S)
  <2>1. S \in SUBSET (1..Len(b))
    BY DEF Taken
  <2>2. IsFiniteSet(1..Len(b))
    BY <1>1, FS_Interval
  <2> HIDE DEF S, b
  <2> QED BY <2>1, <2>2, FS_Subset
<1>3. ToSet(b) = {b[i] : i \in 1..Len(b)}
  BY <1>1 DEF ToSet
<1>4. \A i \in S : RowAt(t, i).line = b[i]
  BY DEF RowAt
<1>5. \A r \in m.mine : r.line \in ToSet(b)
  BY <1>2, <1>3, <1>4
<1>6. ASSUME NEW l \in ToSet(b), l.fp PROVE \E r \in rows \cup m.mine : r.line = l
  <2>1. CASE Stored(l)
    BY <2>1 DEF Stored
  <2>2. CASE ~Stored(l)
    <3> DEFINE P == {i \in 1..Len(b) : b[i] = l}
               i == Min(P)
    <3>1. P \in SUBSET Nat /\ P # {}
      BY <1>3, <1>6
    <3> HIDE DEF P
    <3>2. i \in P /\ \A j \in P : i <= j
      BY <3>1, MinIs
    <3> HIDE DEF i
    <3>3. i \in 1..Len(b) /\ b[i] = l /\ \A j \in 1..(i - 1) : b[j] # l
      <4>1. i \in 1..Len(b) /\ b[i] = l /\ Len(b) \in Nat
        BY <3>2, <1>1 DEF P
      <4>2. \A j \in 1..(i - 1) : j \in 1..Len(b) /\ ~(i <= j)
        BY <4>1
      <4> QED BY <3>2, <4>1, <4>2 DEF P
    <3>4. i \in S
      BY <2>2, <3>3 DEF Taken
    <3> QED BY <1>4, <3>3, <3>4
  <2> QED BY <2>1, <2>2
<1>7. ASSUME NEW l \in ToSet(b), ~l.fp
      PROVE  Cardinality(RowsFor(m.mine, l)) = Cardinality(PlacesOf(b, l))
  <2> DEFINE P == PlacesOf(b, l)
             f == [i \in P |-> RowAt(t, i)]
  <2>1. P = {i \in S : b[i] = l}
    <3>1. \A i \in 1..Len(b) : b[i] = l => i \in S
      BY <1>7 DEF Taken
    <3> QED BY <1>1, <1>2, <3>1 DEF PlacesOf
  <2>2. RowsFor(m.mine, l) = {RowAt(t, i) : i \in P}
    <3> HIDE DEF S, b, P
    <3>1. m.mine = {RowAt(t, i) : i \in S}
      BY DEF S
    <3>2. \A r : r \in RowsFor(m.mine, l) <=> r \in {RowAt(t, i) : i \in P}
      <4> TAKE r
      <4>1. r \in RowsFor(m.mine, l) <=> \E i \in S : r = RowAt(t, i) /\ r.line = l
        BY <3>1 DEF RowsFor
      <4>2. r \in {RowAt(t, i) : i \in P} <=> \E i \in S : r = RowAt(t, i) /\ b[i] = l
        BY <2>1
      <4> QED BY <1>4, <4>1, <4>2
    <3> QED BY <3>2
  <2>3. RowsFor(m.mine, l) = {f[i] : i \in P}
    BY <2>2
  <2>4. IsFiniteSet(P)
    <3>1. P \in SUBSET S
      BY <2>1
    <3> HIDE DEF P, S
    <3> QED BY <3>1, <1>2, FS_Subset
  <2>5. Apart(f, P)
    <3>1. \A i, j \in P : RowAt(t, i) = RowAt(t, j) => i = j
      BY <2>1
    <3> HIDE DEF P
    <3> QED BY <3>1 DEF Apart
  <2> HIDE DEF f, P
  <2>6. Cardinality({f[i] : i \in P}) = Cardinality(P)
    BY <2>4, <2>5, SameSize
  <2> QED BY <2>3, <2>6 DEF P
<1> QED BY <1>5, <1>6, <1>7 DEF Fulfilled

LEMMA FulfilledStill ==
  ASSUME NEW t, NEW R, NEW Q, NEW gone, NEW more, Fulfilled(t, R, gone),
         gone \subseteq more, \A r \in R : r \in Q \/ r.line \in more
  PROVE  Fulfilled(t, Q, more)
BY DEF Fulfilled

----------------------------
(* WHAT A STEP DOES TO THE BATCHES *)

\* A transaction is given a batch, keeps it, or ends.
Given(t) == t.phase = "dims" /\ \E b \in Batches : t.batch \in SortForLocking(b)
Keeping(t, m) ==
  /\ t.phase # "idle" /\ m.batch = t.batch
  /\ \/ m.phase \in {"dims", "rows"}
     \/ m.phase = "visits" /\ t.phase = "visits" /\ m.mine = t.mine
Inserting(w) ==
  /\ tx[w].phase = "rows" /\ tx'[w].phase = "visits" /\ tx'[w].batch = tx[w].batch
  /\ tx'[w].mine = {RowAt(tx[w], i) : i \in Taken(tx[w])}
  /\ UNCHANGED <<rows, dropped>>
Ended(m) == m.phase = "idle"

LEMMA SameKeeping ==
  ASSUME NEW t, TxShape(t)
  PROVE  Ended(t) \/ Keeping(t, t)
BY DEF TxShape, Phases, Ended, Keeping

LEMMA BatchMoves ==
  ASSUME Shape, [Next]_vars, NEW w \in Workers
  PROVE  Ended(tx'[w]) \/ Given(tx'[w]) \/ Keeping(tx[w], tx'[w]) \/ Inserting(w)
<1> DEFINE Goal == Ended(tx'[w]) \/ Given(tx'[w]) \/ Keeping(tx[w], tx'[w]) \/ Inserting(w)
<1>0. TxShape(tx[w]) /\ Ended(Idle)
  BY DEF Shape, Ended, Idle
<1>1. ASSUME tx'[w] = tx[w] PROVE Goal
  BY <1>0, <1>1, SameKeeping
<1>2. ASSUME NEW u \in Workers, Begin(u) PROVE Goal
  <2>1. PICK b \in left.of : \E s \in SortForLocking(b) : tx' = [tx EXCEPT ![u] = Attempt(s, 1)]
    BY <1>2 DEF Begin
  <2>2. PICK s \in SortForLocking(b) : tx' = [tx EXCEPT ![u] = Attempt(s, 1)]
    BY <2>1
  <2>3. b \in Batches
    BY DEF Shape, Lefts
  <2>4. Attempt(s, 1).phase = "dims" /\ Attempt(s, 1).batch = s
    BY DEF Attempt, Idle
  <2>5. u # w => tx'[w] = tx[w]
    BY <2>2 DEF Shape
  <2>6. u = w => tx'[w] = Attempt(s, 1)
    BY <2>2 DEF Shape
  <2>7. Given(Attempt(s, 1))
    BY <2>3, <2>4 DEF Given
  <2> HIDE DEF Goal
  <2>8. u = w => Goal
    BY <2>6, <2>7 DEF Goal
  <2> QED BY <2>5, <2>8, <1>1
<1>3. ASSUME NEW u \in Workers, DeadlockVictim(u) PROVE Goal
  <2>1. tx' = [tx EXCEPT ![u] = IF tx[u].attempt < MaxAttempts
                                THEN Attempt(tx[u].batch, tx[u].attempt + 1) ELSE Idle]
    BY <1>3 DEF DeadlockVictim, Shape
  <2>2. tx[u].phase # "idle"
    BY <1>3 DEF DeadlockVictim, Deadlocked, Waits
  <2>3. u # w => tx'[w] = tx[w]
    BY <2>1 DEF Shape
  <2>4. u = w => tx'[w] = Idle \/ tx'[w] = Attempt(tx[w].batch, tx[w].attempt + 1)
    BY <2>1 DEF Shape
  <2>5. u = w => Keeping(tx[w], Attempt(tx[w].batch, tx[w].attempt + 1))
    BY <2>2 DEF Keeping, Attempt, Idle
  <2> HIDE DEF Goal
  <2>6. u = w => Goal
    BY <2>4, <2>5, <1>0 DEF Goal
  <2> QED BY <2>3, <2>6, <1>1
<1>4. ASSUME NEW u \in Workers, Fail(u) \/ Commit(u) PROVE Goal
  <2>1. tx' = [tx EXCEPT ![u] = Idle]
    BY <1>4 DEF Fail, Commit
  <2>2. tx'[w] = tx[w] \/ tx'[w] = Idle
    BY <2>1 DEF Shape
  <2> QED BY <2>2, <1>0, <1>1
<1>5. ASSUME NEW u \in Workers, GetOrCreateDimID(u) PROVE Goal
  <2>1. u # w => tx'[w] = tx[w]
    BY <1>5, DimSteps DEF Only
  <2>2. u = w => /\ tx[w].phase = "dims" /\ tx'[w].batch = tx[w].batch
                 /\ tx'[w].phase = IF tx[w].at = 2 * Len(tx[w].batch) THEN "rows" ELSE "dims"
    BY <1>5, DimSteps
  <2>3. u = w => Keeping(tx[w], tx'[w])
    BY <2>2 DEF Keeping
  <2> QED BY <2>1, <2>3, <1>1
<1>6. ASSUME NEW u \in Workers,
             BulkInsertLogRows(u) \/ NoVisit(u) \/ VisitOpens(u) \/ VisitExtends(u)
      PROVE  Goal
  <2>1. u # w => tx'[w] = tx[w]
    BY <1>6, RowSteps DEF Only
  <2>2. UNCHANGED <<rows, dropped>>
    BY <1>6, Zenon DEF BulkInsertLogRows, NoVisit, VisitOpens, VisitExtends, Visited, history
  <2>3. /\ tx'[u].batch = tx[u].batch /\ tx'[u].phase = "visits"
        /\ \/ tx'[u].mine = tx[u].mine /\ tx[u].phase = "visits"
           \/ /\ tx'[u].mine = {RowAt(tx[u], i) : i \in Taken(tx[u])}
              /\ tx[u].phase = "rows"
    BY <1>6, RowSteps
  <2>4. Keeping(tx[u], tx'[u]) \/ Inserting(u)
    BY <2>2, <2>3 DEF Keeping, Inserting
  <2> QED BY <2>1, <2>4, <1>1
<1>7. ASSUME tx' = tx \/ tx' = [u \in Workers |-> Idle] PROVE Goal
  <2>1. tx'[w] = tx[w] \/ tx'[w] = Idle
    BY <1>7
  <2> QED BY <2>1, <1>0, <1>1
<1>8. ASSUME NEW u \in Workers, Begin(u) \/ Work(u) \/ Fail(u) PROVE Goal
  BY <1>8, <1>2, <1>3, <1>4, <1>5, <1>6 DEF Work
<1>9. CASE Statement
  <2>1. tx' = tx
    BY <1>9, StatementSteps, MigrateSteps DEF Shape, Deletes, Removes
  <2> QED BY <2>1, <1>7
<1>10. CASE \/ \E k \in {"clean", "clear", "rebuild"} : BeginJob(k)
            \/ StatementFails \/ Crash \/ UNCHANGED vars
  <2>1. tx' = tx \/ tx' = [u \in Workers |-> Idle]
    BY <1>10 DEF BeginJob, StatementFails, Crash, vars
  <2> QED BY <2>1, <1>7
<1> QED BY <1>8, <1>9, <1>10 DEF Next

\* A row goes only when its line is noted as removed.
StoreKept ==
  /\ dropped \subseteq dropped'
  /\ \A r \in rows : r \in rows' \/ r.line \in dropped'

\* What a step does to the rows and to the counters of the days.
Still == UNCHANGED <<rows, dropped, daily>>
Drops(R) ==
  /\ R \subseteq rows /\ rows' = rows \ R
  /\ dropped' = dropped \cup {r.line : r \in R}
  /\ UNCHANGED daily
Counts ==
  /\ UNCHANGED <<rows, dropped>>
  /\ daily' = [d \in Days |-> daily'[d]]
  /\ \A d \in Days : daily'[d] \in {daily[d], Zero, Tally(InDay(rows, d))}

LEMMA JobRemoves ==
  ASSUME DeleteOldRows \/ DeleteRows \/ DeleteRange
  PROVE  Still \/ \E R : Drops(R)
<1>1. CASE DeleteOldRows
  BY <1>1 DEF DeleteOldRows, RemoveRows, Still, Drops, counts
<1>2. CASE DeleteRows
  BY <1>2 DEF DeleteRows, RemoveRows, Drops, counts
<1>3. CASE DeleteRange
  <2>1. PICK g \in Ranges : RemoveRows({r \in rows : r.line.ts >= g[1] /\ r.line.ts < g[2]},
                                       {"counts", "first", "pages"})
    BY <1>3 DEF DeleteRange
  <2> QED BY <2>1 DEF RemoveRows, Drops, counts
<1> QED BY <1>1, <1>2, <1>3

LEMMA JobCounts ==
  ASSUME daily = [d \in Days |-> daily[d]],
         \/ DeleteOldBuckets \/ RebuildHour \/ RebuildDay \/ BackfillAggregates
         \/ AggregatesIfEmpty \/ ClearAggregates
  PROVE  Counts
<1>1. CASE DeleteOldBuckets
  BY <1>1 DEF DeleteOldBuckets, SetCounts, Counts
<1>2. CASE RebuildHour
  BY <1>2 DEF RebuildHour, SetCounts, Counts
<1>3. CASE RebuildDay
  BY <1>3 DEF RebuildDay, SetCounts, Counts
<1>4. ASSUME Recount PROVE Counts
  BY <1>4 DEF Recount, SetCounts, Counts
<1>5. CASE AggregatesIfEmpty
  BY <1>4, <1>5 DEF AggregatesIfEmpty, Counts, counts, history
<1>6. CASE ClearAggregates
  BY <1>6 DEF ClearAggregates, SetCounts, Counts
<1>7. CASE BackfillAggregates
  BY <1>4, <1>7 DEF BackfillAggregates
<1> QED BY <1>1, <1>2, <1>3, <1>5, <1>6, <1>7

LEMMA JobLeaves ==
  ASSUME Statement
  PROVE  \/ Still \/ Migrate
         \/ DeleteOldRows \/ DeleteRows \/ DeleteRange
         \/ DeleteOldBuckets \/ RebuildHour \/ RebuildDay \/ BackfillAggregates
         \/ AggregatesIfEmpty \/ ClearAggregates
<1>1. CASE DeleteOrphans \/ ClearDims
  BY <1>1 DEF DeleteOrphans, ClearDims, RemoveIds, Still, counts
<1>2. CASE BackfillFirstSeen \/ FirstSeenIfEmpty \/ ClearFirstSeen
  BY <1>2 DEF BackfillFirstSeen, FirstSeenIfEmpty, ClearFirstSeen, SetFirstSeen, Still, counts, history
<1>3. CASE DeleteOldSessions \/ DeleteState \/ InsertState \/ ClearSessions \/ ClearState
  BY <1>3 DEF DeleteOldSessions, DeleteState, InsertState, ClearSessions, ClearState,
              SetSessions, Still, counts
<1>4. ASSUME Resession PROVE Still
  BY <1>4 DEF Resession, SetSessions, Still, counts
<1>5. CASE BackfillSessions \/ SessionsIfEmpty
  BY <1>4, <1>5 DEF BackfillSessions, SessionsIfEmpty, Still, counts, history
<1>6. ASSUME RecountSessions PROVE Still
  BY <1>6 DEF RecountSessions, SetSessionAggs, Still, counts
<1>7. CASE DeleteOldSessionDays \/ RebuildSessionDay \/ ClearSessionAggs
  BY <1>7 DEF DeleteOldSessionDays, RebuildSessionDay, ClearSessionAggs, SetSessionAggs, Still, counts
<1>8. CASE BackfillSessionAggs \/ SessionAggsIfEmpty
  BY <1>6, <1>8 DEF BackfillSessionAggs, SessionAggsIfEmpty, Still, counts, history
<1> QED BY <1>1, <1>2, <1>3, <1>5, <1>7, <1>8 DEF Statement

LEMMA WorkersStill ==
  ASSUME NEW w \in Workers, Begin(w) \/ Work(w) \/ Fail(w)
  PROVE  Commit(w) \/ Still
<1>1. CASE Begin(w) \/ Fail(w) \/ DeadlockVictim(w)
  BY <1>1 DEF Begin, Fail, DeadlockVictim, Still, counts, history
<1>2. CASE GetOrCreateDimID(w) \/ BulkInsertLogRows(w)
  BY <1>2, Zenon DEF GetOrCreateDimID, BulkInsertLogRows, Still, counts, history
<1>3. CASE NoVisit(w) \/ VisitOpens(w) \/ VisitExtends(w)
  BY <1>3, Zenon DEF NoVisit, VisitOpens, VisitExtends, Visited, Still, counts, history
<1> QED BY <1>1, <1>2, <1>3 DEF Work

\* Every step is one of those.
LEMMA StoreMoves ==
  ASSUME daily = [d \in Days |-> daily[d]], [Next]_vars
  PROVE  \/ Still \/ (\E w \in Workers : Commit(w)) \/ (\E R : Drops(R))
         \/ Counts \/ Migrate
<1>1. CASE Statement
  BY <1>1, JobLeaves, JobCounts, JobRemoves
<1>2. ASSUME NEW w \in Workers, Begin(w) \/ Work(w) \/ Fail(w)
      PROVE  Commit(w) \/ Still
  BY <1>2, WorkersStill
<1>3. CASE \/ \E k \in {"clean", "clear", "rebuild"} : BeginJob(k)
           \/ StatementFails \/ Crash \/ UNCHANGED vars
  BY <1>3 DEF BeginJob, StatementFails, Crash, vars, Still, counts, history
<1> QED BY <1>1, <1>2, <1>3 DEF Next

LEMMA KeptStep ==
  ASSUME Shape, daily = [d \in Days |-> daily[d]], [Next]_vars
  PROVE  StoreKept /\ daily' = [d \in Days |-> daily'[d]]
<1>1. CASE Still
  BY <1>1 DEF Still, StoreKept
<1>2. ASSUME NEW w \in Workers, Commit(w)
      PROVE  StoreKept /\ daily' = [d \in Days |-> daily'[d]]
  <2>1. rows' = rows \cup tx[w].mine /\ dropped' = dropped /\ daily' = AddDaily(tx[w].mine)
    BY <1>2 DEF Commit
  <2> QED BY <2>1 DEF StoreKept, AddDaily
<1>3. ASSUME NEW R, Drops(R) PROVE StoreKept /\ daily' = daily
  BY <1>3 DEF Drops, StoreKept
<1>4. CASE Counts
  BY <1>4 DEF Counts, StoreKept
<1>5. CASE Migrate
  BY <1>5, MigrateSteps DEF Migrate, StoreKept, counts
<1> QED BY <1>1, <1>2, <1>3, <1>4, <1>5, StoreMoves

LEMMA BatchStep ==
  ASSUME IdsInv, RowsInv, BatchInv, [Next]_vars
  PROVE  BatchInv'
<1>0. Shape
  BY DEF IdsInv
<1>1. StoreKept /\ daily' = [d \in Days |-> daily'[d]]
  BY <1>0, KeptStep DEF BatchInv
<1>2. ASSUME NEW w \in Workers, tx'[w].phase # "idle"
      PROVE  \E b \in Batches : Rearranged(tx'[w].batch, b)
  <2>1. CASE Given(tx'[w])
    <3>1. PICK b \in Batches : tx'[w].batch \in SortForLocking(b)
      BY <2>1 DEF Given
    <3>2. b \in Seq(Lines) \ {<<>>}
      BY LinesAssumption
    <3> QED BY <3>1, <3>2, SortedRearranges
  <2>2. CASE Keeping(tx[w], tx'[w]) \/ Inserting(w)
    BY <2>2 DEF Keeping, Inserting, BatchInv
  <2> QED BY <1>0, <1>2, <2>1, <2>2, BatchMoves DEF Ended
<1>3. ASSUME NEW w \in Workers, tx'[w].phase = "visits"
      PROVE  Fulfilled(tx'[w], rows', dropped')
  <2>1. CASE Keeping(tx[w], tx'[w])
    <3>1. tx[w].phase = "visits" /\ tx'[w].mine = tx[w].mine /\ tx'[w].batch = tx[w].batch
      BY <1>3, <2>1 DEF Keeping
    <3>2. Fulfilled(tx[w], rows, dropped)
      BY <3>1 DEF BatchInv
    <3>3. Fulfilled(tx[w], rows', dropped')
      BY <1>1, <3>2, FulfilledStill DEF StoreKept
    <3> QED BY <3>1, <3>3 DEF Fulfilled
  <2>2. CASE Inserting(w)
    <3>1. \A i, j \in Taken(tx[w]) : RowAt(tx[w], i).n = RowAt(tx[w], j).n => i = j
      BY <1>0, NewRows
    <3>2. /\ tx'[w].batch = tx[w].batch
          /\ tx'[w].mine = {RowAt(tx[w], i) : i \in Taken(tx[w])}
          /\ UNCHANGED <<rows, dropped>>
      BY <2>2 DEF Inserting
    <3>3. \A r, q \in tx'[w].mine : r.n = q.n => r = q
      BY <3>1, <3>2
    <3>4. TxShape(tx[w])
      BY <1>0 DEF Shape
    <3>5. PICK t : t = tx[w]
      OBVIOUS
    <3>6. PICK m : m = tx'[w]
      OBVIOUS
    <3>7. Fulfilled(m, rows, dropped)
      BY <3>1, <3>2, <3>3, <3>4, <3>5, <3>6, InsertFulfills
    <3> QED BY <3>2, <3>6, <3>7
  <2> QED BY <1>0, <1>3, <2>1, <2>2, BatchMoves DEF Ended, Given
<1> QED BY <1>1, <1>2, <1>3 DEF BatchInv, Rearranged, Fulfilled, PlacesOf, RowsFor

LEMMA InitBatch == Init => BatchInv
  BY DEF Init, BatchInv, Idle

----------------------------
(* THE ROWS AS THE ABSTRACT STORE SEES THEM *)

Pair(r) == [line |-> r.line, n |-> r.n]
Pairs(R) == {Pair(r) : r \in R}
Numbers(R) == \A r, q \in R : r.n = q.n => r = q

LEMMA TotalAlone ==
  ASSUME NEW c \in Counters, NEW x, Adds(x.line, c) \in Int
  PROVE  Total(c, {x}) = Adds(x.line, c)
<1> DEFINE f == [r \in {x} |-> Adds(r.line, c)]
<1>1. f[x] = Adds(x.line, c)
  OBVIOUS
<1> HIDE DEF f
<1>2. Summed(f, {x}) = f[x]
  BY <1>1, OverOne
<1> QED BY <1>1, <1>2 DEF Total, f

LEMMA PairsStocked ==
  ASSUME NEW R, Stocked(R)
  PROVE  Stocked(Pairs(R))
<1> DEFINE f == [r \in R |-> Pair(r)]
<1>1. Pairs(R) = {f[r] : r \in R}
  BY DEF Pairs
<1> HIDE DEF f
<1>2. IsFiniteSet(Pairs(R))
  BY <1>1, ImageFinite DEF Stocked
<1> QED BY <1>2 DEF Stocked, Pairs, Pair

\* The ids tell rows apart, and no counter depends on more than the lines.
LEMMA TotalPairs ==
  ASSUME NEW c \in Counters, NEW R, Stocked(R), Numbers(R)
  PROVE  Total(c, Pairs(R)) = Total(c, R)
<1> DEFINE T == {u \in SUBSET R : Total(c, Pairs(u)) # Total(c, u)}
<1> SUFFICES ASSUME T # {} PROVE FALSE
  OBVIOUS
<1>1. T \in SUBSET (SUBSET R) /\ IsFiniteSet(R)
  BY DEF Stocked
<1>2. PICK m \in T : \A t \in T : t \subseteq m => t = m
  <2> HIDE DEF T
  <2> QED BY <1>1, LeastSubset
<1>3. Pairs({}) = {}
  BY DEF Pairs
<1>4. m # {}
  BY <1>3
<1>5. PICK x \in m : TRUE
  BY <1>4
<1> DEFINE p == m \ {x}
<1>6. m \subseteq R /\ p \subseteq R /\ x \in R /\ m = p \cup {x} /\ p \cap {x} = {}
  OBVIOUS
<1>7. Total(c, Pairs(p)) = Total(c, p)
  BY <1>2, <1>5, <1>6
<1> HIDE DEF p, T
<1>8. Pairs(m) = Pairs(p) \cup {Pair(x)} /\ Pairs(p) \cap {Pair(x)} = {}
  <2>1. Pairs(m) = Pairs(p) \cup {Pair(x)}
    BY <1>6 DEF Pairs
  <2>2. \A y \in p : Pair(y) # Pair(x)
    <3> SUFFICES ASSUME NEW y \in p, Pair(y) = Pair(x) PROVE FALSE
      OBVIOUS
    <3>1. y.n = x.n
      BY DEF Pair
    <3> QED BY <3>1, <1>6 DEF Numbers
  <2> QED BY <2>1, <2>2 DEF Pairs
<1>9. Stocked(p) /\ Countable(p) /\ Countable({x}) /\ Countable(Pairs(p)) /\ Countable({Pair(x)})
  <2>1. {x} \in SUBSET R /\ p \in SUBSET R
    BY <1>6
  <2>2. Stocked(p) /\ Countable(p) /\ Stocked({x}) /\ Countable({x})
    BY <2>1, StockedCounts
  <2>3. Stocked(Pairs(p)) /\ Stocked(Pairs({x}))
    BY <2>2, PairsStocked
  <2>4. Pairs({x}) = {Pair(x)}
    BY DEF Pairs
  <2> QED BY <2>2, <2>3, <2>4, StockedCounts
<1>10. Adds(x.line, c) \in Int /\ Pair(x).line = x.line
  BY <1>9 DEF Countable, Pair
<1>11. Total(c, m) = Total(c, p) + Total(c, {x})
  BY <1>6, <1>9, TotalUnion
<1>12. Total(c, Pairs(m)) = Total(c, Pairs(p)) + Total(c, {Pair(x)})
  BY <1>8, <1>9, TotalUnion
<1>13. Total(c, {x}) = Total(c, {Pair(x)})
  BY <1>10, TotalAlone
<1> QED BY <1>2, <1>7, <1>11, <1>12, <1>13 DEF T

LEMMA TallyPairs ==
  ASSUME NEW R, Stocked(R), Numbers(R), NEW d
  PROVE  Tally(InDay(Pairs(R), d)) = Tally(InDay(R, d))
<1> DEFINE Q == InDay(R, d)
<1>1. InDay(Pairs(R), d) = Pairs(Q)
  BY DEF InDay, Pairs, Pair
<1>2. Q \in SUBSET R
  BY DEF InDay
<1>3. Stocked(Q) /\ Numbers(Q)
  BY <1>2, StockedCounts DEF Numbers
<1> HIDE DEF Q
<1>4. \A c \in Counters : Total(c, Pairs(Q)) = Total(c, Q)
  BY <1>3, TotalPairs
<1> QED BY <1>1, <1>4, TallyIs DEF Q

LEMMA PairsOf ==
  ASSUME NEW R, NEW Q, Numbers(R \cup Q)
  PROVE  /\ Pairs(R \cup Q) = Pairs(R) \cup Pairs(Q)
         /\ Q \cap R = {} => Pairs(R \cup Q) \ Pairs(R) = Pairs(Q)
         /\ Q \subseteq R => Pairs(R) \ Pairs(Q) = Pairs(R \ Q)
<1>1. Pairs(R \cup Q) = Pairs(R) \cup Pairs(Q)
  BY DEF Pairs
<1>2. \A r, q \in R \cup Q : Pair(r) = Pair(q) => r = q
  <2> SUFFICES ASSUME NEW r \in R \cup Q, NEW q \in R \cup Q, Pair(r) = Pair(q) PROVE r = q
    OBVIOUS
  <2>1. r.n = q.n
    BY DEF Pair
  <2> QED BY <2>1 DEF Numbers
<1>3. ASSUME Q \cap R = {} PROVE Pairs(R \cup Q) \ Pairs(R) = Pairs(Q)
  BY <1>1, <1>2, <1>3 DEF Pairs
<1>4. ASSUME Q \subseteq R PROVE Pairs(R) \ Pairs(Q) = Pairs(R \ Q)
  BY <1>2, <1>4 DEF Pairs
<1> QED BY <1>1, <1>3, <1>4

LEMMA AbstractLines ==
  ASSUME NEW R
  PROVE  /\ \A l : l \in Contract!LinesOf(Pairs(R)) <=> \E r \in R : r.line = l
         /\ Contract!LinesOf(Pairs(R)) = {r.line : r \in R}
<1>1. \A l : l \in Contract!LinesOf(Pairs(R)) <=> \E p \in Pairs(R) : p.line = l
  BY DEF Contract!LinesOf
<1>2. \A r : Pair(r).line = r.line
  BY DEF Pair
<1>3. \A l : (\E p \in Pairs(R) : p.line = l) <=> \E r \in R : r.line = l
  BY <1>2 DEF Pairs
<1>4. \A l : l \in Contract!LinesOf(Pairs(R)) <=> l \in {r.line : r \in R}
  BY <1>1, <1>3
<1> QED BY <1>1, <1>3, <1>4

LEMMA ContractSets ==
  ASSUME NEW R, NEW d, NEW b, NEW x, NEW y
  PROVE  /\ Contract!InDay(R, d) = InDay(R, d)
         /\ Contract!ToSet(b) = ToSet(b)
         /\ Contract!Plus(x, y) = Plus(x, y)
         /\ Contract!Zero = Zero
         /\ Contract!Cardinality(R) = Cardinality(R)
BY DEF Contract!InDay, InDay, Contract!ToSet, ToSet, Contract!Plus, Plus, Contract!Zero, Zero,
   Contract!DayOf, DayOf, Contract!Counters, Counters, Contract!Cardinality, Cardinality

LEMMA ContractTally ==
  ASSUME NEW R
  PROVE  Contract!Tally(R) = Tally(R)
BY DEF Contract!Tally, Tally, Contract!Adds, Adds, Contract!StatusClass, StatusClass,
   Contract!Counters, Counters, Contract!SumOf, SumOf, Contract!MapThenSumSet, MapThenSumSet,
   Contract!MapThenFoldSet, MapThenFoldSet

LEMMA RowsNumbered ==
  ASSUME RowsInv
  PROVE  /\ Numbers(rows) /\ Stocked(rows)
         /\ \A w \in Workers : /\ Numbers(rows \cup tx[w].mine)
                               /\ Stocked(tx[w].mine) /\ rows \cap tx[w].mine = {}
<1>1. \A w \in Workers : rows \cup tx[w].mine \subseteq AllRows /\ tx[w].mine \subseteq AllRows
  BY DEF AllRows
<1>2. rows \subseteq AllRows
  BY DEF AllRows
<1> QED BY <1>1, <1>2 DEF RowsInv, RowOK, Numbers, Stocked

\* The insertion of the abstract store, of the values before and after it.
InsertsFrom(b, S, R, Q, gone, c, d) ==
  /\ Q = R \cup S
  /\ Contract!LinesOf(S) \subseteq Contract!ToSet(b)
  /\ \A r \in S : r.line.fp => r.line \notin Contract!LinesOf(R)
                              /\ \A q \in S : q.line = r.line => q = r
  /\ \A l \in Contract!ToSet(b) :
       IF l.fp THEN l \in Contract!LinesOf(R \cup S) \cup gone
       ELSE Contract!Cardinality({r \in S : r.line = l})
            = Contract!Cardinality({i \in DOMAIN b : b[i] = l})
  /\ d = [x \in Days |-> Contract!Plus(c[x], Contract!Tally(Contract!InDay(S, x)))]
LEMMA InsertsIt ==
  ASSUME NEW b, dropped' = dropped,
         InsertsFrom(b, Pairs(rows') \ Pairs(rows), Pairs(rows), Pairs(rows'), dropped, daily, daily')
  PROVE  Contract!Insert(b, Pairs(rows') \ Pairs(rows))
<1> DEFINE S == Pairs(rows') \ Pairs(rows)
<1> InsertsFrom(b, S, Pairs(rows), Pairs(rows'), dropped, daily, daily')
  OBVIOUS
<1> HIDE DEF S
<1>1. /\ Pairs(rows') = {[line |-> r.line, n |-> r.n] : r \in rows'}
      /\ Pairs(rows) = {[line |-> r.line, n |-> r.n] : r \in rows}
  BY DEF Pairs, Pair
<1>2. {[line |-> r.line, n |-> r.n] : r \in rows'} = {[line |-> r.line, n |-> r.n] : r \in rows} \cup S
  BY <1>1 DEF InsertsFrom
<1>3. Contract!LinesOf(S) \subseteq Contract!ToSet(b)
  BY DEF InsertsFrom
<1>4. \A r \in S : r.line.fp =>
        /\ r.line \notin Contract!LinesOf({[line |-> q.line, n |-> q.n] : q \in rows})
        /\ \A q \in S : q.line = r.line => q = r
  BY <1>1 DEF InsertsFrom
<1>5. \A l \in Contract!ToSet(b) :
        IF l.fp
        THEN l \in Contract!LinesOf({[line |-> q.line, n |-> q.n] : q \in rows} \cup S) \cup dropped
        ELSE Contract!Cardinality({r \in S : r.line = l})
             = Contract!Cardinality({i \in DOMAIN b : b[i] = l})
  BY <1>1 DEF InsertsFrom
<1>6. daily' = [x \in Days |-> Contract!Plus(daily[x], Contract!Tally(Contract!InDay(S, x)))]
  BY DEF InsertsFrom
<1> QED BY <1>2, <1>3, <1>4, <1>5, <1>6 DEF Contract!Insert, S

\* The statements of a transaction are one insertion of its batch.
LEMMA CommitInserts ==
  ASSUME RowsInv, BatchInv, OneRowEach, NEW w \in Workers, Commit(w)
  PROVE  \E b \in Batches : Contract!Insert(b, Pairs(rows') \ Pairs(rows))
<1> DEFINE M == tx[w].mine
           S == Pairs(M)
<1>1. /\ tx[w].phase = "visits" /\ rows' = rows \cup M /\ dropped' = dropped
      /\ daily' = [d \in Days |-> Plus(daily[d], Tally(InDay(M, d)))]
  BY DEF Commit, AddDaily
<1>2. Fulfilled(tx[w], rows, dropped)
  BY <1>1 DEF BatchInv
<1>3. PICK b \in Batches : Rearranged(tx[w].batch, b)
  BY <1>1 DEF BatchInv
<1>4. Numbers(rows \cup M) /\ Numbers(M) /\ Stocked(M) /\ rows \cap M = {}
  BY RowsNumbered DEF Numbers
<1>5. Pairs(rows') = Pairs(rows) \cup S /\ Pairs(rows') \ Pairs(rows) = S
  <2> DEFINE U == rows \cup M
  <2>1. rows' = U /\ M \cap rows = {}
    BY <1>1, <1>4
  <2> HIDE DEF M
  <2>2. Pairs(U) = Pairs(rows) \cup Pairs(M) /\ Pairs(U) \ Pairs(rows) = Pairs(M)
    BY <1>4, <2>1, PairsOf
  <2> HIDE DEF U
  <2> QED BY <2>1, <2>2
<1>6. \A r \in M : r.line.fp => /\ \A q \in rows : q.line # r.line
                                /\ \A q \in M : q.line = r.line => q = r
  BY DEF OneRowEach, Alone
<1>7. ToSet(tx[w].batch) = ToSet(b)
      /\ \A l : Cardinality(PlacesOf(tx[w].batch, l)) = Cardinality(PlacesOf(b, l))
  BY <1>3 DEF Rearranged
<1>8. Contract!LinesOf(S) \subseteq ToSet(b)
  BY <1>2, <1>7, AbstractLines DEF Fulfilled
<1>9. \A s \in S : s.line.fp => /\ s.line \notin Contract!LinesOf(Pairs(rows))
                                /\ \A q \in S : q.line = s.line => q = s
  <2> SUFFICES ASSUME NEW s \in S, s.line.fp
               PROVE  /\ s.line \notin Contract!LinesOf(Pairs(rows))
                      /\ \A q \in S : q.line = s.line => q = s
    OBVIOUS
  <2>1. PICK r \in M : s = Pair(r)
    BY DEF Pairs
  <2>2. \A q : Pair(q).line = q.line
    BY DEF Pair
  <2>3. s.line \notin Contract!LinesOf(Pairs(rows))
    BY <1>6, <2>1, <2>2, AbstractLines
  <2>4. ASSUME NEW q \in S, q.line = s.line PROVE q = s
    <3>1. PICK p \in M : q = Pair(p)
      BY DEF Pairs
    <3> QED BY <1>6, <2>1, <2>2, <2>4, <3>1
  <2> QED BY <2>3, <2>4
<1>10. ASSUME NEW l \in ToSet(b), l.fp
       PROVE  l \in Contract!LinesOf(Pairs(rows) \cup S) \cup dropped
  <2>1. l \in dropped \/ \E r \in rows \cup M : r.line = l
    BY <1>2, <1>7, <1>10 DEF Fulfilled
  <2>2. Pairs(rows \cup M) = Pairs(rows) \cup S
    BY DEF Pairs
  <2> QED BY <2>1, <2>2, AbstractLines
<1>11. ASSUME NEW l \in ToSet(b), ~l.fp
       PROVE  Cardinality({r \in S : r.line = l}) = Cardinality({i \in DOMAIN b : b[i] = l})
  <2> DEFINE K == RowsFor(M, l)
             f == [r \in K |-> Pair(r)]
  <2>1. {r \in S : r.line = l} = {f[r] : r \in K}
    <3>1. \A r : Pair(r).line = r.line
      BY DEF Pair
    <3>2. \A p : p \in {r \in S : r.line = l} <=> \E q \in K : p = Pair(q)
      BY <3>1 DEF RowsFor, Pairs
    <3> HIDE DEF K, S
    <3>3. \A p : p \in {f[r] : r \in K} <=> \E q \in K : p = Pair(q)
      OBVIOUS
    <3> QED BY <3>2, <3>3
  <2>2. K \in SUBSET M
    BY DEF RowsFor
  <2>3. Apart(f, K)
    <3> SUFFICES ASSUME NEW x \in K, NEW y \in K, f[x] = f[y] PROVE x = y
      BY DEF Apart
    <3>1. x.n = y.n
      BY DEF Pair
    <3> QED BY <3>1, <2>2, <1>4 DEF Numbers
  <2>4. Cardinality(K) = Cardinality(PlacesOf(b, l))
    BY <1>2, <1>7, <1>11 DEF Fulfilled
  <2> HIDE DEF f, K
  <2>5. IsFiniteSet(K)
    BY <1>4, <2>2, FS_Subset DEF Stocked
  <2>6. Cardinality({f[r] : r \in K}) = Cardinality(K)
    BY <2>3, <2>5, SameSize
  <2> QED BY <2>1, <2>4, <2>6 DEF PlacesOf
<1>12. daily' = [d \in Days |-> Plus(daily[d], Tally(InDay(S, d)))]
  <2> HIDE DEF M
  <2> QED BY <1>1, <1>4, TallyPairs
<1> DEFINE D == Pairs(rows') \ Pairs(rows)
<1>13. InsertsFrom(b, D, Pairs(rows), Pairs(rows'), dropped, daily, daily')
  <2> HIDE DEF S
  <2>1. daily' = [d \in Days |-> Contract!Plus(daily[d], Contract!Tally(Contract!InDay(S, d)))]
    BY <1>12, ContractSets, ContractTally
  <2>2. Contract!ToSet(b) = ToSet(b)
    BY ContractSets
  <2>3. \A l \in ToSet(b) :
          IF l.fp THEN l \in Contract!LinesOf(Pairs(rows) \cup S) \cup dropped
          ELSE Contract!Cardinality({r \in S : r.line = l})
               = Contract!Cardinality({i \in DOMAIN b : b[i] = l})
    BY <1>10, <1>11, ContractSets
  <2>4. InsertsFrom(b, S, Pairs(rows), Pairs(rows'), dropped, daily, daily')
    <3>1. Pairs(rows') = Pairs(rows) \cup S
      BY <1>5
    <3>2. Contract!LinesOf(S) \subseteq Contract!ToSet(b)
      BY <1>8, <2>2
    <3>3. \A l \in Contract!ToSet(b) :
            IF l.fp THEN l \in Contract!LinesOf(Pairs(rows) \cup S) \cup dropped
            ELSE Contract!Cardinality({r \in S : r.line = l})
                 = Contract!Cardinality({i \in DOMAIN b : b[i] = l})
      BY <2>2, <2>3
    <3>4. \A r \in S : r.line.fp => r.line \notin Contract!LinesOf(Pairs(rows))
                                    /\ \A q \in S : q.line = r.line => q = r
      BY <1>9
    <3> QED BY <2>1, <3>1, <3>2, <3>3, <3>4 DEF InsertsFrom
  <2>5. D = S
    BY <1>5
  <2> HIDE DEF D
  <2> QED BY <2>4, <2>5
<1>14. Contract!Insert(b, Pairs(rows') \ Pairs(rows))
  BY <1>1, <1>13, InsertsIt
<1> QED BY <1>14

----------------------------
(* THE ROWS IMPLEMENT THE ABSTRACT STORE *)

RefineInv == IdsInv /\ RowsInv /\ BatchInv /\ OneRowEach

LEMMA InitRefines == Init => RefineInv /\ Contract!Init
<1> SUFFICES ASSUME Init PROVE RefineInv /\ Contract!Init
  OBVIOUS
<1>1. OneRowEach
  BY DEF Init, OneRowEach, Idle
<1>2. rows = {} /\ dropped = {} /\ daily = [d \in Days |-> Zero]
  BY DEF Init
<1>3. Contract!Zero = Zero
  BY ContractSets
<1>4. Contract!Init
  BY <1>2, <1>3 DEF Contract!Init
<1> QED BY <1>1, <1>4, InitIds, InitRows, InitBatch DEF RefineInv

LEMMA RefineKeeps == RefineInv /\ [Next]_vars => RefineInv'
  BY IdsStep, RowsStep, BatchStep, OneRowStep DEF RefineInv

LEMMA DropsDelete ==
  ASSUME RowsInv, NEW R, Drops(R)
  PROVE  Contract!Delete
<1>1. R \subseteq rows /\ rows' = rows \ R /\ dropped' = dropped \cup {r.line : r \in R}
      /\ daily' = daily
  BY DEF Drops
<1>2. Numbers(rows \cup R)
  BY <1>1, RowsNumbered DEF Numbers
<1>3. Pairs(rows) \ Pairs(R) = Pairs(rows \ R) /\ Pairs(R) \subseteq Pairs(rows)
  <2>1. Pairs(R) \subseteq Pairs(rows)
    BY <1>1 DEF Pairs
  <2>2. Pairs(rows) \ Pairs(R) = Pairs(rows \ R)
    BY <1>1, <1>2, PairsOf
  <2> QED BY <2>1, <2>2
<1>4. Pairs(rows') = Pairs(rows) \ Pairs(R)
  BY <1>1, <1>3
<1>5. Pairs(rows) \ Pairs(rows') = Pairs(R) /\ Pairs(rows') \subseteq Pairs(rows)
  BY <1>3, <1>4
<1>6. dropped' = dropped \cup Contract!LinesOf(Pairs(R))
  BY <1>1, AbstractLines
<1>7. dropped' = dropped \cup Contract!LinesOf(Pairs(rows) \ Pairs(rows'))
  BY <1>5, <1>6
<1> QED BY <1>1, <1>5, <1>7 DEF Contract!Delete, Pairs, Pair

LEMMA CountsRecount ==
  ASSUME RowsInv, Counts
  PROVE  Contract!Recount
<1> DEFINE C == {daily[d] : d \in Days} \cup {Zero} \cup {Tally(InDay(rows, d)) : d \in Days}
<1>1. /\ UNCHANGED <<rows, dropped>>
      /\ daily' = [d \in Days |-> daily'[d]]
      /\ \A d \in Days : daily'[d] \in {daily[d], Zero, Tally(InDay(rows, d))}
  BY DEF Counts
<1>2. daily' \in [Days -> C]
  <2>1. \A d \in Days : daily'[d] \in C
    BY <1>1
  <2> HIDE DEF C
  <2> QED BY <1>1, <2>1
<1>3. \A d \in Days : Contract!Tally(Contract!InDay(Pairs(rows), d)) = Tally(InDay(rows, d))
  BY RowsNumbered, TallyPairs, ContractSets, ContractTally
<1>4. Contract!Zero = Zero
  BY ContractSets
<1>5. daily' \in [Days -> {daily[d] : d \in Days} \cup {Contract!Zero}
                          \cup {Contract!Tally(Contract!InDay(Pairs(rows), d)) : d \in Days}]
  BY <1>2, <1>3, <1>4
<1>6. \A d \in Days : daily'[d] \in {daily[d], Contract!Zero,
                                     Contract!Tally(Contract!InDay(Pairs(rows), d))}
  BY <1>1, <1>3, <1>4
<1>7. Pairs(rows') = Pairs(rows)
  BY <1>1
<1> QED BY <1>1, <1>5, <1>6, <1>7 DEF Contract!Recount, Pairs, Pair

LEMMA RefineStep ==
  ASSUME RefineInv, [Next]_vars
  PROVE  [Contract!Next]_Contract!vars
<1>0. Shape /\ RowsInv /\ BatchInv /\ OneRowEach /\ daily = [d \in Days |-> daily[d]]
  BY DEF RefineInv, IdsInv, BatchInv
<1>1. CASE Still
  BY <1>1 DEF Still, Contract!vars
<1>2. ASSUME NEW w \in Workers, Commit(w) PROVE Contract!Next
  <2>1. \E b \in Batches : Contract!Insert(b, Pairs(rows') \ Pairs(rows))
    BY <1>0, <1>2, CommitInserts
  <2> QED BY <2>1 DEF Contract!Next, Pairs, Pair
<1>3. ASSUME NEW R, Drops(R) PROVE Contract!Next
  BY <1>0, <1>3, DropsDelete DEF Contract!Next
<1>4. CASE Counts
  BY <1>0, <1>4, CountsRecount DEF Contract!Next
<1>5. CASE Migrate
  <2>1. rows = {} /\ \A r \in rows' : ~r.line.fp
    BY <1>0, <1>5, MigrateSteps
  <2>2. UNCHANGED <<dropped, daily>>
    BY <1>5 DEF Migrate, counts
  <2>3. Contract!Import
    BY <2>1, <2>2 DEF Contract!Import
  <2> QED BY <2>3 DEF Contract!Next
<1> QED BY <1>0, <1>1, <1>2, <1>3, <1>4, <1>5, StoreMoves

----------------------------
(* THEOREMS *)

(* The transactions, which run at once, are aborted, repeated and lost in a crash, *)
(* and the maintenance jobs, whose statements lie between them, do what the *)
(* abstract store does: a batch is stored and counted in one step or not at all *)
(* (batchInsertLogsForWebsiteOnce and its retries), and only maintenance removes rows. *)
THEOREM ImplementsContract == Spec => StoresAsPromised
<1>1. Init => RefineInv /\ Contract!Init
  BY InitRefines
<1>2. RefineInv /\ [Next]_vars => RefineInv' /\ [Contract!Next]_Contract!vars
  BY RefineKeeps, RefineStep
<1> QED BY <1>1, <1>2, PTL DEF Spec, StoresAsPromised, Contract!Spec

(* A line with a fingerprint is never stored twice by the abstract store, so that *)
(* whoever relies on it alone (a push that is sent again, a scan that begins *)
(* again) may insert what is stored already. *)
THEOREM OneRowPerFingerprint == Contract!Spec => []Contract!StoredOnce
<1> DEFINE stored == {[line |-> r.line, n |-> r.n] : r \in rows}
<1>1. Contract!Init => Contract!StoredOnce
  BY DEF Contract!Init, Contract!StoredOnce
<1>2. Contract!StoredOnce /\ [Contract!Next]_Contract!vars => Contract!StoredOnce'
  <2> SUFFICES ASSUME Contract!StoredOnce, [Contract!Next]_Contract!vars,
                      NEW r \in stored', NEW q \in stored', r.line = q.line, r.line.fp
               PROVE  r = q
    BY DEF Contract!StoredOnce
  <2> HIDE DEF stored
  <2>1. CASE \E b \in Batches : Contract!Insert(b, stored' \ stored)
    BY <2>1 DEF Contract!Insert, Contract!LinesOf, Contract!StoredOnce, stored
  <2>2. CASE Contract!Delete
    BY <2>2 DEF Contract!Delete, Contract!StoredOnce, stored
  <2>3. CASE Contract!Recount
    BY <2>3 DEF Contract!Recount, Contract!StoredOnce, stored
  <2>4. CASE Contract!Import
    BY <2>4 DEF Contract!Import, stored
  <2>5. CASE UNCHANGED Contract!vars
    BY <2>5 DEF Contract!vars, Contract!StoredOnce, stored
  <2> QED BY <2>1, <2>2, <2>3, <2>4, <2>5 DEF Contract!Next, stored
<1> QED BY <1>1, <1>2, PTL DEF Contract!Spec

----------------------------
(* THE JOB, AND WHAT A CLEAR HAS STILL TO CLEAR *)

Clears == {"DeleteRows", "ClearDims", "ClearFirstSeen", "ClearAggregates",
           "ClearSessions", "ClearState", "ClearSessionAggs"}
Others == {"DeleteOldRows", "DeleteRange", "DeleteOrphans", "Migrate", "DeleteOldBuckets",
           "RebuildHour", "RebuildDay", "RebuildFirstSeen", "BackfillAggregates",
           "AggregatesIfEmpty", "BackfillFirstSeen", "FirstSeenIfEmpty", "DeleteOldSessions",
           "DeleteState", "InsertState", "BackfillSessions", "SessionsIfEmpty",
           "DeleteOldSessionDays", "RebuildSessionDay", "BackfillSessionAggs",
           "SessionAggsIfEmpty"}

\* A clear goes on where it is in its program, and nothing else clears.
ClearFrom(todo) ==
  /\ todo \in Seq(Clears) /\ Len(todo) \in 1..7
  /\ \A i \in 1..Len(todo) : todo[i] = ClearProgram[7 - Len(todo) + i]
JobShape ==
  /\ DOMAIN job = {"kind", "todo"}
  /\ IF job.kind = "clear" THEN ClearFrom(job.todo) ELSE job.todo \in Seq(Others)

\* Until the clear has come to them, the counters, first_seen and the counters
\* of sessions are behind, and what they are computed from is gone.
ToDo == Len(job.todo)
ClearInv ==
  job.kind = "clear" =>
    /\ ToDo \in {4, 5, 6} => "counts" \in lag /\ (overlap \/ rows = {})
    /\ ToDo \in {5, 6} => "first" \in lag
    /\ ToDo \in {1, 2} => "sessions" \in lag /\ (overlap \/ sessions = {})

LEMMA ClearStatements ==
  /\ ClearProgram \in Seq(Clears) /\ Len(ClearProgram) = 7
  /\ ClearProgram[1] = "DeleteRows" /\ ClearProgram[2] = "ClearDims"
  /\ ClearProgram[3] = "ClearFirstSeen" /\ ClearProgram[4] = "ClearAggregates"
  /\ ClearProgram[5] = "ClearSessions" /\ ClearProgram[6] = "ClearState"
  /\ ClearProgram[7] = "ClearSessionAggs"
  /\ \A i \in 1..7 : ClearProgram[i] \in Clears
<1>1. /\ Len(ClearProgram) = 7
      /\ ClearProgram[1] = "DeleteRows" /\ ClearProgram[2] = "ClearDims"
      /\ ClearProgram[3] = "ClearFirstSeen" /\ ClearProgram[4] = "ClearAggregates"
      /\ ClearProgram[5] = "ClearSessions" /\ ClearProgram[6] = "ClearState"
      /\ ClearProgram[7] = "ClearSessionAggs"
  BY DEF ClearProgram
<1>0. ClearProgram \in Seq(Clears)
  <2>1. \A S : \A a, b, c, d, e, f, g \in S : <<a, b, c, d, e, f, g>> \in Seq(S)
    OBVIOUS
  <2> QED BY <2>1 DEF ClearProgram, Clears
<1>2. \A i \in 1..7 : i = 1 \/ i = 2 \/ i = 3 \/ i = 4 \/ i = 5 \/ i = 6 \/ i = 7
  OBVIOUS
<1> HIDE DEF ClearProgram
<1>3. \A i \in 1..7 : ClearProgram[i] \in Clears
  BY <1>1, <1>2 DEF Clears
<1> QED BY <1>0, <1>1, <1>3

LEMMA OtherPrograms ==
  /\ CleanProgram \in Seq(Others) /\ RebuildProgram \in Seq(Others)
  /\ MigrateProgram \in Seq(Others) /\ StartProgram \in Seq(Others)
  /\ <<>> \in Seq(Others)
<1>1. CleanProgram \in Seq(Others)
  <2>1. \A S : \A a, b, c, d, e, f, g, h, i, j, k \in S :
          <<a, b, c, d, e, f, g, h, i, j, k>> \in Seq(S)
    OBVIOUS
  <2> QED BY <2>1 DEF CleanProgram, Others
<1>2. \A S : \A a, b, c, d, e, f \in S : /\ <<a, b, c, d, e, f>> \in Seq(S)
                                        /\ <<a, b, c, d, e>> \in Seq(S)
                                        /\ <<a, b, c, d>> \in Seq(S)
  OBVIOUS
<1>3. RebuildProgram \in Seq(Others) /\ MigrateProgram \in Seq(Others)
      /\ StartProgram \in Seq(Others)
  BY <1>2 DEF RebuildProgram, MigrateProgram, StartProgram, Others
<1>4. <<>> \in Seq(Others)
  OBVIOUS
<1> QED BY <1>1, <1>3, <1>4

LEMMA OtherOnes == Others \cap Clears = {}
BY DEF Others, Clears

LEMMA StartShape ==
  /\ DOMAIN StartJob = {"kind", "todo"} /\ StartJob.kind = "start" /\ StartJob.todo \in Seq(Others)
  /\ DOMAIN NoJob = {"kind", "todo"} /\ NoJob.kind = "none" /\ NoJob.todo \in Seq(Others)
BY OtherPrograms DEF StartJob, NoJob

\* A statement of a clear is the one its program has next, and the only kind of
\* statement after which a job is a clear.
LEMMA Advances ==
  ASSUME JobShape, NEW s, At(s), job' = Rest(Tail(job.todo)) \/ job' = NoJob
  PROVE  /\ JobShape'
         /\ s \in Clears <=> job.kind = "clear"
         /\ job.kind = "clear" => Len(job.todo) \in 1..7 /\ s = ClearProgram[8 - Len(job.todo)]
         /\ job'.kind = "clear" => job.kind = "clear" /\ Len(job'.todo) = Len(job.todo) - 1
<1>1. job.todo # <<>> /\ s = job.todo[1]
  BY DEF At, JobShape, ClearFrom
<1>2. CASE job.kind = "clear"
  <2> DEFINE n == Len(job.todo)
  <2>1. /\ n \in 1..7 /\ \A i \in 1..n : job.todo[i] = ClearProgram[7 - n + i]
        /\ job.todo \in Seq(Clears)
    BY <1>2 DEF JobShape, ClearFrom
  <2>2. s = ClearProgram[8 - n] /\ 8 - n \in 1..7
    <3>1. \A m \in 1..7 : 1 \in 1..m /\ 7 - m + 1 = 8 - m /\ 8 - m \in 1..7
      OBVIOUS
    <3>2. s = ClearProgram[7 - n + 1]
      BY <1>1, <2>1, <3>1
    <3> QED BY <2>1, <3>1, <3>2
  <2>3. s \in Clears
    BY <2>1, <2>2, ClearStatements
  <2>4. CASE job' = NoJob
    BY <2>1, <2>2, <2>3, <2>4, <1>2, StartShape DEF JobShape
  <2>5. CASE job' = Rest(Tail(job.todo)) /\ Tail(job.todo) # <<>>
    <3>1. job' = [job EXCEPT !.todo = Tail(job.todo)]
      BY <2>5 DEF Rest
    <3>2. DOMAIN job' = {"kind", "todo"} /\ job'.kind = "clear" /\ job'.todo = Tail(job.todo)
      BY <3>1, <1>2 DEF JobShape
    <3> DEFINE q == Tail(job.todo)
    <3>3. q \in Seq(Clears) /\ Len(q) = n - 1 /\ \A i \in 1..(n - 1) : q[i] = job.todo[i + 1]
      BY <1>1, <2>1
    <3>4. Len(q) # 0 /\ Len(q) \in 1..7
      <4>1. Tail(job.todo) # <<>>
        BY <2>5
      <4>2. q # <<>>
        BY <4>1
      <4> HIDE DEF q, n
      <4> QED BY <3>3, <4>2, <2>1
    <3>5. \A i \in 1..Len(q) : q[i] = ClearProgram[7 - Len(q) + i]
      <4> SUFFICES ASSUME NEW i \in 1..Len(q) PROVE q[i] = ClearProgram[7 - Len(q) + i]
        OBVIOUS
      <4> HIDE DEF q, n
      <4>1. i + 1 \in 1..n /\ i \in 1..(n - 1) /\ 7 - n + (i + 1) = 7 - Len(q) + i
        BY <3>3, <2>1
      <4>2. q[i] = job.todo[i + 1]
        BY <4>1, <3>3
      <4>3. job.todo[i + 1] = ClearProgram[7 - n + (i + 1)]
        BY <4>1, <2>1
      <4> QED BY <4>1, <4>2, <4>3
    <3>6. ClearFrom(q)
      <4> HIDE DEF q, n
      <4> QED BY <3>3, <3>4, <3>5 DEF ClearFrom
    <3> QED BY <3>2, <3>3, <3>6, <2>1, <2>2, <2>3, <1>2 DEF JobShape
  <2>6. CASE job' = Rest(Tail(job.todo)) /\ Tail(job.todo) = <<>>
    BY <2>6, <2>1, <2>2, <2>3, <1>2, StartShape DEF Rest, JobShape
  <2> QED BY <2>4, <2>5, <2>6
<1>3. CASE job.kind # "clear"
  <2>1. job.todo \in Seq(Others) /\ s \notin Clears
    BY <1>1, <1>3, OtherOnes DEF JobShape
  <2>2. Tail(job.todo) \in Seq(Others)
    BY <1>1, <2>1
  <2>3. DOMAIN job' = {"kind", "todo"} /\ job'.kind # "clear" /\ job'.todo \in Seq(Others)
    <3>1. CASE job' = NoJob \/ Tail(job.todo) = <<>>
      BY <3>1, StartShape DEF Rest
    <3>2. CASE job' = Rest(Tail(job.todo)) /\ Tail(job.todo) # <<>>
      <4>1. job' = [job EXCEPT !.todo = Tail(job.todo)]
        BY <3>2 DEF Rest
      <4> QED BY <4>1, <2>2, <1>3 DEF JobShape
    <3> QED BY <3>1, <3>2
  <2> QED BY <2>1, <2>3, <1>3 DEF JobShape
<1> QED BY <1>2, <1>3

LEMMA JobStarts ==
  ASSUME JobShape, (\E k \in {"clean", "clear", "rebuild"} : BeginJob(k)) \/ StatementFails \/ Crash
  PROVE  JobShape' /\ (job'.kind = "clear" => ToDo' = 7)
<1>1. ASSUME NEW k \in {"clean", "clear", "rebuild"}, BeginJob(k)
      PROVE  JobShape' /\ (job'.kind = "clear" => ToDo' = 7)
  <2>1. job' = [kind |-> k, todo |-> Program[k]]
    BY <1>1 DEF BeginJob
  <2>2. CASE k = "clear"
    <3>1. job'.todo = ClearProgram /\ job'.kind = "clear" /\ DOMAIN job' = {"kind", "todo"}
      BY <2>1, <2>2 DEF Program
    <3>2. ClearFrom(ClearProgram)
      BY ClearStatements DEF ClearFrom
    <3> QED BY <3>1, <3>2, ClearStatements DEF JobShape, ToDo
  <2>3. CASE k # "clear"
    <3>1. job'.todo \in {CleanProgram, RebuildProgram} /\ job'.kind # "clear"
          /\ DOMAIN job' = {"kind", "todo"}
      BY <2>1, <2>3, <1>1 DEF Program
    <3> QED BY <3>1, OtherPrograms DEF JobShape
  <2> QED BY <2>2, <2>3
<1>2. CASE StatementFails
  <2>1. \/ job' = StartJob \/ job' = NoJob
        \/ job.kind = "clean" /\ job' = Rest(AfterPart(job.todo)) /\ job # NoJob
    BY <1>2 DEF StatementFails
  <2>2. CASE job.kind = "clean" /\ job' = Rest(AfterPart(job.todo))
    <3>1. job.todo \in Seq(Others) /\ Len(job.todo) \in Nat
      BY <2>2 DEF JobShape
    <3> DEFINE c == Cardinality({i \in DOMAIN job.todo : Part(job.todo[i]) = Part(job.todo[1])})
    <3>2. c \in Nat
      <4>1. IsFiniteSet(DOMAIN job.todo)
        <5>1. DOMAIN job.todo = 1..Len(job.todo)
          BY <3>1
        <5>2. 1 \in Int /\ Len(job.todo) \in Int
          BY <3>1
        <5> QED BY <5>1, <5>2, FS_Interval
      <4> DEFINE P == {i \in DOMAIN job.todo : Part(job.todo[i]) = Part(job.todo[1])}
      <4>2. P \in SUBSET (DOMAIN job.todo)
        OBVIOUS
      <4> HIDE DEF P
      <4>3. Cardinality(P) \in Nat
        BY <4>1, <4>2, FS_Subset, FS_CardinalityType
      <4> QED BY <4>3 DEF P
    <3> HIDE DEF c
    <3>3. SubSeq(job.todo, 1 + c, Len(job.todo)) \in Seq(Others)
      BY <3>1, <3>2
    <3>4. AfterPart(job.todo) \in Seq(Others)
      BY <3>3 DEF AfterPart, c
    <3>5. CASE AfterPart(job.todo) = <<>>
      BY <2>2, <3>5, StartShape DEF Rest, JobShape
    <3>6. CASE AfterPart(job.todo) # <<>>
      <4>1. job' = [job EXCEPT !.todo = AfterPart(job.todo)]
        BY <2>2, <3>6 DEF Rest
      <4> QED BY <4>1, <2>2, <3>4 DEF JobShape
    <3> QED BY <3>5, <3>6
  <2> QED BY <2>1, <2>2, StartShape DEF JobShape
<1>3. CASE Crash
  BY <1>3, StartShape DEF Crash, JobShape
<1> QED BY <1>1, <1>2, <1>3

----------------------------
(* WHAT A STEP DOES TO THE JOB *)

\* How many statements of a clear there are, with s.
Place(s, n) == ToDo = n /\ (job'.kind = "clear" => ToDo' = n - 1)

LEMMA ClearPlace ==
  ASSUME JobShape, NEW s \in Clears, At(s), job' = Rest(Tail(job.todo))
  PROVE  /\ JobShape' /\ job.kind = "clear"
         /\ s = "DeleteRows" => Place(s, 7)
         /\ s = "ClearDims" => Place(s, 6)
         /\ s = "ClearFirstSeen" => Place(s, 5)
         /\ s = "ClearAggregates" => Place(s, 4)
         /\ s = "ClearSessions" => Place(s, 3)
         /\ s = "ClearState" => Place(s, 2)
         /\ s = "ClearSessionAggs" => Place(s, 1)
<1> DEFINE n == Len(job.todo)
<1>1. /\ JobShape' /\ job.kind = "clear" /\ n \in 1..7 /\ s = ClearProgram[8 - n]
      /\ job'.kind = "clear" => Len(job'.todo) = n - 1
  BY Advances
<1> HIDE DEF n
<1>2. 8 - n = 1 \/ 8 - n = 2 \/ 8 - n = 3 \/ 8 - n = 4 \/ 8 - n = 5 \/ 8 - n = 6 \/ 8 - n = 7
  BY <1>1
<1>3. \A k \in 1..7 : 8 - n = k => n = 8 - k
  BY <1>1
<1>4. /\ s = "DeleteRows" => n = 7
      /\ s = "ClearDims" => n = 6
      /\ s = "ClearFirstSeen" => n = 5
      /\ s = "ClearAggregates" => n = 4
      /\ s = "ClearSessions" => n = 3
      /\ s = "ClearState" => n = 2
      /\ s = "ClearSessionAggs" => n = 1
  BY <1>1, <1>2, <1>3, ClearStatements
<1> QED BY <1>1, <1>4 DEF n, Place, ToDo

LEMMA OtherPlace ==
  ASSUME JobShape, NEW s \in Others, At(s), job' = Rest(Tail(job.todo)) \/ job' = NoJob
  PROVE  JobShape' /\ job'.kind # "clear" /\ job.kind # "clear"
BY Advances, OtherOnes

\* What the steps of the workers leave alone, but a commit.
Derived == <<rows, counts, firstSeen, sessions, sessDays, entryDays, job, lag, overlap>>
LEMMA WorkersLeave ==
  ASSUME NEW w \in Workers, Begin(w) \/ Work(w) \/ Fail(w)
  PROVE  Commit(w) \/ UNCHANGED Derived
BY Zenon DEF Begin, Work, Fail, GetOrCreateDimID, BulkInsertLogRows, NoVisit, VisitOpens, VisitExtends,
       Visited, DeadlockVictim, Derived, visitTables, history

\* The statement that a step of a job is, when it is not one of a clear.
Other ==
  \/ DeleteOldRows \/ DeleteRange \/ DeleteOrphans \/ Migrate
  \/ DeleteOldBuckets \/ RebuildHour \/ RebuildDay \/ BackfillAggregates \/ AggregatesIfEmpty
  \/ BackfillFirstSeen \/ FirstSeenIfEmpty
  \/ DeleteOldSessions \/ DeleteState \/ InsertState \/ BackfillSessions \/ SessionsIfEmpty
  \/ DeleteOldSessionDays \/ RebuildSessionDay \/ BackfillSessionAggs \/ SessionAggsIfEmpty
Clearing ==
  \/ DeleteRows \/ ClearDims \/ ClearFirstSeen \/ ClearAggregates
  \/ ClearSessions \/ ClearState \/ ClearSessionAggs
LEMMA StatementKinds == Statement <=> Other \/ Clearing
BY DEF Statement, Other, Clearing

LEMMA OthersAt ==
  ASSUME Other
  PROVE  \E s \in Others : At(s) /\ (job' = Rest(Tail(job.todo)) \/ job' = NoJob)
<1> USE DEF Others
<1>1. CASE DeleteOldRows \/ DeleteRange \/ DeleteOrphans \/ Migrate
  BY <1>1 DEF DeleteOldRows, DeleteRange, DeleteOrphans, Migrate, Advance
<1>2. CASE DeleteOldBuckets \/ RebuildHour \/ RebuildDay \/ BackfillAggregates \/ AggregatesIfEmpty
  BY <1>2 DEF DeleteOldBuckets, RebuildHour, RebuildDay, BackfillAggregates, AggregatesIfEmpty,
     Advance
<1>3. CASE BackfillFirstSeen \/ FirstSeenIfEmpty
  BY <1>3 DEF BackfillFirstSeen, FirstSeenIfEmpty, Advance
<1>4. CASE DeleteOldSessions \/ DeleteState \/ InsertState \/ BackfillSessions \/ SessionsIfEmpty
  BY <1>4 DEF DeleteOldSessions, DeleteState, InsertState, BackfillSessions, SessionsIfEmpty,
     Advance
<1>5. CASE DeleteOldSessionDays \/ RebuildSessionDay \/ BackfillSessionAggs \/ SessionAggsIfEmpty
  BY <1>5 DEF DeleteOldSessionDays, RebuildSessionDay, BackfillSessionAggs, SessionAggsIfEmpty,
     Advance
<1> QED BY <1>1, <1>2, <1>3, <1>4, <1>5 DEF Other

JobInv == JobShape /\ ClearInv

LEMMA ClearStep ==
  ASSUME JobInv, [Next]_vars
  PROVE  JobInv'
<1> USE DEF JobInv
<1>1. ASSUME NEW w \in Workers, Begin(w) \/ Work(w) \/ Fail(w) PROVE JobInv'
  <2>1. CASE UNCHANGED Derived
    BY <2>1 DEF Derived, JobShape, ClearInv, ToDo
  <2>2. CASE Commit(w)
    <3>1. UNCHANGED <<job, lag>> /\ overlap' = TRUE
      BY <2>2 DEF Commit
    <3> QED BY <3>1 DEF JobShape, ClearInv, ToDo
  <2> QED BY <1>1, <2>1, <2>2, WorkersLeave
<1>2. CASE (\E k \in {"clean", "clear", "rebuild"} : BeginJob(k)) \/ StatementFails \/ Crash
  <2>1. JobShape' /\ (job'.kind = "clear" => ToDo' = 7)
    BY <1>2, JobStarts
  <2>2. job'.kind = "clear" => /\ ToDo' \notin {4, 5, 6}
                               /\ ToDo' \notin {5, 6} /\ ToDo' \notin {1, 2}
    BY <2>1
  <2> QED BY <2>1, <2>2 DEF ClearInv
<1>3. CASE Other
  BY <1>3, OthersAt, OtherPlace DEF ClearInv
<1>4. CASE Clearing
  <2>1. CASE DeleteRows
    <3>1. At("DeleteRows") /\ job' = Rest(Tail(job.todo))
          /\ rows' = rows \ rows /\ lag' = lag \cup {"counts", "first", "pages"}
      BY <2>1 DEF DeleteRows, Advance, RemoveRows
    <3>2. "DeleteRows" \in Clears
      BY DEF Clears
    <3>3. JobShape' /\ job.kind = "clear" /\ Place("DeleteRows", 7)
      BY <3>1, <3>2, ClearPlace
    <3> QED BY <3>1, <3>3 DEF Place, ClearInv
  <2>2. CASE ClearDims
    <3>1. At("ClearDims") /\ job' = Rest(Tail(job.todo)) /\ UNCHANGED <<rows, lag, overlap>>
      BY <2>2 DEF ClearDims, Advance, RemoveIds
    <3>2. "ClearDims" \in Clears
      BY DEF Clears
    <3>3. JobShape' /\ job.kind = "clear" /\ Place("ClearDims", 6)
      BY <3>1, <3>2, ClearPlace
    <3> QED BY <3>1, <3>3 DEF Place, ClearInv
  <2>3. CASE ClearFirstSeen
    <3>1. At("ClearFirstSeen") /\ job' = Rest(Tail(job.todo)) /\ UNCHANGED <<rows, overlap>>
          /\ lag \ {"first"} \subseteq lag'
      BY <2>3 DEF ClearFirstSeen, Advance, SetFirstSeen
    <3>2. "ClearFirstSeen" \in Clears
      BY DEF Clears
    <3>3. JobShape' /\ job.kind = "clear" /\ Place("ClearFirstSeen", 5)
      BY <3>1, <3>2, ClearPlace
    <3>4. "counts" \in lag => "counts" \in lag'
      BY <3>1
    <3> QED BY <3>1, <3>3, <3>4 DEF Place, ClearInv
  <2>4. CASE ClearAggregates
    <3>1. At("ClearAggregates") /\ job' = Rest(Tail(job.todo))
      BY <2>4 DEF ClearAggregates, Advance
    <3>2. "ClearAggregates" \in Clears
      BY DEF Clears
    <3>3. JobShape' /\ job.kind = "clear" /\ Place("ClearAggregates", 4)
      BY <3>1, <3>2, ClearPlace
    <3> QED BY <3>1, <3>3 DEF Place, ClearInv
  <2>5. CASE ClearSessions
    <3>1. At("ClearSessions") /\ job' = Rest(Tail(job.todo)) /\ sessions' = {}
          /\ "sessions" \in lag'
      BY <2>5 DEF ClearSessions, Advance, SetSessions
    <3>2. "ClearSessions" \in Clears
      BY DEF Clears
    <3>3. JobShape' /\ job.kind = "clear" /\ Place("ClearSessions", 3)
      BY <3>1, <3>2, ClearPlace
    <3> QED BY <3>1, <3>3 DEF Place, ClearInv
  <2>6. CASE ClearState
    <3>1. At("ClearState") /\ job' = Rest(Tail(job.todo)) /\ UNCHANGED <<sessions, overlap>>
          /\ lag \ {"state"} \subseteq lag'
      BY <2>6 DEF ClearState, Advance, SetSessions
    <3>2. "ClearState" \in Clears
      BY DEF Clears
    <3>3. JobShape' /\ job.kind = "clear" /\ Place("ClearState", 2)
      BY <3>1, <3>2, ClearPlace
    <3>4. "sessions" \in lag => "sessions" \in lag'
      BY <3>1
    <3> QED BY <3>1, <3>3, <3>4 DEF Place, ClearInv
  <2>7. CASE ClearSessionAggs
    <3>1. At("ClearSessionAggs") /\ job' = Rest(Tail(job.todo))
      BY <2>7 DEF ClearSessionAggs, Advance
    <3>2. "ClearSessionAggs" \in Clears
      BY DEF Clears
    <3>3. JobShape' /\ job.kind = "clear" /\ Place("ClearSessionAggs", 1)
      BY <3>1, <3>2, ClearPlace
    <3> QED BY <3>1, <3>3 DEF Place, ClearInv
  <2> QED BY <1>4, <2>1, <2>2, <2>3, <2>4, <2>5, <2>6, <2>7 DEF Clearing
<1>5. CASE UNCHANGED vars
  BY <1>5 DEF vars, history, visitTables, JobShape, ClearInv, ToDo
<1> QED BY <1>1, <1>2, <1>3, <1>4, <1>5, StatementKinds DEF Next

----------------------------
(* THE COUNTERS AND THE FIRST VIEWS *)

LEMMA CountsKept ==
  ASSUME CountsExact, UNCHANGED <<rows, counts>>, {"counts", "hourCut", "dayCut"} \cap lag \subseteq lag'
  PROVE  CountsExact'
<1> USE DEF CountsExact, Live, counts
<1>1. /\ "counts" \in lag => "counts" \in lag'
      /\ "hourCut" \in lag => "hourCut" \in lag'
      /\ "dayCut" \in lag => "dayCut" \in lag'
  OBVIOUS
<1> SUFFICES ASSUME "counts" \notin lag' PROVE CountsExact'
  OBVIOUS
<1>2. \A h \in Hours : Live(h, HourOf(Cutoff), "hourCut")' =>
         /\ hourly'[h] = Tally(InHour(rows, h))
         /\ {p \in hourIPs' : p[1] = h} = HourIPs(InHour(rows, h))
  BY <1>1
<1>3. \A d \in Days : Live(d, DayOf(Cutoff), "dayCut")' =>
         /\ daily'[d] = Tally(InDay(rows, d))
         /\ {p \in dayIPs' : p[1] = d} = DayIPs(InDay(rows, d))
  BY <1>1
<1> QED BY <1>2, <1>3

LEMMA RowsStocked ==
  ASSUME RowsInv
  PROVE  /\ Stocked(rows)
         /\ \A w \in Workers : Stocked(tx[w].mine) /\ rows \cap tx[w].mine = {}
BY DEF RowsInv, Stocked, AllRows, RowOK

\* A batch is counted with its rows.
LEMMA CommitCounts ==
  ASSUME RowsInv, CountsExact, NEW w \in Workers, Commit(w)
  PROVE  CountsExact'
<1> DEFINE M == tx[w].mine
<1>1. /\ rows' = rows \cup M /\ lag' = lag
      /\ hourly' = AddHourly(M) /\ daily' = AddDaily(M)
      /\ hourIPs' = AddHourIPs(M) /\ dayIPs' = AddDayIPs(M)
  BY DEF Commit
<1>2. Stocked(rows) /\ Stocked(M) /\ rows \cap M = {}
  BY RowsStocked
<1> HIDE DEF M
<1>3. \A h : /\ InHour(rows, h) \cap InHour(M, h) = {} /\ InDay(rows, h) \cap InDay(M, h) = {}
             /\ Stocked(InHour(rows, h)) /\ Stocked(InHour(M, h))
             /\ Stocked(InDay(rows, h)) /\ Stocked(InDay(M, h))
  <2> TAKE h
  <2>1. InHour(rows, h) \in SUBSET rows /\ InDay(rows, h) \in SUBSET rows
        /\ InHour(M, h) \in SUBSET M /\ InDay(M, h) \in SUBSET M
    BY BucketsOf
  <2> QED BY <2>1, <1>2, StockedCounts
<1> SUFFICES ASSUME "counts" \notin lag PROVE CountsExact'
  BY <1>1 DEF CountsExact
<1>4. ASSUME NEW h \in Hours, Live(h, HourOf(Cutoff), "hourCut")'
      PROVE  /\ hourly'[h] = Tally(InHour(rows', h))
             /\ {p \in hourIPs' : p[1] = h} = HourIPs(InHour(rows', h))
  <2>1. /\ hourly[h] = Tally(InHour(rows, h))
        /\ {p \in hourIPs : p[1] = h} = HourIPs(InHour(rows, h))
    BY <1>4, <1>1 DEF CountsExact, Live
  <2>2. hourly'[h] = Plus(hourly[h], Tally(InHour(M, h)))
    BY <1>1 DEF AddHourly
  <2>3. InHour(rows', h) = InHour(rows, h) \cup InHour(M, h)
    BY <1>1 DEF InHour
  <2>4. Tally(InHour(rows', h)) = Plus(Tally(InHour(rows, h)), Tally(InHour(M, h)))
    BY <1>3, <2>3, TallyUnion
  <2>5. {p \in hourIPs' : p[1] = h} = HourIPs(InHour(rows', h))
    <3>1. hourIPs' = hourIPs \cup HourIPs(M)
      BY <1>1 DEF AddHourIPs
    <3>2. HourIPs(InHour(rows', h)) = HourIPs(InHour(rows, h)) \cup HourIPs(InHour(M, h))
      BY <2>3, IPsUnion
    <3>3. HourIPs(InHour(M, h)) = {p \in HourIPs(M) : p[1] = h}
      BY BucketsOf
    <3> QED BY <2>1, <3>1, <3>2, <3>3
  <2> QED BY <2>1, <2>2, <2>4, <2>5
<1>5. ASSUME NEW d \in Days, Live(d, DayOf(Cutoff), "dayCut")'
      PROVE  /\ daily'[d] = Tally(InDay(rows', d))
             /\ {p \in dayIPs' : p[1] = d} = DayIPs(InDay(rows', d))
  <2>1. /\ daily[d] = Tally(InDay(rows, d))
        /\ {p \in dayIPs : p[1] = d} = DayIPs(InDay(rows, d))
    BY <1>5, <1>1 DEF CountsExact, Live
  <2>2. daily'[d] = Plus(daily[d], Tally(InDay(M, d)))
    BY <1>1 DEF AddDaily
  <2>3. InDay(rows', d) = InDay(rows, d) \cup InDay(M, d)
    BY <1>1 DEF InDay
  <2>4. Tally(InDay(rows', d)) = Plus(Tally(InDay(rows, d)), Tally(InDay(M, d)))
    BY <1>3, <2>3, TallyUnion
  <2>5. {p \in dayIPs' : p[1] = d} = DayIPs(InDay(rows', d))
    <3>1. dayIPs' = dayIPs \cup DayIPs(M)
      BY <1>1 DEF AddDayIPs
    <3>2. DayIPs(InDay(rows', d)) = DayIPs(InDay(rows, d)) \cup DayIPs(InDay(M, d))
      BY <2>3, IPsUnion
    <3>3. DayIPs(InDay(M, d)) = {p \in DayIPs(M) : p[1] = d}
      BY BucketsOf
    <3> QED BY <2>1, <3>1, <3>2, <3>3
  <2> QED BY <2>1, <2>2, <2>4, <2>5
<1> QED BY <1>4, <1>5 DEF CountsExact

\* The retention takes no row of an hour or a day that is counted.
LEMMA CleanCounts ==
  ASSUME RowsInv, CountsExact, DeleteOldRows
  PROVE  CountsExact'
<1> DEFINE R == {r \in rows : r.line.ts < Cutoff}
<1>1. CASE R = {}
  BY <1>1, CountsKept DEF DeleteOldRows, counts
<1>2. CASE R # {}
  <2>1. /\ rows' = rows \ R /\ UNCHANGED counts
        /\ lag' = lag \cup {"hourCut", "dayCut", "first", "pagesCut"}
    BY <1>2 DEF DeleteOldRows, RemoveRows
  <2>2. \A r \in R : /\ HourOf(r.line.ts) <= HourOf(Cutoff) /\ HourOf(r.line.ts) \in Nat
                     /\ DayOf(r.line.ts) <= DayOf(Cutoff) /\ DayOf(r.line.ts) \in Nat
    <3> SUFFICES ASSUME NEW r \in R
                 PROVE  /\ HourOf(r.line.ts) <= HourOf(Cutoff) /\ HourOf(r.line.ts) \in Nat
                        /\ DayOf(r.line.ts) <= DayOf(Cutoff) /\ DayOf(r.line.ts) \in Nat
      OBVIOUS
    <3>1. r.line.ts \in Nat /\ Cutoff \in Nat /\ r.line.ts <= Cutoff
      BY RowsStocked DEF Stocked
    <3> QED BY <3>1, EarlierBuckets
  <2>3. \A l \in Lines : HourOf(l.ts) \in Nat /\ DayOf(l.ts) \in Nat
    <3>1. \A l \in Lines : l.ts \in Nat /\ l.ts <= l.ts
      OBVIOUS
    <3> QED BY <3>1, EarlierBuckets
  <2>4. HourOf(Cutoff) \in Nat /\ DayOf(Cutoff) \in Nat
    BY EarlierBuckets
  <2> HIDE DEF R
  <2> SUFFICES ASSUME "counts" \notin lag PROVE CountsExact'
    BY <2>1 DEF CountsExact
  <2>5. ASSUME NEW h \in Hours, Live(h, HourOf(Cutoff), "hourCut")'
        PROVE  /\ hourly'[h] = Tally(InHour(rows', h))
               /\ {p \in hourIPs' : p[1] = h} = HourIPs(InHour(rows', h))
    <3>1. h > HourOf(Cutoff) /\ h \in Nat
      BY <2>1, <2>3, <2>5 DEF Live, Hours
    <3>2. \A r \in R : HourOf(r.line.ts) # h
      BY <3>1, <2>2, <2>4
    <3>3. InHour(rows', h) = InHour(rows, h)
      BY <2>1, <3>2 DEF InHour
    <3> QED BY <2>1, <3>1, <3>3 DEF CountsExact, Live, counts
  <2>6. ASSUME NEW d \in Days, Live(d, DayOf(Cutoff), "dayCut")'
        PROVE  /\ daily'[d] = Tally(InDay(rows', d))
               /\ {p \in dayIPs' : p[1] = d} = DayIPs(InDay(rows', d))
    <3>1. d > DayOf(Cutoff) /\ d \in Nat
      BY <2>1, <2>3, <2>6 DEF Live, Days
    <3>2. \A r \in R : DayOf(r.line.ts) # d
      BY <3>1, <2>2, <2>4
    <3>3. InDay(rows', d) = InDay(rows, d)
      BY <2>1, <3>2 DEF InDay
    <3> QED BY <2>1, <3>1, <3>3 DEF CountsExact, Live, counts
  <2> QED BY <2>5, <2>6 DEF CountsExact
<1> QED BY <1>1, <1>2

LEMMA RecountCounts ==
  ASSUME Recount
  PROVE  CountsExact'
<1>1. /\ hourly' = [h \in Hours |-> Tally(InHour(rows, h))] /\ hourIPs' = HourIPs(rows)
      /\ daily' = [d \in Days |-> Tally(InDay(rows, d))] /\ dayIPs' = DayIPs(rows)
      /\ rows' = rows
  BY DEF Recount, SetCounts
<1>2. \A h \in Hours : /\ hourly'[h] = Tally(InHour(rows', h))
                       /\ {p \in hourIPs' : p[1] = h} = HourIPs(InHour(rows', h))
  BY <1>1, BucketIPs
<1>3. \A d \in Days : /\ daily'[d] = Tally(InDay(rows', d))
                      /\ {p \in dayIPs' : p[1] = d} = DayIPs(InDay(rows', d))
  BY <1>1, BucketIPs
<1> QED BY <1>2, <1>3 DEF CountsExact

\* The retention deletes the buckets before the limit and recounts the one it cuts.
LEMMA BucketCounts ==
  ASSUME CountsExact, DeleteOldBuckets \/ RebuildHour \/ RebuildDay
  PROVE  CountsExact'
<1> DEFINE hc == HourOf(Cutoff)
           dc == DayOf(Cutoff)
<1>0. rows' = rows /\ hc \in Nat /\ dc \in Nat
  BY EarlierBuckets DEF DeleteOldBuckets, RebuildHour, RebuildDay, SetCounts
<1>1. (\A h \in Hours : h \in Nat) /\ (\A d \in Days : d \in Nat)
  BY EarlierBuckets DEF Hours, Days
<1> SUFFICES ASSUME "counts" \notin lag'
             PROVE  /\ \A h \in Hours : Live(h, hc, "hourCut")' =>
                         /\ hourly'[h] = Tally(InHour(rows, h))
                         /\ {p \in hourIPs' : p[1] = h} = HourIPs(InHour(rows, h))
                    /\ \A d \in Days : Live(d, dc, "dayCut")' =>
                         /\ daily'[d] = Tally(InDay(rows, d))
                         /\ {p \in dayIPs' : p[1] = d} = DayIPs(InDay(rows, d))
  BY <1>0 DEF CountsExact
<1>2. "counts" \notin lag
  BY DEF DeleteOldBuckets, RebuildHour, RebuildDay, SetCounts
<1>3. /\ \A h \in Hours : Live(h, hc, "hourCut") =>
           /\ hourly[h] = Tally(InHour(rows, h))
           /\ {p \in hourIPs : p[1] = h} = HourIPs(InHour(rows, h))
      /\ \A d \in Days : Live(d, dc, "dayCut") =>
           /\ daily[d] = Tally(InDay(rows, d))
           /\ {p \in dayIPs : p[1] = d} = DayIPs(InDay(rows, d))
  BY <1>2 DEF CountsExact
<1> HIDE DEF hc, dc
<1>4. CASE DeleteOldBuckets
  <2>1. /\ hourly' = [h \in Hours |-> IF h < hc THEN Zero ELSE hourly[h]]
        /\ hourIPs' = {p \in hourIPs : p[1] >= hc}
        /\ daily' = [d \in Days |-> IF d < dc THEN Zero ELSE daily[d]]
        /\ dayIPs' = {p \in dayIPs : p[1] >= dc}
        /\ lag' = lag
    BY <1>4 DEF DeleteOldBuckets, SetCounts, hc, dc
  <2>2. ASSUME NEW h \in Hours, Live(h, hc, "hourCut")'
        PROVE  /\ hourly'[h] = Tally(InHour(rows, h))
               /\ {p \in hourIPs' : p[1] = h} = HourIPs(InHour(rows, h))
    <3>1. Live(h, hc, "hourCut") /\ h >= hc /\ ~(h < hc)
      BY <2>1, <2>2, <1>0, <1>1 DEF Live
    <3>2. {p \in hourIPs' : p[1] = h} = {p \in hourIPs : p[1] = h}
      BY <2>1, <3>1
    <3> QED BY <1>3, <2>1, <3>1, <3>2
  <2>3. ASSUME NEW d \in Days, Live(d, dc, "dayCut")'
        PROVE  /\ daily'[d] = Tally(InDay(rows, d))
               /\ {p \in dayIPs' : p[1] = d} = DayIPs(InDay(rows, d))
    <3>1. Live(d, dc, "dayCut") /\ d >= dc /\ ~(d < dc)
      BY <2>1, <2>3, <1>0, <1>1 DEF Live
    <3>2. {p \in dayIPs' : p[1] = d} = {p \in dayIPs : p[1] = d}
      BY <2>1, <3>1
    <3> QED BY <1>3, <2>1, <3>1, <3>2
  <2> QED BY <2>2, <2>3
<1>5. CASE RebuildHour
  <2>1. /\ hourly' = [h \in Hours |-> IF h = hc THEN Tally(InHour(rows, h)) ELSE hourly[h]]
        /\ hourIPs' = {p \in hourIPs : p[1] # hc} \cup HourIPs(InHour(rows, hc))
        /\ daily' = daily /\ dayIPs' = dayIPs /\ lag' = lag \ {"hourCut"}
    BY <1>5 DEF RebuildHour, SetCounts, hc
  <2>2. ASSUME NEW h \in Hours, Live(h, hc, "hourCut")'
        PROVE  /\ hourly'[h] = Tally(InHour(rows, h))
               /\ {p \in hourIPs' : p[1] = h} = HourIPs(InHour(rows, h))
    <3>1. \A p \in HourIPs(InHour(rows, hc)) : p[1] = hc
      BY BucketIPs
    <3>2. CASE h = hc
      BY <2>1, <3>1, <3>2
    <3>3. CASE h # hc
      <4>1. Live(h, hc, "hourCut")
        BY <2>2, <3>3 DEF Live
      <4>2. {p \in hourIPs' : p[1] = h} = {p \in hourIPs : p[1] = h}
        BY <2>1, <3>1, <3>3
      <4> QED BY <1>3, <2>1, <3>3, <4>1, <4>2
    <3> QED BY <3>2, <3>3
  <2>3. "dayCut" \notin lag' => "dayCut" \notin lag
    BY <2>1
  <2> QED BY <1>3, <2>1, <2>2, <2>3 DEF Live
<1>6. CASE RebuildDay
  <2>1. /\ daily' = [d \in Days |-> IF d = dc THEN Tally(InDay(rows, d)) ELSE daily[d]]
        /\ dayIPs' = {p \in dayIPs : p[1] # dc} \cup DayIPs(InDay(rows, dc))
        /\ hourly' = hourly /\ hourIPs' = hourIPs /\ lag' = lag \ {"dayCut"}
    BY <1>6 DEF RebuildDay, SetCounts, dc
  <2>2. ASSUME NEW d \in Days, Live(d, dc, "dayCut")'
        PROVE  /\ daily'[d] = Tally(InDay(rows, d))
               /\ {p \in dayIPs' : p[1] = d} = DayIPs(InDay(rows, d))
    <3>1. \A p \in DayIPs(InDay(rows, dc)) : p[1] = dc
      BY BucketIPs
    <3>2. CASE d = dc
      BY <2>1, <3>1, <3>2
    <3>3. CASE d # dc
      <4>1. Live(d, dc, "dayCut")
        BY <2>2, <3>3 DEF Live
      <4>2. {p \in dayIPs' : p[1] = d} = {p \in dayIPs : p[1] = d}
        BY <2>1, <3>1, <3>3
      <4> QED BY <1>3, <2>1, <3>3, <4>1, <4>2
    <3> QED BY <3>2, <3>3
  <2>3. "hourCut" \notin lag' => "hourCut" \notin lag
    BY <2>1
  <2> QED BY <1>3, <2>1, <2>2, <2>3 DEF Live
<1> QED BY <1>4, <1>5, <1>6

\* Once the rows are gone the counters are nothing, unless a batch has come between.
LEMMA ClearCounts ==
  ASSUME JobInv, CountsExact, ClearAggregates
  PROVE  CountsExact'
<1>1. /\ hourly' = [h \in Hours |-> Zero] /\ hourIPs' = {}
      /\ daily' = [d \in Days |-> Zero] /\ dayIPs' = {}
      /\ lag' = lag \ (IF overlap THEN {} ELSE {"counts", "hourCut", "dayCut"})
      /\ rows' = rows /\ At("ClearAggregates") /\ job' = Rest(Tail(job.todo))
  BY DEF ClearAggregates, SetCounts, Advance
<1>2. "counts" \in lag /\ (overlap \/ rows = {})
  <2>1. "ClearAggregates" \in Clears
    BY DEF Clears
  <2>2. job.kind = "clear" /\ Place("ClearAggregates", 4)
    BY <1>1, <2>1, ClearPlace DEF JobInv
  <2> QED BY <2>2 DEF Place, JobInv, ClearInv
<1>3. CASE overlap
  BY <1>1, <1>2, <1>3 DEF CountsExact
<1>4. CASE rows = {}
  <2>1. \A h \in Hours : /\ hourly'[h] = Tally(InHour(rows', h))
                         /\ {p \in hourIPs' : p[1] = h} = HourIPs(InHour(rows', h))
    BY <1>1, <1>4, BucketsOf, TallyNone
  <2>2. \A d \in Days : /\ daily'[d] = Tally(InDay(rows', d))
                        /\ {p \in dayIPs' : p[1] = d} = DayIPs(InDay(rows', d))
    BY <1>1, <1>4, BucketsOf, TallyNone
  <2> QED BY <2>1, <2>2 DEF CountsExact
<1> QED BY <1>2, <1>3, <1>4

LEMMA CountsStep ==
  ASSUME RowsInv, JobInv, CountsExact, [Next]_vars
  PROVE  CountsExact'
<1>1. ASSUME NEW w \in Workers, Begin(w) \/ Work(w) \/ Fail(w) PROVE CountsExact'
  <2>1. CASE UNCHANGED Derived
    BY <2>1, CountsKept DEF Derived, counts
  <2> QED BY <1>1, <2>1, WorkersLeave, CommitCounts
<1>2. CASE (\E k \in {"clean", "clear", "rebuild"} : BeginJob(k)) \/ StatementFails \/ Crash
  BY <1>2, CountsKept DEF BeginJob, StatementFails, Crash, counts, history
<1>3. CASE DeleteRows \/ DeleteRange \/ Migrate
  <2>1. "counts" \in lag'
    BY <1>3 DEF DeleteRows, DeleteRange, Migrate, RemoveRows
  <2> QED BY <2>1 DEF CountsExact
<1>4. CASE DeleteOrphans \/ ClearDims
  BY <1>4, CountsKept DEF DeleteOrphans, ClearDims, RemoveIds, counts
<1>5. CASE BackfillAggregates \/ AggregatesIfEmpty
  <2>1. Recount \/ UNCHANGED <<rows, counts, lag>>
    BY <1>5 DEF BackfillAggregates, AggregatesIfEmpty, counts, history
  <2> QED BY <2>1, RecountCounts, CountsKept
<1>6. CASE BackfillFirstSeen \/ FirstSeenIfEmpty \/ ClearFirstSeen
  <2>1. UNCHANGED <<rows, counts>> /\ lag \ {"first"} \subseteq lag'
    BY <1>6 DEF BackfillFirstSeen, FirstSeenIfEmpty, ClearFirstSeen, SetFirstSeen, counts, history
  <2>2. {"counts", "hourCut", "dayCut"} \cap lag \subseteq lag'
    BY <2>1
  <2> QED BY <2>1, <2>2, CountsKept
<1>7. CASE DeleteOldSessions \/ DeleteState \/ InsertState \/ ClearSessions \/ ClearState
           \/ BackfillSessions \/ SessionsIfEmpty
  <2>1. UNCHANGED <<rows, counts>> /\ lag \ {"pages", "pagesCut", "sessions", "state"} \subseteq lag'
    BY <1>7 DEF DeleteOldSessions, DeleteState, InsertState, ClearSessions, ClearState,
       BackfillSessions, SessionsIfEmpty, Resession, SetSessions, counts, history
  <2>2. {"counts", "hourCut", "dayCut"} \cap lag \subseteq lag'
    BY <2>1
  <2> QED BY <2>1, <2>2, CountsKept
<1>8. CASE DeleteOldSessionDays \/ RebuildSessionDay \/ BackfillSessionAggs \/ SessionAggsIfEmpty
           \/ ClearSessionAggs
  <2>1. UNCHANGED <<rows, counts>> /\ lag \ {"sessions", "sessCut"} \subseteq lag'
    BY <1>8 DEF DeleteOldSessionDays, RebuildSessionDay, BackfillSessionAggs,
       SessionAggsIfEmpty, ClearSessionAggs, RecountSessions, SetSessionAggs, counts, history
  <2>2. {"counts", "hourCut", "dayCut"} \cap lag \subseteq lag'
    BY <2>1
  <2> QED BY <2>1, <2>2, CountsKept
<1>9. CASE UNCHANGED vars
  BY <1>9, CountsKept DEF vars, history
<1> QED BY <1>1, <1>2, <1>3, <1>4, <1>5, <1>6, <1>7, <1>8, <1>9,
           CleanCounts, BucketCounts, ClearCounts DEF Next, Statement

LEMMA FirstStep ==
  ASSUME RowsInv, JobInv, FirstSeenExact, [Next]_vars
  PROVE  FirstSeenExact'
<1> DEFINE Same == UNCHANGED <<rows, firstSeen>> /\ ("first" \in lag => "first" \in lag')
<1>0. ASSUME Same PROVE FirstSeenExact'
  BY <1>0 DEF FirstSeenExact
<1>1. ASSUME NEW w \in Workers, Begin(w) \/ Work(w) \/ Fail(w) PROVE FirstSeenExact'
  <2>1. CASE UNCHANGED Derived
    BY <2>1, <1>0 DEF Derived
  <2>2. CASE Commit(w)
    <3>1. /\ rows' = rows \cup tx[w].mine /\ lag' = lag
          /\ firstSeen' = Earliest(firstSeen, FirstViews(tx[w].mine))
      BY <2>2 DEF Commit
    <3>2. Earliest(FirstViews(rows), FirstViews(tx[w].mine)) = FirstViews(rows \cup tx[w].mine)
      BY RowsStocked, FirstUnion
    <3> QED BY <3>1, <3>2 DEF FirstSeenExact
  <2> QED BY <1>1, <2>1, <2>2, WorkersLeave
<1>2. CASE (\E k \in {"clean", "clear", "rebuild"} : BeginJob(k)) \/ StatementFails \/ Crash
  BY <1>2, <1>0 DEF BeginJob, StatementFails, Crash, history
<1>3. CASE DeleteOldRows \/ DeleteRows \/ DeleteRange \/ Migrate
  <2>1. "first" \in lag' \/ Same
    BY <1>3 DEF DeleteOldRows, DeleteRows, DeleteRange, Migrate, RemoveRows
  <2> QED BY <2>1, <1>0 DEF FirstSeenExact
<1>4. CASE DeleteOrphans \/ ClearDims
  BY <1>4, <1>0 DEF DeleteOrphans, ClearDims, RemoveIds
<1>5. CASE \/ DeleteOldBuckets \/ RebuildHour \/ RebuildDay
           \/ BackfillAggregates \/ AggregatesIfEmpty \/ ClearAggregates
  BY <1>5, <1>0 DEF DeleteOldBuckets, RebuildHour, RebuildDay, BackfillAggregates,
     AggregatesIfEmpty, ClearAggregates, Recount, SetCounts, history
<1>6. CASE BackfillFirstSeen \/ FirstSeenIfEmpty
  <2>1. SetFirstSeen(FirstViews(rows), {"first"}) \/ Same
    BY <1>6 DEF BackfillFirstSeen, FirstSeenIfEmpty, history
  <2> QED BY <2>1, <1>0 DEF SetFirstSeen, FirstSeenExact
<1>7. CASE ClearFirstSeen
  <2>1. /\ firstSeen' = <<>> /\ lag' = lag \ (IF overlap THEN {} ELSE {"first"})
        /\ rows' = rows /\ At("ClearFirstSeen") /\ job' = Rest(Tail(job.todo))
    BY <1>7 DEF ClearFirstSeen, SetFirstSeen, Advance
  <2>2. "first" \in lag /\ (overlap \/ rows = {})
    <3>1. "ClearFirstSeen" \in Clears
      BY DEF Clears
    <3>2. job.kind = "clear" /\ Place("ClearFirstSeen", 5)
      BY <2>1, <3>1, ClearPlace DEF JobInv
    <3> QED BY <3>2 DEF Place, JobInv, ClearInv
  <2>3. CASE overlap
    BY <2>1, <2>2, <2>3 DEF FirstSeenExact
  <2>4. CASE rows = {}
    BY <2>1, <2>4, FirstNone DEF FirstSeenExact
  <2> QED BY <2>2, <2>3, <2>4
<1>8. CASE DeleteOldSessions \/ DeleteState \/ InsertState \/ ClearSessions \/ ClearState
           \/ BackfillSessions \/ SessionsIfEmpty
  BY <1>8, <1>0 DEF DeleteOldSessions, DeleteState, InsertState, ClearSessions, ClearState,
     BackfillSessions, SessionsIfEmpty, Resession, SetSessions, history
<1>9. CASE DeleteOldSessionDays \/ RebuildSessionDay \/ BackfillSessionAggs \/ SessionAggsIfEmpty
           \/ ClearSessionAggs
  BY <1>9, <1>0 DEF DeleteOldSessionDays, RebuildSessionDay, BackfillSessionAggs,
     SessionAggsIfEmpty, ClearSessionAggs, RecountSessions, SetSessionAggs, history
<1>10. CASE UNCHANGED vars
  BY <1>10, <1>0 DEF vars, history
<1> QED BY <1>1, <1>2, <1>3, <1>4, <1>5, <1>6, <1>7, <1>8, <1>9, <1>10 DEF Next, Statement

----------------------------
(* THE SESSIONS, AND WHAT THE TRANSACTIONS SAY OF THEM *)

SessionSet == [id : Nat \ {0}, ip : Nat, start : Nat, end : Nat, entry : Nat, exit : Nat,
               pages : Nat \ {0}]
AllSessions == sessions \cup UNION {tx[u].new : u \in Workers}
SessionOK(s, n) == s \in SessionSet /\ s.id < n /\ s.start <= s.end
\* A session that is named has been opened, and not after the time it is named with.
Named(x, ts, S, n) ==
  /\ x \in Nat \ {0} /\ x < n /\ ts \in Nat
  /\ \A s \in S : s.id = x => s.start <= ts
RefsOK(f, S, n) == \A i \in DOMAIN f : Named(f[i].session, f[i].last, S, n)
UpdOK(f, S, n) ==
  \A x \in DOMAIN f : Named(x, f[x].end, S, n) /\ f[x].exit \in Nat /\ f[x].pages \in Nat \ {0}

SessInv ==
  /\ nextSession \in Nat \ {0}
  /\ IsFiniteSet(sessions) /\ \A w \in Workers : IsFiniteSet(tx[w].new)
  /\ \A s \in AllSessions : SessionOK(s, nextSession)
  /\ \A s, q \in AllSessions : s.id = q.id => s = q
  /\ \A w \in Workers : sessions \cap tx[w].new = {}
  /\ \A w, u \in Workers : w # u => tx[w].new \cap tx[u].new = {}
  /\ RefsOK(sstate, AllSessions, nextSession)
  /\ \A w \in Workers : /\ RefsOK(tx[w].cache, AllSessions, nextSession)
                         /\ UpdOK(tx[w].upd, AllSessions, nextSession)

\* The rows whose sessions a transaction has still to look for are its own.
VisitsInv == \A w \in Workers : tx[w].visits \in Seq(tx[w].mine)

\* A transaction before its first statement.
Blank(t) == t.visits = <<>> /\ t.mine = {} /\ t.new = {} /\ t.cache = <<>> /\ t.upd = <<>>
            /\ t.keys = {}

LEMMA BlankSteps ==
  ASSUME Shape, NEW w \in Workers, Begin(w) \/ DeadlockVictim(w) \/ Fail(w)
  PROVE  /\ Only(w) /\ Blank(tx'[w])
         /\ UNCHANGED <<rows, sessions, sstate, nextSession, lag, blurred>>
<1>1. \A s, n : Blank(Attempt(s, n)) /\ Blank(Idle)
  BY DEF Blank, Attempt, Idle
<1>2. UNCHANGED <<rows, sessions, sstate, nextSession, lag, blurred>>
  BY DEF Begin, DeadlockVictim, Fail, visitTables, history
<1>3. CASE Begin(w)
  BY <1>1, <1>2, <1>3, BeginSteps
<1>4. CASE DeadlockVictim(w) \/ Fail(w)
  BY <1>1, <1>2, <1>4, AbortSteps
<1> QED BY <1>3, <1>4

\* What a step of an open transaction writes.
LEMMA DimFields ==
  ASSUME Shape, NEW w \in Workers, GetOrCreateDimID(w)
  PROVE  LET t == tx[w]
             n == tx'[w]
         IN  /\ Only(w) /\ n.visits = t.visits /\ n.mine = t.mine /\ n.new = t.new
             /\ n.cache = t.cache /\ n.upd = t.upd /\ n.keys = t.keys
             /\ n.attempt = t.attempt /\ n.batch = t.batch
             /\ UNCHANGED <<rows, sessions, sstate, nextSession, lag, blurred>>
<1> DEFINE t == tx[w]
<1>0. DOMAIN t = Fields
  BY DEF Shape, TxShape
<1>1. \E a, b, c, d : tx' = [tx EXCEPT ![w].ids[NextName(t)] = a, ![w].fresh = b, ![w].at = c,
                                       ![w].phase = d]
  BY Zenon DEF GetOrCreateDimID
<1>2. PICK a, b, c, d : tx' = [tx EXCEPT ![w].ids[NextName(t)] = a, ![w].fresh = b, ![w].at = c,
                                       ![w].phase = d]
  BY <1>1, Zenon
<1>3. PICK e : tx'[w] = [t EXCEPT !.ids = e, !.fresh = b, !.at = c, !.phase = d]
  BY <1>2 DEF Shape
<1>4. Only(w)
  BY <1>2 DEF Only, Shape
<1>5. UNCHANGED <<rows, sessions, sstate, nextSession, lag, blurred>>
  BY DEF GetOrCreateDimID, visitTables, history
<1> QED BY <1>0, <1>3, <1>4, <1>5 DEF Fields

LEMMA InsertFields ==
  ASSUME Shape, NEW w \in Workers, BulkInsertLogRows(w)
  PROVE  LET t == tx[w]
             n == tx'[w]
         IN  /\ Only(w) /\ n.visits = Inserted(t) /\ n.mine = {RowAt(t, i) : i \in Taken(t)}
             /\ n.new = t.new /\ n.cache = t.cache /\ n.upd = t.upd /\ n.keys = t.keys
             /\ n.attempt = t.attempt /\ n.batch = t.batch /\ t.phase = "rows"
             /\ UNCHANGED <<rows, sessions, sstate, nextSession, lag, blurred>>
<1> DEFINE t == tx[w]
           M == {RowAt(t, i) : i \in Taken(t)}
           V == Inserted(t)
<1>0. DOMAIN t = Fields
  BY DEF Shape, TxShape
<1>1. tx' = [tx EXCEPT ![w].mine = M, ![w].visits = V, ![w].phase = "visits"]
  BY DEF BulkInsertLogRows
<1> HIDE DEF M, V
<1>2. Only(w) /\ tx'[w] = [t EXCEPT !.mine = M, !.visits = V, !.phase = "visits"]
  BY <1>1 DEF Only, Shape
<1>3. UNCHANGED <<rows, sessions, sstate, nextSession, lag, blurred>> /\ t.phase = "rows"
  BY Zenon DEF BulkInsertLogRows, Runs, visitTables, history
<1>4. tx'[w].mine = M /\ tx'[w].visits = V
  BY <1>0, <1>2 DEF Fields
<1> QED BY <1>0, <1>2, <1>3, <1>4 DEF Fields, M, V

\* A transaction that looks for the session of its next row.
NextRow(w) == Head(tx[w].visits)
StateOfNext(w) == StateFor(tx[w], NextRow(w).ip)
Opened(w) ==
  LET r == NextRow(w) IN
    [id |-> nextSession, ip |-> r.ip, start |-> r.line.ts, end |-> r.line.ts,
     entry |-> r.url, exit |-> r.url, pages |-> 1]
Extended(w) ==
  LET x == StateOfNext(w).session IN
    [end |-> NextRow(w).line.ts, exit |-> NextRow(w).url,
     pages |-> (IF x \in DOMAIN tx[w].upd THEN tx[w].upd[x].pages ELSE 0) + 1]

LEMMA VisitFields ==
  ASSUME Shape, NEW w \in Workers, NoVisit(w) \/ VisitOpens(w) \/ VisitExtends(w)
  PROVE  LET t == tx[w]
             n == tx'[w]
         IN  /\ Only(w) /\ n.visits = Tail(t.visits) /\ n.mine = t.mine
             /\ n.attempt = t.attempt /\ n.batch = t.batch /\ t.visits # <<>>
             /\ UNCHANGED <<rows, sessions, sstate, lag>>
             /\ n.keys = IF NextRow(w).line.pv THEN t.keys \cup {NextRow(w).ip} ELSE t.keys
<1> DEFINE t == tx[w]
           r == NextRow(w)
           K == IF r.line.pv THEN t.keys \cup {r.ip} ELSE t.keys
<1>0. DOMAIN t = Fields
  BY DEF Shape, TxShape
<1>1. t.visits # <<>> /\ UNCHANGED <<rows, sessions, sstate, lag>>
  BY Zenon DEF NoVisit, VisitOpens, VisitExtends, Visited
<1>2. CASE NoVisit(w)
  <2>1. tx' = [tx EXCEPT ![w].visits = Tail(@), ![w].keys = K]
    BY <1>2 DEF NoVisit, NextRow
  <2> HIDE DEF K, r
  <2>2. Only(w) /\ tx'[w] = [t EXCEPT !.visits = Tail(@), !.keys = K]
    BY <2>1 DEF Only, Shape
  <2> QED BY <1>0, <1>1, <2>2 DEF Fields, K, r
<1>3. CASE VisitOpens(w)
  <2>1. \E c, d : tx' = [tx EXCEPT ![w].visits = Tail(@), ![w].keys = K, ![w].new = c, ![w].cache = d]
    BY <1>3, Zenon DEF VisitOpens, NextRow
  <2> HIDE DEF K, r
  <2>2. PICK c, d : tx' = [tx EXCEPT ![w].visits = Tail(@), ![w].keys = K, ![w].new = c, ![w].cache = d]
    BY <2>1, Zenon
  <2>3. Only(w) /\ tx'[w] = [t EXCEPT !.visits = Tail(@), !.keys = K, !.new = c, !.cache = d]
    BY <2>2 DEF Only, Shape
  <2> QED BY <1>0, <1>1, <2>3 DEF Fields, K, r
<1>4. CASE VisitExtends(w)
  <2>1. \E c, d : tx' = [tx EXCEPT ![w].visits = Tail(@), ![w].keys = K, ![w].upd = c, ![w].cache = d]
    BY <1>4, Zenon DEF VisitExtends, NextRow
  <2> HIDE DEF K, r
  <2>2. PICK c, d : tx' = [tx EXCEPT ![w].visits = Tail(@), ![w].keys = K, ![w].upd = c, ![w].cache = d]
    BY <2>1, Zenon
  <2>3. Only(w) /\ tx'[w] = [t EXCEPT !.visits = Tail(@), !.keys = K, !.upd = c, !.cache = d]
    BY <2>2 DEF Only, Shape
  <2> QED BY <1>0, <1>1, <2>3 DEF Fields, K, r
<1> QED BY <1>2, <1>3, <1>4

LEMMA NoVisitFields ==
  ASSUME Shape, NEW w \in Workers, NoVisit(w)
  PROVE  /\ tx'[w].new = tx[w].new /\ tx'[w].cache = tx[w].cache /\ tx'[w].upd = tx[w].upd
         /\ nextSession' = nextSession
<1> DEFINE t == tx[w]
<1>0. DOMAIN t = Fields
  BY DEF Shape, TxShape
<1>1. \E a, b : tx' = [tx EXCEPT ![w].visits = a, ![w].keys = b]
  BY DEF NoVisit
<1>2. PICK a, b : tx' = [tx EXCEPT ![w].visits = a, ![w].keys = b]
  BY <1>1
<1>3. tx'[w] = [t EXCEPT !.visits = a, !.keys = b]
  BY <1>2 DEF Shape
<1>4. nextSession' = nextSession
  BY DEF NoVisit
<1> QED BY <1>0, <1>3, <1>4 DEF Fields

LEMMA OpensFields ==
  ASSUME Shape, NEW w \in Workers, VisitOpens(w)
  PROVE  LET r == NextRow(w)
         IN  /\ tx'[w].new = tx[w].new \cup {Opened(w)}
             /\ tx'[w].cache = Put(tx[w].cache, r.ip, [session |-> nextSession, last |-> r.line.ts])
             /\ tx'[w].upd = tx[w].upd /\ nextSession' = nextSession + 1
             /\ r.line.pv
             /\ LET st == StateOfNext(w)
                IN  st.session = 0 \/ (r.line.ts >= st.last /\ r.line.ts - st.last > Gap)
<1> DEFINE t == tx[w]
           r == NextRow(w)
           s == Opened(w)
           C == Put(t.cache, r.ip, [session |-> s.id, last |-> r.line.ts])
<1>0. DOMAIN t = Fields
  BY DEF Shape, TxShape
<1>1. tx' = [tx EXCEPT ![w].visits = Tail(@), ![w].keys = @ \cup {r.ip},
                      ![w].new = @ \cup {s}, ![w].cache = C]
  BY Zenon DEF VisitOpens, NextRow, Opened
<1>2. s.id = nextSession
  BY DEF Opened
<1>3. nextSession' = nextSession + 1 /\ r.line.pv
  BY Zenon DEF VisitOpens, NextRow
<1>4. LET st == StateOfNext(w)
      IN  st.session = 0 \/ (r.line.ts >= st.last /\ r.line.ts - st.last > Gap)
  BY Zenon DEF VisitOpens, NextRow, StateOfNext
<1> HIDE DEF r, s, C
<1>5. tx'[w] = [t EXCEPT !.visits = Tail(@), !.keys = @ \cup {r.ip}, !.new = @ \cup {s}, !.cache = C]
  BY <1>1 DEF Shape
<1>6. tx'[w].new = t.new \cup {s} /\ tx'[w].cache = C /\ tx'[w].upd = t.upd
  BY <1>0, <1>5 DEF Fields
<1> QED BY <1>2, <1>3, <1>4, <1>6 DEF r, s, C

LEMMA ExtendsFields ==
  ASSUME Shape, NEW w \in Workers, VisitExtends(w)
  PROVE  LET r == NextRow(w)
             st == StateOfNext(w)
         IN  /\ tx'[w].new = tx[w].new /\ nextSession' = nextSession
             /\ tx'[w].cache = Put(tx[w].cache, r.ip, [session |-> st.session, last |-> r.line.ts])
             /\ tx'[w].upd = Put(tx[w].upd, st.session, Extended(w))
             /\ r.line.pv /\ st.session # 0 /\ r.line.ts >= st.last /\ r.line.ts - st.last <= Gap
<1> DEFINE t == tx[w]
           r == NextRow(w)
           st == StateOfNext(w)
           U == Put(t.upd, st.session, Extended(w))
           C == Put(t.cache, r.ip, [session |-> st.session, last |-> r.line.ts])
<1>0. DOMAIN t = Fields
  BY DEF Shape, TxShape
<1>1. tx' = [tx EXCEPT ![w].visits = Tail(@), ![w].keys = @ \cup {r.ip},
                      ![w].upd = U, ![w].cache = C]
  BY Zenon DEF VisitExtends, NextRow, StateOfNext, Extended
<1>2. /\ nextSession' = nextSession
      /\ r.line.pv /\ st.session # 0 /\ r.line.ts >= st.last /\ r.line.ts - st.last <= Gap
  BY Zenon DEF VisitExtends, NextRow, StateOfNext
<1> HIDE DEF r, st, U, C
<1>3. tx'[w] = [t EXCEPT !.visits = Tail(@), !.keys = @ \cup {r.ip}, !.upd = U, !.cache = C]
  BY <1>1 DEF Shape
<1>4. tx'[w].new = t.new /\ tx'[w].cache = C /\ tx'[w].upd = U
  BY <1>0, <1>3 DEF Fields
<1> QED BY <1>2, <1>4 DEF r, st, U, C

----------------------------
(* A VISIT, AND A COMMIT *)

LEMMA LatestIs ==
  ASSUME NEW S, IsFiniteSet(S), \A s \in S : s \in SessionSet, NEW i, \E s \in S : s.ip = i
  PROVE  /\ Latest(S, i) \in S /\ Latest(S, i).ip = i
         /\ \A t \in S : t.ip = i => t.end < Latest(S, i).end
                                     \/ (t.end = Latest(S, i).end /\ t.id <= Latest(S, i).id)
<1> DEFINE D == {s \in S : s.ip = i}
           a == [s \in D |-> s.end]
           b == [s \in D |-> s.id]
<1>1. IsFiniteSet(D) /\ D # {}
  BY FS_Subset
<1>2. a \in [D -> Int] /\ b \in [D -> Int]
  BY DEF SessionSet
<1>3. PICK m \in D : \A t \in D : a[t] < a[m] \/ (a[t] = a[m] /\ b[t] <= b[m])
  <2> HIDE DEF a, b, D
  <2> QED BY <1>1, <1>2, TopOf
<1>4. \A t \in D : t.end < m.end \/ (t.end = m.end /\ t.id <= m.id)
  BY <1>3
<1>5. m \in S /\ m.ip = i /\ \A t \in S : t.ip = i =>
                        t.end < m.end \/ (t.end = m.end /\ t.id <= m.id)
  BY <1>3, <1>4
<1> HIDE DEF D, a, b
<1> QED BY <1>5 DEF Latest

LEMMA LastIs ==
  ASSUME NEW P, IsFiniteSet(P), P # {}, \A r \in P : RowOK(r)
  PROVE  LastOf(P) \in P /\ \A s \in P : ~Before(LastOf(P), s)
<1> DEFINE a == [r \in P |-> r.line.ts]
           b == [r \in P |-> r.n]
<1>1. \A r \in P : r.line.ts \in Nat /\ r.n \in Nat
  BY DEF RowOK
<1>2. a \in [P -> Int] /\ b \in [P -> Int]
  BY <1>1
<1>3. PICK m \in P : \A t \in P : a[t] < a[m] \/ (a[t] = a[m] /\ b[t] <= b[m])
  <2> HIDE DEF a, b
  <2>1. IsFiniteSet(P) /\ P # {}
    OBVIOUS
  <2> QED BY ONLY <1>2, <2>1, TopOf
<1>4. \A t \in P : t.line.ts < m.line.ts \/ (t.line.ts = m.line.ts /\ t.n <= m.n)
  BY <1>3
<1>5. \A t \in P : ~Before(m, t)
  BY <1>1, <1>4 DEF Before
<1> QED BY <1>5 DEF LastOf

LEMMA InsertedIs ==
  ASSUME NEW t, TxShape(t)
  PROVE  Inserted(t) \in Seq({RowAt(t, i) : i \in Taken(t)})
<1> DEFINE S == Taken(t)
           c == Cardinality(S)
           G(k) == CHOOSE i \in S : RankIn(S, i) = k
<1>1. S \in SUBSET Nat /\ IsFiniteSet(S) /\ c \in Nat
  <2>1. S \subseteq 1..Len(t.batch) /\ Len(t.batch) \in Nat
    BY DEF Taken, TxShape
  <2>2. IsFiniteSet(1..Len(t.batch)) /\ S \in SUBSET (1..Len(t.batch))
    BY <2>1, FS_Interval
  <2> HIDE DEF S
  <2>3. IsFiniteSet(S)
    BY <2>2, FS_Subset
  <2>4. S \in SUBSET Nat
    BY <2>1
  <2> QED BY <2>3, <2>4, FS_CardinalityType
<1> HIDE DEF S
<1>2. \A k \in 1..c : \E i \in S : RankIn(S, i) = k
  BY <1>1, Ranks
<1>3. \A k \in 1..c : G(k) \in S
  BY <1>2
<1>4. Inserted(t) = [k \in 1..c |-> RowAt(t, G(k))]
  BY DEF Inserted, S
<1> DEFINE M == {RowAt(t, i) : i \in S}
<1> HIDE DEF G, c
<1>5. Inserted(t) \in [1..c -> M]
  BY <1>3, <1>4
<1>6. \A n \in Nat : \A X : \A f \in [1..n -> X] : f \in Seq(X)
  OBVIOUS
<1>7. c \in Nat
  BY <1>1
<1> HIDE DEF M
<1>8. Inserted(t) \in Seq(M)
  BY <1>5, <1>6, <1>7
<1> QED BY <1>8 DEF M, S

LEMMA VisitsStep ==
  ASSUME IdsInv, VisitsInv, [Next]_vars
  PROVE  VisitsInv'
<1>0. Shape
  BY DEF IdsInv
<1>1. ASSUME NEW w \in Workers, Begin(w) \/ Work(w) \/ Fail(w) PROVE VisitsInv'
  <2>0. ASSUME NEW n, n = tx'[w], Only(w), n.visits \in Seq(n.mine) PROVE VisitsInv'
    BY <2>0 DEF Only, VisitsInv
  <2>1. CASE Begin(w) \/ DeadlockVictim(w) \/ Fail(w)
    <3>1. <<>> \in Seq({})
      OBVIOUS
    <3> QED BY <1>0, <2>0, <2>1, <3>1, BlankSteps DEF Blank
  <2>2. CASE GetOrCreateDimID(w)
    BY <1>0, <2>0, <2>2, DimFields DEF VisitsInv
  <2>3. CASE BulkInsertLogRows(w)
    <3>1. Inserted(tx[w]) \in Seq({RowAt(tx[w], i) : i \in Taken(tx[w])})
      BY <1>0, InsertedIs DEF Shape
    <3> QED BY <1>0, <2>0, <2>3, <3>1, InsertFields
  <2>4. CASE NoVisit(w) \/ VisitOpens(w) \/ VisitExtends(w)
    <3>1. Only(w) /\ tx'[w].visits = Tail(tx[w].visits) /\ tx'[w].mine = tx[w].mine
          /\ tx[w].visits # <<>>
      BY <1>0, <2>4, VisitFields
    <3>2. \A X : \A v \in Seq(X) : v # <<>> => Tail(v) \in Seq(X)
      OBVIOUS
    <3> QED BY <2>0, <3>1, <3>2 DEF VisitsInv
  <2>5. CASE Commit(w)
    <3>1. Only(w) /\ tx'[w] = Idle
      BY <1>0, <2>5, CommitSteps
    <3>2. Idle.visits \in Seq(Idle.mine)
      BY DEF Idle
    <3> QED BY <2>0, <3>1, <3>2
  <2> QED BY <1>1, <2>1, <2>2, <2>3, <2>4, <2>5 DEF Work
<1>2. CASE Crash
  <2>1. \A w \in Workers : tx'[w] = Idle
    BY <1>2 DEF Crash
  <2>2. Idle.visits \in Seq(Idle.mine)
    BY DEF Idle
  <2> QED BY <2>1, <2>2 DEF VisitsInv
<1>3. CASE Statement
  <2>1. tx' = tx
    BY <1>0, <1>3, StatementSteps, MigrateSteps DEF Shape, Deletes, Removes
  <2> QED BY <2>1 DEF VisitsInv
<1>4. CASE (\E k \in {"clean", "clear", "rebuild"} : BeginJob(k)) \/ StatementFails \/ UNCHANGED vars
  BY <1>4 DEF BeginJob, StatementFails, vars, VisitsInv
<1> QED BY <1>1, <1>2, <1>3, <1>4 DEF Next

LEMMA VisitRow ==
  ASSUME RowsInv, VisitsInv, NEW w \in Workers, tx[w].visits # <<>>
  PROVE  NextRow(w) \in tx[w].mine /\ RowOK(NextRow(w))
         /\ NextRow(w).line.ts \in Nat /\ NextRow(w).ip \in Nat /\ NextRow(w).url \in Nat
<1>1. NextRow(w) \in tx[w].mine
  BY DEF VisitsInv, NextRow
<1>2. RowOK(NextRow(w))
  BY <1>1 DEF RowsInv, AllRows
<1> QED BY <1>1, <1>2 DEF RowOK

\* The sessions that the rows make up.
LEMMA SessionsOfRows ==
  ASSUME NEW R, IsFiniteSet(R), \A r \in R : RowOK(r)
  PROVE  /\ IsFiniteSet(SessionsOf(R))
         /\ \A s \in SessionsOf(R) :
              /\ s \in [ip : Nat, start : Nat, end : Nat, entry : Nat, exit : Nat, pages : Nat \ {0}]
              /\ s.start <= s.end
<1> DEFINE V == {v \in Views(R) : Opens(v, R)}
           f == [r \in V |-> SessionOf(r, R)]
<1>1. IsFiniteSet(Views(R)) /\ V \in SUBSET Views(R) /\ Views(R) \in SUBSET R
  BY FS_Subset DEF Views
<1>2. IsFiniteSet(V)
  <2> HIDE DEF V
  <2> QED BY <1>1, FS_Subset
<1>3. SessionsOf(R) = {f[r] : r \in V}
  BY DEF SessionsOf
<1>4. IsFiniteSet(SessionsOf(R))
  <2> HIDE DEF V, f
  <2> QED BY <1>2, <1>3, ImageFinite
<1>5. ASSUME NEW r \in V
      PROVE  LET s == SessionOf(r, R) IN
             /\ s \in [ip : Nat, start : Nat, end : Nat, entry : Nat, exit : Nat, pages : Nat \ {0}]
             /\ s.start <= s.end
  <2> DEFINE P == PagesFrom(r, R)
             z == LastOf(P)
  <2>1. r \in Views(R) /\ RowOK(r) /\ r.line.ts \in Nat /\ r.n \in Nat /\ r.ip \in Nat /\ r.url \in Nat
    BY <1>1 DEF RowOK
  <2>2. ~Before(r, r)
    BY <2>1 DEF Before
  <2>3. r \in P /\ P \in SUBSET Views(R)
    BY <2>1, <2>2 DEF PagesFrom
  <2> HIDE DEF P
  <2>4. IsFiniteSet(P) /\ P # {} /\ \A q \in P : RowOK(q)
    BY <1>1, <2>3, FS_Subset
  <2>5. z \in P /\ ~Before(z, r)
    BY <2>3, <2>4, LastIs
  <2>6. z.line.ts \in Nat /\ z.url \in Nat
    BY <2>4, <2>5 DEF RowOK
  <2>7. r.line.ts <= z.line.ts
    BY <2>1, <2>5, <2>6 DEF Before
  <2>8. Cardinality(P) \in Nat \ {0}
    BY <2>4, FS_CardinalityType, FS_EmptySet
  <2>9. SessionOf(r, R) = [ip |-> r.ip, start |-> r.line.ts, end |-> z.line.ts,
                           entry |-> r.url, exit |-> z.url, pages |-> Cardinality(P)]
    BY DEF SessionOf, P
  <2> HIDE DEF z
  <2> QED BY <2>1, <2>6, <2>7, <2>8, <2>9
<1>6. \A s \in SessionsOf(R) : \E r \in V : s = SessionOf(r, R)
  BY DEF SessionsOf
<1> QED BY <1>4, <1>5, <1>6

\* T has no session that S has not, but new ones.
Follows(T, S, n, m) ==
  /\ n \in Nat /\ m \in Nat /\ n <= m
  /\ \A s \in T : s.id \in Nat /\ (s.id >= n \/ \E q \in S : q.id = s.id /\ q.start = s.start)

LEMMA NamedStill ==
  ASSUME NEW T, NEW S, NEW n, NEW m, Follows(T, S, n, m), NEW x, NEW ts, Named(x, ts, S, n)
  PROVE  Named(x, ts, T, m)
<1>1. x \in Nat \ {0} /\ x < m /\ ts \in Nat /\ n \in Nat /\ x < n
  BY DEF Named, Follows
<1>2. \A s \in T : s.id = x => s.start <= ts
  <2> SUFFICES ASSUME NEW s \in T, s.id = x PROVE s.start <= ts
    OBVIOUS
  <2>1. ~(s.id >= n)
    BY <1>1
  <2>2. PICK q \in S : q.id = s.id /\ q.start = s.start
    BY <2>1 DEF Follows
  <2> QED BY <2>2 DEF Named
<1> QED BY <1>1, <1>2 DEF Named

LEMMA RefsStill ==
  ASSUME NEW T, NEW S, NEW n, NEW m, Follows(T, S, n, m), NEW f
  PROVE  (RefsOK(f, S, n) => RefsOK(f, T, m)) /\ (UpdOK(f, S, n) => UpdOK(f, T, m))
BY NamedStill DEF RefsOK, UpdOK

LEMMA NoRefs == \A S, n : RefsOK(<<>>, S, n) /\ UpdOK(<<>>, S, n)
BY DEF RefsOK, UpdOK

LEMMA OverIs ==
  ASSUME NEW a, NEW b
  PROVE  /\ DOMAIN Over(a, b) = DOMAIN a \cup DOMAIN b
         /\ \A x \in DOMAIN a : Over(a, b)[x] = a[x]
         /\ \A x \in DOMAIN b \ DOMAIN a : Over(a, b)[x] = b[x]
<1> DEFINE v(x) == IF x \in DOMAIN a THEN a[x] ELSE b[x]
           D == DOMAIN a \cup DOMAIN b
<1>1. Over(a, b) = [x \in D |-> v(x)]
  BY DEF Over
<1>2. \A x \in D : Over(a, b)[x] = v(x)
  BY <1>1
<1> QED BY <1>1, <1>2

LEMMA PutIs ==
  \A e, k, new :
    /\ DOMAIN Put(e, k, new) = {k} \cup DOMAIN e
    /\ Put(e, k, new)[k] = new
    /\ \A x \in DOMAIN e \ {k} : Put(e, k, new)[x] = e[x]
<1> TAKE e, k, new
<1> DEFINE g == [y \in {k} |-> new]
<1>1. DOMAIN g = {k} /\ g[k] = new
  OBVIOUS
<1>2. Put(e, k, new) = Over(g, e)
  BY DEF Put
<1> HIDE DEF g
<1>3. DOMAIN Over(g, e) = DOMAIN g \cup DOMAIN e
  BY OverIs
<1>4. \A x \in DOMAIN g : Over(g, e)[x] = g[x]
  BY OverIs
<1>5. \A x \in DOMAIN e \ DOMAIN g : Over(g, e)[x] = e[x]
  BY OverIs
<1> QED BY <1>1, <1>2, <1>3, <1>4, <1>5

LEMMA PutRefs ==
  ASSUME NEW f, NEW S, NEW n, NEW i, NEW r
  PROVE  /\ RefsOK(f, S, n) /\ Named(r.session, r.last, S, n) => RefsOK(Put(f, i, r), S, n)
         /\ UpdOK(f, S, n) /\ Named(i, r.end, S, n) /\ r.exit \in Nat /\ r.pages \in Nat \ {0}
            => UpdOK(Put(f, i, r), S, n)
<1>a. DOMAIN Put(f, i, r) = {i} \cup DOMAIN f
  BY PutIs
<1>b. Put(f, i, r)[i] = r
  BY PutIs
<1>c. \A x \in DOMAIN f \ {i} : Put(f, i, r)[x] = f[x]
  BY PutIs
<1> DEFINE p == Put(f, i, r)
<1>0. DOMAIN p = {i} \cup DOMAIN f /\ p[i] = r /\ \A x \in DOMAIN f \ {i} : p[x] = f[x]
  BY <1>a, <1>b, <1>c
<1> HIDE DEF p
<1>1. \A x \in DOMAIN p : (p[x] = r /\ x = i) \/ (x \in DOMAIN f /\ p[x] = f[x])
  BY <1>0
<1>2. RefsOK(f, S, n) /\ Named(r.session, r.last, S, n) => RefsOK(p, S, n)
  BY <1>1 DEF RefsOK
<1>3. UpdOK(f, S, n) /\ Named(i, r.end, S, n) /\ r.exit \in Nat /\ r.pages \in Nat \ {0}
            => UpdOK(p, S, n)
  BY <1>1 DEF UpdOK
<1> QED BY <1>2, <1>3 DEF p

LEMMA OverRefs ==
  ASSUME NEW f, NEW g, NEW S, NEW n, RefsOK(f, S, n), RefsOK(g, S, n)
  PROVE  RefsOK(Over(f, g), S, n)
<1> DEFINE p == Over(f, g)
<1>0. /\ DOMAIN p = DOMAIN f \cup DOMAIN g
      /\ \A x \in DOMAIN f : p[x] = f[x]
      /\ \A x \in DOMAIN g \ DOMAIN f : p[x] = g[x]
  BY OverIs
<1> HIDE DEF p
<1>1. \A x \in DOMAIN p : (x \in DOMAIN f /\ p[x] = f[x]) \/ (x \in DOMAIN g /\ p[x] = g[x])
  BY <1>0
<1>2. RefsOK(p, S, n)
  BY <1>1 DEF RefsOK
<1> QED BY <1>2 DEF p

\* session_state names sessions that there are.
LEMMA StateRefs ==
  ASSUME NEW S, IsFiniteSet(S), NEW T, S \subseteq T, NEW n,
         \A s \in S : SessionOK(s, n), \A s, q \in T : s.id = q.id => s = q
  PROVE  RefsOK(StateOf(S), T, n)
<1> SUFFICES ASSUME NEW i \in {s.ip : s \in S}
             PROVE  Named(Latest(S, i).id, Latest(S, i).end, T, n)
  BY DEF StateOf, RefsOK
<1>1. Latest(S, i) \in S
  BY LatestIs DEF SessionOK
<1>2. \A s \in T : s.id = Latest(S, i).id => s = Latest(S, i)
  BY <1>1
<1>3. SessionOK(Latest(S, i), n)
  BY <1>1
<1> HIDE DEF Latest
<1> QED BY <1>2, <1>3 DEF Named, SessionOK, SessionSet

\* A step that opens no session and rewrites none.
Keeps ==
  /\ sessions' \subseteq sessions /\ nextSession' = nextSession
  /\ \A u \in Workers :
       /\ tx'[u].new \in {tx[u].new, {}} /\ tx'[u].cache \in {tx[u].cache, <<>>}
       /\ tx'[u].upd \in {tx[u].upd, <<>>}
  /\ RefsOK(sstate', AllSessions, nextSession)

LEMMA KeepsSessions ==
  ASSUME SessInv, Keeps
  PROVE  SessInv'
<1> DEFINE A == AllSessions
           B == AllSessions'
           n == nextSession
<1>1. B \subseteq A /\ nextSession' = n
  BY DEF Keeps, AllSessions
<1>2. \A s \in A : SessionOK(s, n)
  BY DEF SessInv
<1>3. Follows(B, A, n, n)
  BY <1>1, <1>2 DEF Follows, SessionOK, SessionSet, SessInv
<1>4. RefsOK(sstate', B, n)
  BY <1>3, RefsStill DEF Keeps
<1>5. ASSUME NEW w \in Workers PROVE RefsOK(tx'[w].cache, B, n) /\ UpdOK(tx'[w].upd, B, n)
  BY <1>3, RefsStill, NoRefs DEF Keeps, SessInv
<1>6. IsFiniteSet(sessions') /\ \A w \in Workers : IsFiniteSet(tx'[w].new)
  BY FS_Subset, FS_EmptySet DEF Keeps, SessInv
<1>7. /\ \A w \in Workers : sessions' \cap tx'[w].new = {}
      /\ \A w, u \in Workers : w # u => tx'[w].new \cap tx'[u].new = {}
  BY DEF Keeps, SessInv
<1>8. \A s \in B : SessionOK(s, n)
  BY <1>1, <1>2
<1>9. \A s, q \in B : s.id = q.id => s = q
  BY <1>1 DEF SessInv
<1>10. n \in Nat \ {0}
  BY DEF SessInv
<1> QED BY <1>1, <1>4, <1>5, <1>6, <1>7, <1>8, <1>9, <1>10
        DEF SessInv, RefsOK, UpdOK, Named, SessionOK

LEMMA NextNamed ==
  ASSUME RowsInv, VisitsInv, SessInv, NEW w \in Workers, tx[w].visits # <<>>,
         StateOfNext(w).session # 0, NextRow(w).line.ts >= StateOfNext(w).last
  PROVE  Named(StateOfNext(w).session, NextRow(w).line.ts, AllSessions, nextSession)
<1> DEFINE st == StateOfNext(w)
           ts == NextRow(w).line.ts
<1>1. Named(st.session, st.last, AllSessions, nextSession)
  BY DEF StateOfNext, StateFor, NoState, SessInv, RefsOK
<1>2. ts \in Nat
  BY VisitRow
<1>3. \A s \in AllSessions : s.start \in Nat
  BY DEF SessInv, SessionOK, SessionSet
<1>4. ts >= st.last
  OBVIOUS
<1> HIDE DEF st, ts
<1> QED BY <1>1, <1>2, <1>3, <1>4 DEF Named, st, ts

LEMMA OpensSessions ==
  ASSUME Shape, RowsInv, VisitsInv, SessInv, NEW w \in Workers, VisitOpens(w)
  PROVE  SessInv'
<1> DEFINE A == AllSessions
           B == AllSessions'
           n == nextSession
           o == Opened(w)
           r == NextRow(w)
<1>0. /\ Only(w) /\ UNCHANGED <<sessions, sstate>> /\ tx'[w].new = tx[w].new \cup {o}
      /\ tx'[w].cache = Put(tx[w].cache, r.ip, [session |-> n, last |-> r.line.ts])
      /\ tx'[w].upd = tx[w].upd /\ nextSession' = n + 1
  BY VisitFields, OpensFields
<1>1. r.line.ts \in Nat /\ r.ip \in Nat /\ r.url \in Nat
  BY VisitFields, VisitRow
<1>2. n \in Nat \ {0} /\ \A s \in A : SessionOK(s, n)
  BY DEF SessInv
<1>3. SessionOK(o, n + 1) /\ o.id = n /\ o.start = r.line.ts
  BY <1>1, <1>2 DEF Opened, SessionOK, SessionSet
<1> HIDE DEF o, r
<1>4. B = A \cup {o}
  BY <1>0 DEF AllSessions, Only
<1>5. Follows(B, A, n, n + 1)
  BY <1>2, <1>3, <1>4 DEF Follows, SessionOK, SessionSet
<1>6. Named(n, r.line.ts, B, n + 1)
  <2>1. \A s \in A : s.id # n
    BY <1>2 DEF SessionOK, SessionSet
  <2> QED BY <1>1, <1>2, <1>3, <1>4, <2>1 DEF Named
<1>7. RefsOK(sstate', B, n + 1)
  BY <1>0, <1>5, RefsStill DEF SessInv
<1>8. \A u \in Workers : RefsOK(tx[u].cache, B, n + 1) /\ UpdOK(tx[u].upd, B, n + 1)
  BY <1>5, RefsStill DEF SessInv
<1>9. RefsOK(tx'[w].cache, B, n + 1)
  <2> DEFINE p == [session |-> n, last |-> r.line.ts]
  <2>1. p.session = n /\ p.last = r.line.ts
    OBVIOUS
  <2> HIDE DEF p
  <2>2. RefsOK(Put(tx[w].cache, r.ip, p), B, n + 1)
    BY <1>6, <1>8, <2>1, PutRefs
  <2> QED BY <1>0, <2>2 DEF p
<1>10. \A u \in Workers : RefsOK(tx'[u].cache, B, n + 1) /\ UpdOK(tx'[u].upd, B, n + 1)
  BY <1>0, <1>8, <1>9 DEF Only
<1>11. IsFiniteSet(sessions') /\ \A u \in Workers : IsFiniteSet(tx'[u].new)
  <2>1. IsFiniteSet(tx[w].new)
    BY DEF SessInv
  <2>2. IsFiniteSet(tx[w].new \cup {o})
    BY <2>1, FS_AddElement
  <2> QED BY <1>0, <2>2 DEF SessInv, Only
<1>12. \A s \in A : s.id # n /\ s # o
  BY <1>2, <1>3 DEF SessionOK, SessionSet
<1>13. /\ \A u \in Workers : sessions' \cap tx'[u].new = {}
       /\ \A v, u \in Workers : v # u => tx'[v].new \cap tx'[u].new = {}
  <2>1. sessions \subseteq A /\ \A u \in Workers : tx[u].new \subseteq A
    BY DEF AllSessions
  <2>2. \A u \in Workers : sessions' \cap tx'[u].new = {}
    BY <1>0, <1>12, <2>1 DEF SessInv, Only
  <2>3. \A v, u \in Workers : v # u => tx'[v].new \cap tx'[u].new = {}
    BY <1>0, <1>12, <2>1 DEF SessInv, Only
  <2> QED BY <2>2, <2>3
<1>14. \A s \in B : SessionOK(s, n + 1)
  BY <1>2, <1>3, <1>4 DEF SessionOK, SessionSet
<1>15. \A s, q \in B : s.id = q.id => s = q
  BY <1>3, <1>4, <1>12 DEF SessInv
<1>16. nextSession' = n + 1 /\ n + 1 \in Nat \ {0}
  BY <1>0, <1>2
<1> QED BY <1>7, <1>10, <1>11, <1>13, <1>14, <1>15, <1>16
        DEF SessInv, RefsOK, UpdOK, Named, SessionOK

LEMMA ExtendsSessions ==
  ASSUME Shape, RowsInv, VisitsInv, SessInv, NEW w \in Workers, VisitExtends(w)
  PROVE  SessInv'
<1> DEFINE A == AllSessions
           n == nextSession
           r == NextRow(w)
           x == StateOfNext(w).session
           e == Extended(w)
<1>0. /\ Only(w) /\ UNCHANGED <<sessions, sstate>> /\ tx'[w].new = tx[w].new
      /\ tx'[w].cache = Put(tx[w].cache, r.ip, [session |-> x, last |-> r.line.ts])
      /\ tx'[w].upd = Put(tx[w].upd, x, e) /\ nextSession' = n
      /\ tx[w].visits # <<>> /\ x # 0 /\ r.line.ts >= StateOfNext(w).last
  BY VisitFields, ExtendsFields
<1>1. r.line.ts \in Nat /\ r.ip \in Nat /\ r.url \in Nat
  BY <1>0, VisitRow
<1>2. Named(x, r.line.ts, A, n)
  BY <1>0, NextNamed
<1>3. UpdOK(tx[w].upd, A, n) /\ RefsOK(tx[w].cache, A, n)
  BY DEF SessInv
<1>4. e.end = r.line.ts /\ e.exit \in Nat /\ e.pages \in Nat \ {0}
  <2>1. x \in DOMAIN tx[w].upd => tx[w].upd[x].pages \in Nat
    BY <1>3 DEF UpdOK
  <2> HIDE DEF r, x
  <2> QED BY <1>1, <2>1 DEF Extended, r, x
<1> HIDE DEF r, x, e
<1>5. AllSessions' = A
  BY <1>0 DEF AllSessions, Only
<1>6. RefsOK(tx'[w].cache, A, n)
  <2> DEFINE p == [session |-> x, last |-> r.line.ts]
  <2>1. p.session = x /\ p.last = r.line.ts
    OBVIOUS
  <2> HIDE DEF p
  <2>2. RefsOK(Put(tx[w].cache, r.ip, p), A, n)
    BY <1>2, <1>3, <2>1, PutRefs
  <2> QED BY <1>0, <2>2 DEF p
<1>7. UpdOK(tx'[w].upd, A, n)
  <2>1. UpdOK(Put(tx[w].upd, x, e), A, n)
    BY <1>2, <1>3, <1>4, PutRefs
  <2> QED BY <1>0, <2>1
<1>8. \A u \in Workers : RefsOK(tx'[u].cache, A, n) /\ UpdOK(tx'[u].upd, A, n)
  BY <1>0, <1>6, <1>7 DEF Only, SessInv
<1>9. \A u \in Workers : tx'[u].new = tx[u].new
  BY <1>0 DEF Only
<1> QED BY <1>0, <1>5, <1>8, <1>9 DEF SessInv, RefsOK, UpdOK, Named, SessionOK

EndsAt(s, a, b, c) == [s EXCEPT !.end = a, !.exit = b, !.pages = c]
LEMMA EndsAtIs ==
  ASSUME NEW s, NEW n, SessionOK(s, n), NEW a \in Nat, NEW b \in Nat, NEW c \in Nat \ {0},
         s.start <= a
  PROVE  LET q == EndsAt(s, a, b, c) IN
         SessionOK(q, n) /\ q.id = s.id /\ q.ip = s.ip /\ q.start = s.start /\ q.entry = s.entry
BY DEF SessionOK, SessionSet, EndsAt

LEMMA UpdatedIs ==
  ASSUME NEW S, NEW n, NEW s \in S, SessionOK(s, n), NEW upd, UpdOK(upd, S, n)
  PROVE  LET q == Updated(s, upd) IN
         SessionOK(q, n) /\ q.id = s.id /\ q.ip = s.ip /\ q.start = s.start /\ q.entry = s.entry
<1>1. CASE s.id \notin DOMAIN upd
  BY <1>1 DEF Updated
<1>2. CASE s.id \in DOMAIN upd
  <2> DEFINE u == upd[s.id]
             q == [s EXCEPT !.end = u.end, !.exit = u.exit, !.pages = @ + u.pages]
  <2>1. u.end \in Nat /\ u.exit \in Nat /\ u.pages \in Nat \ {0} /\ s.start <= u.end
    BY <1>2 DEF UpdOK, Named
  <2>2. Updated(s, upd) = q
    BY <1>2 DEF Updated
  <2> HIDE DEF u
  <2>3. s.pages + u.pages \in Nat \ {0}
    BY <2>1 DEF SessionOK, SessionSet
  <2>4. q = EndsAt(s, u.end, u.exit, s.pages + u.pages)
    BY DEF EndsAt
  <2> DEFINE m == s.pages + u.pages
  <2> HIDE DEF q, m
  <2>5. SessionOK(q, n) /\ q.id = s.id /\ q.ip = s.ip /\ q.start = s.start /\ q.entry = s.entry
    <3>1. m \in Nat \ {0} /\ q = EndsAt(s, u.end, u.exit, m)
      BY <2>3, <2>4 DEF m
    <3> QED BY <3>1, <2>1, EndsAtIs
  <2> QED BY <2>2, <2>5
<1> QED BY <1>1, <1>2

\* The fields that a commit writes, and the sessions it rewrites, each from one.
Rewrites(w) ==
  /\ Only(w) /\ tx'[w] = Idle
  /\ sessions' = {Updated(s, tx[w].upd) : s \in sessions \cup tx[w].new}
  /\ sstate' = Over(tx[w].cache, sstate) /\ nextSession' = nextSession

LEMMA CommitRewrites ==
  ASSUME Shape, NEW w \in Workers, Commit(w)
  PROVE  Rewrites(w)
BY CommitSteps DEF Commit, Rewrites, UpsertStates

LEMMA CommitOrigins ==
  ASSUME SessInv, NEW w \in Workers, Rewrites(w), NEW s \in AllSessions'
  PROVE  \E q \in AllSessions :
           /\ SessionOK(s, nextSession) /\ s.id = q.id /\ s.start = q.start
           /\ \/ q \in sessions \cup tx[w].new /\ s = Updated(q, tx[w].upd) /\ s \in sessions'
              \/ s = q /\ \E u \in Workers \ {w} : q \in tx[u].new /\ tx'[u].new = tx[u].new
<1>1. CASE s \in sessions'
  <2>1. PICK q \in sessions \cup tx[w].new : s = Updated(q, tx[w].upd)
    BY <1>1 DEF Rewrites
  <2>2. q \in AllSessions /\ SessionOK(q, nextSession) /\ UpdOK(tx[w].upd, AllSessions, nextSession)
    BY DEF AllSessions, SessInv
  <2>3. SessionOK(s, nextSession) /\ s.id = q.id /\ s.start = q.start
    BY <2>1, <2>2, UpdatedIs
  <2> QED BY <1>1, <2>1, <2>2, <2>3
<1>2. CASE s \notin sessions'
  <2>1. PICK u \in Workers : s \in tx'[u].new
    BY <1>2 DEF AllSessions
  <2>2. u # w /\ tx'[u] = tx[u]
    BY <2>1 DEF Rewrites, Only, Idle
  <2>3. s \in AllSessions /\ SessionOK(s, nextSession)
    BY <2>1, <2>2 DEF AllSessions, SessInv
  <2> QED BY <2>1, <2>2, <2>3
<1> QED BY <1>1, <1>2

LEMMA CommitSessions ==
  ASSUME SessInv, NEW w \in Workers, Rewrites(w)
  PROVE  SessInv'
<1> DEFINE A == AllSessions
           B == AllSessions'
           n == nextSession
<1>0. /\ Only(w) /\ tx'[w] = Idle /\ sstate' = Over(tx[w].cache, sstate) /\ nextSession' = n
      /\ n \in Nat \ {0}
  BY DEF Rewrites, SessInv
<1>1. \A s \in B : SessionOK(s, n)
  BY CommitOrigins
<1>2. Follows(B, A, n, n)
  <2>1. \A s \in B : s.id \in Nat /\ \E q \in A : q.id = s.id /\ q.start = s.start
    <3> TAKE s \in B
    <3>1. PICK q \in A : SessionOK(s, n) /\ s.id = q.id /\ s.start = q.start
      BY CommitOrigins
    <3> QED BY <3>1 DEF SessionOK, SessionSet
  <2> QED BY <1>0, <2>1 DEF Follows
<1>3. \A s, q \in B : s.id = q.id => s = q
  <2> SUFFICES ASSUME NEW s \in B, NEW q \in B, s.id = q.id PROVE s = q
    OBVIOUS
  <2>1. PICK a \in A : /\ s.id = a.id
                       /\ \/ a \in sessions \cup tx[w].new /\ s = Updated(a, tx[w].upd)
                          \/ s = a /\ \E u \in Workers \ {w} : a \in tx[u].new
    BY CommitOrigins
  <2>2. PICK b \in A : /\ q.id = b.id
                       /\ \/ b \in sessions \cup tx[w].new /\ q = Updated(b, tx[w].upd)
                          \/ q = b /\ \E u \in Workers \ {w} : b \in tx[u].new
    BY CommitOrigins
  <2>3. a = b
    BY <2>1, <2>2 DEF SessInv
  <2>4. \A u \in Workers \ {w} : (sessions \cup tx[w].new) \cap tx[u].new = {}
    BY DEF SessInv
  <2> QED BY <2>1, <2>2, <2>3, <2>4
<1>4. RefsOK(sstate', B, n)
  <2>1. RefsOK(tx[w].cache, B, n) /\ RefsOK(sstate, B, n)
    BY <1>2, RefsStill DEF SessInv
  <2> QED BY <1>0, <2>1, OverRefs
<1>5. \A u \in Workers : RefsOK(tx'[u].cache, B, n) /\ UpdOK(tx'[u].upd, B, n)
  <2>1. ASSUME NEW u \in Workers \ {w} PROVE RefsOK(tx'[u].cache, B, n) /\ UpdOK(tx'[u].upd, B, n)
    <3>1. tx'[u] = tx[u]
      BY <1>0 DEF Only
    <3> QED BY <1>2, <3>1, RefsStill DEF SessInv
  <2>2. RefsOK(tx'[w].cache, B, n) /\ UpdOK(tx'[w].upd, B, n)
    BY <1>0, NoRefs DEF Idle
  <2> QED BY <2>1, <2>2
<1>6. IsFiniteSet(sessions')
  <2> DEFINE D == sessions \cup tx[w].new
             f == [s \in D |-> Updated(s, tx[w].upd)]
  <2>1. sessions' = {f[s] : s \in D}
    BY DEF Rewrites
  <2>2. IsFiniteSet(D)
    BY FS_Union DEF SessInv
  <2> HIDE DEF D, f
  <2> QED BY <2>1, <2>2, ImageFinite
<1>8. tx'[w].new = {} /\ \A u \in Workers \ {w} : tx'[u].new = tx[u].new
  BY <1>0 DEF Only, Idle
<1>7. \A u \in Workers : tx'[u].new \in {tx[u].new, {}} /\ IsFiniteSet(tx'[u].new)
  BY <1>8, FS_EmptySet DEF SessInv
<1>9. \A u \in Workers : sessions' \cap tx'[u].new = {}
  <2> SUFFICES ASSUME NEW u \in Workers, NEW s \in sessions', s \in tx'[u].new PROVE FALSE
    OBVIOUS
  <2>1. u # w /\ s \in tx[u].new /\ s \in A
    BY <1>8 DEF AllSessions
  <2>2. PICK q \in sessions \cup tx[w].new : s = Updated(q, tx[w].upd)
    BY DEF Rewrites
  <2>3. q \in A /\ SessionOK(q, n) /\ UpdOK(tx[w].upd, A, n)
    BY DEF AllSessions, SessInv
  <2>4. s.id = q.id
    BY <2>2, <2>3, UpdatedIs
  <2>5. s = q
    BY <2>1, <2>3, <2>4 DEF SessInv
  <2> QED BY <2>1, <2>2, <2>5 DEF SessInv
<1>10. \A v, u \in Workers : v # u => tx'[v].new \cap tx'[u].new = {}
  BY <1>7 DEF SessInv
<1> QED BY <1>0, <1>1, <1>3, <1>4, <1>5, <1>6, <1>7, <1>9, <1>10
        DEF SessInv, RefsOK, UpdOK, Named, SessionOK

\* A rebuild opens new sessions; what the transactions name is gone or older.
NewSession(q, i) ==
  [ip |-> q.ip, start |-> q.start, end |-> q.end, entry |-> q.entry, exit |-> q.exit,
   pages |-> q.pages, id |-> i]
LEMMA Resessions ==
  ASSUME RowsInv, SessInv, Resession, tx' = tx
  PROVE  /\ \A s \in sessions' : SessionOK(s, nextSession') /\ s.id >= nextSession
         /\ \A s, q \in sessions' : s.id = q.id => s = q
         /\ IsFiniteSet(sessions') /\ sstate' = StateOf(sessions')
         /\ nextSession' \in Nat \ {0} /\ nextSession <= nextSession'
<1> DEFINE Q == SessionsOf(rows)
           order == SetToSeq(Q)
           n == nextSession
           new(k) == NewSession(order[k], n + k - 1)
<1>1. IsFiniteSet(Q)
      /\ \A s \in Q : s \in [ip : Nat, start : Nat, end : Nat, entry : Nat, exit : Nat,
                             pages : Nat \ {0}] /\ s.start <= s.end
  BY SessionsOfRows DEF RowsInv, AllRows
<1>2. order \in Seq(Q) /\ n \in Nat \ {0}
  BY <1>1, Numbered DEF SessInv
<1>3. /\ sessions' = {new(k) : k \in DOMAIN order} /\ nextSession' = n + Len(order)
      /\ sstate' = StateOf(sessions')
  BY DEF Resession, SetSessions, NewSession
<1> HIDE DEF order, Q
<1>4. ASSUME NEW k \in DOMAIN order
      PROVE  SessionOK(new(k), n + Len(order)) /\ new(k).id = n + k - 1 /\ k \in Nat
  <2>1. order[k] \in Q /\ k \in 1..Len(order) /\ Len(order) \in Nat
    BY <1>2
  <2>2. n + k - 1 \in Nat \ {0} /\ n + k - 1 < n + Len(order)
    BY <1>2, <2>1
  <2> DEFINE i == n + k - 1
  <2> HIDE DEF i
  <2>3. \A q \in [ip : Nat, start : Nat, end : Nat, entry : Nat, exit : Nat, pages : Nat \ {0}] :
          q.start <= q.end /\ i \in Nat \ {0} /\ i < n + Len(order) =>
            SessionOK(NewSession(q, i), n + Len(order)) /\ NewSession(q, i).id = i
    BY DEF SessionOK, SessionSet, NewSession
  <2> QED BY <1>1, <2>1, <2>2, <2>3 DEF i
<1>5. IsFiniteSet(sessions')
  <2>1. IsFiniteSet(DOMAIN order)
    <3>1. DOMAIN order = 1..Len(order) /\ 1 \in Int /\ Len(order) \in Int
      BY <1>2
    <3> QED BY <3>1, FS_Interval
  <2> DEFINE f == [k \in DOMAIN order |-> new(k)]
  <2>2. sessions' = {f[k] : k \in DOMAIN order}
    BY <1>3
  <2> HIDE DEF f
  <2> QED BY <2>1, <2>2, ImageFinite
<1>6. Len(order) \in Nat
  BY <1>2
<1> HIDE DEF new
<1>7. \A s \in sessions' : SessionOK(s, nextSession') /\ s.id >= n
  <2> TAKE s \in sessions'
  <2>1. PICK k \in DOMAIN order : s = new(k)
    BY <1>3
  <2>2. k \in Nat \ {0}
    BY <1>2
  <2> QED BY <1>2, <1>3, <1>4, <2>1, <2>2
<1>8. \A s, q \in sessions' : s.id = q.id => s = q
  <2> SUFFICES ASSUME NEW s \in sessions', NEW q \in sessions', s.id = q.id PROVE s = q
    OBVIOUS
  <2>1. PICK k \in DOMAIN order : s = new(k)
    BY <1>3
  <2>2. PICK j \in DOMAIN order : q = new(j)
    BY <1>3
  <2>3. j \in Nat /\ k \in Nat /\ n + k - 1 = n + j - 1
    BY <1>4, <2>1, <2>2
  <2>4. j = k
    BY <2>3, <1>2
  <2> QED BY <2>1, <2>2, <2>4
<1> QED BY <1>2, <1>3, <1>5, <1>6, <1>7, <1>8

LEMMA ResessionSessions ==
  ASSUME RowsInv, SessInv, Resession, tx' = tx
  PROVE  SessInv'
<1> DEFINE A == AllSessions
           B == AllSessions'
           n == nextSession
           m == nextSession'
<1>1. /\ \A s \in sessions' : SessionOK(s, m) /\ s.id >= n
      /\ \A s, q \in sessions' : s.id = q.id => s = q
      /\ IsFiniteSet(sessions') /\ sstate' = StateOf(sessions')
      /\ m \in Nat \ {0} /\ n <= m /\ n \in Nat
  BY Resessions DEF SessInv
<1>2. \A u \in Workers : \A s \in tx[u].new : s \in A /\ SessionOK(s, n) /\ s.id < n
  BY DEF AllSessions, SessInv, SessionOK
<1>3. B = sessions' \cup UNION {tx[u].new : u \in Workers}
  BY DEF AllSessions
<1> HIDE DEF B, A
<1>4. \A s \in B : SessionOK(s, m)
  <2>1. \A s : SessionOK(s, n) => SessionOK(s, m)
    BY <1>1 DEF SessionOK, SessionSet
  <2> QED BY <1>1, <1>2, <1>3, <2>1
<1>5. \A s, q \in B : s.id = q.id => s = q
  <2>1. \A s \in sessions', u \in Workers : \A q \in tx[u].new : s.id # q.id
    <3> TAKE s \in sessions', u \in Workers
    <3> TAKE q \in tx[u].new
    <3>1. s.id >= n /\ q.id < n /\ s.id \in Nat /\ q.id \in Nat
      BY <1>1, <1>2 DEF SessionOK, SessionSet
    <3> QED BY <3>1, <1>1
  <2>2. \A u, v \in Workers : \A s \in tx[u].new, q \in tx[v].new : s.id = q.id => s = q
    BY <1>2 DEF SessInv, A
  <2> QED BY <1>1, <1>3, <2>1, <2>2
<1>6. Follows(B, A, n, m)
  <2>1. \A s \in B : s.id \in Nat /\ (s.id >= n \/ \E q \in A : q.id = s.id /\ q.start = s.start)
    BY <1>1, <1>2, <1>3, <1>4 DEF SessionOK, SessionSet
  <2> QED BY <1>1, <2>1 DEF Follows
<1>7. \A u \in Workers : RefsOK(tx'[u].cache, B, m) /\ UpdOK(tx'[u].upd, B, m)
  BY <1>6, RefsStill DEF SessInv, A
<1>8. RefsOK(sstate', B, m)
  <2>1. sessions' \subseteq B
    BY <1>3
  <2> QED BY <1>1, <1>5, <2>1, StateRefs
<1>9. \A u \in Workers : IsFiniteSet(tx'[u].new) /\ sessions' \cap tx'[u].new = {}
  <2>1. \A u \in Workers : sessions' \cap tx[u].new = {}
    <3> SUFFICES ASSUME NEW u \in Workers, NEW s \in sessions', s \in tx[u].new PROVE FALSE
      OBVIOUS
    <3>1. s.id >= n /\ s.id < n /\ s.id \in Nat
      BY <1>1, <1>2 DEF SessionOK, SessionSet
    <3> QED BY <3>1, <1>1
  <2> QED BY <2>1 DEF SessInv
<1>10. \A v, u \in Workers : v # u => tx'[v].new \cap tx'[u].new = {}
  BY DEF SessInv
<1> QED BY <1>1, <1>4, <1>5, <1>7, <1>8, <1>9, <1>10
        DEF SessInv, RefsOK, UpdOK, Named, SessionOK, B

\* What the statements of the jobs do to the session table and to session_state.
LEMMA SessionStatements ==
  ASSUME Statement, tx' = tx, SessInv
  PROVE  Keeps \/ Resession
<1> USE DEF Keeps
<1>1. UNCHANGED <<sessions, sstate, nextSession>> => Keeps
  BY DEF SessInv
<1>2. CASE \/ DeleteOldRows \/ DeleteRows \/ DeleteRange \/ DeleteOrphans \/ ClearDims \/ Migrate
  BY <1>1, <1>2 DEF DeleteOldRows, DeleteRows, DeleteRange, DeleteOrphans, ClearDims, Migrate,
     RemoveRows, RemoveIds, visitTables
<1>3. CASE \/ DeleteOldBuckets \/ RebuildHour \/ RebuildDay
           \/ BackfillAggregates \/ AggregatesIfEmpty \/ ClearAggregates
  BY <1>1, <1>3 DEF DeleteOldBuckets, RebuildHour, RebuildDay, BackfillAggregates,
     AggregatesIfEmpty, ClearAggregates, Recount, SetCounts, visitTables
<1>4. CASE BackfillFirstSeen \/ FirstSeenIfEmpty \/ ClearFirstSeen
  BY <1>1, <1>4 DEF BackfillFirstSeen, FirstSeenIfEmpty, ClearFirstSeen, SetFirstSeen, visitTables
<1>5. CASE DeleteOldSessions \/ ClearSessions
  <2>1. sessions' \subseteq sessions /\ sstate' = sstate /\ nextSession' = nextSession
    BY <1>5 DEF DeleteOldSessions, ClearSessions, SetSessions
  <2> QED BY <2>1 DEF SessInv
<1>6. CASE DeleteState \/ ClearState
  <2>1. sessions' = sessions /\ sstate' = <<>> /\ nextSession' = nextSession
    BY <1>6 DEF DeleteState, ClearState, SetSessions
  <2> QED BY <2>1, NoRefs
<1>7. CASE InsertState
  <2>1. sessions' = sessions /\ sstate' = Over(StateOf(sessions), sstate) /\ nextSession' = nextSession
    BY <1>7 DEF InsertState, SetSessions
  <2>2. RefsOK(StateOf(sessions), AllSessions, nextSession)
    <3> DEFINE A == AllSessions
               n == nextSession
    <3>1. sessions \subseteq A
      BY DEF AllSessions
    <3>2. /\ IsFiniteSet(sessions) /\ \A s \in A : SessionOK(s, n)
          /\ \A s, q \in A : s.id = q.id => s = q
      BY DEF SessInv
    <3> HIDE DEF A
    <3>3. RefsOK(StateOf(sessions), A, n)
      BY <3>1, <3>2, StateRefs
    <3> QED BY <3>3 DEF A
  <2>3. RefsOK(sstate, AllSessions, nextSession)
    BY DEF SessInv
  <2>4. RefsOK(sstate', AllSessions, nextSession)
    BY <2>1, <2>2, <2>3, OverRefs
  <2> QED BY <2>1, <2>4
<1>8. CASE BackfillSessions \/ SessionsIfEmpty
  BY <1>1, <1>8 DEF BackfillSessions, SessionsIfEmpty, visitTables
<1>9. CASE DeleteOldSessionDays \/ RebuildSessionDay \/ BackfillSessionAggs \/ SessionAggsIfEmpty
           \/ ClearSessionAggs
  BY <1>1, <1>9 DEF DeleteOldSessionDays, RebuildSessionDay, BackfillSessionAggs,
     SessionAggsIfEmpty, ClearSessionAggs, RecountSessions, SetSessionAggs, visitTables
<1> QED BY <1>2, <1>3, <1>4, <1>5, <1>6, <1>7, <1>8, <1>9 DEF Statement

\* A worker that opens and extends nothing.
LEMMA PlainKeeps ==
  ASSUME Shape, SessInv, NEW w \in Workers,
         Begin(w) \/ DeadlockVictim(w) \/ Fail(w) \/ GetOrCreateDimID(w)
         \/ BulkInsertLogRows(w) \/ NoVisit(w)
  PROVE  Keeps
<1>1. /\ Only(w) /\ UNCHANGED <<sessions, sstate, nextSession>>
      /\ \/ tx'[w].new = tx[w].new /\ tx'[w].cache = tx[w].cache /\ tx'[w].upd = tx[w].upd
         \/ tx'[w].new = {} /\ tx'[w].cache = <<>> /\ tx'[w].upd = <<>>
  <2>1. CASE Begin(w) \/ DeadlockVictim(w) \/ Fail(w)
    BY <2>1, BlankSteps DEF Blank
  <2>2. CASE GetOrCreateDimID(w)
    BY <2>2, DimFields
  <2>3. CASE BulkInsertLogRows(w)
    BY <2>3, InsertFields
  <2>4. CASE NoVisit(w)
    BY <2>4, VisitFields, NoVisitFields
  <2> QED BY <2>1, <2>2, <2>3, <2>4
<1> QED BY <1>1 DEF Keeps, Only, SessInv

LEMMA SessStep ==
  ASSUME IdsInv, RowsInv, VisitsInv, SessInv, [Next]_vars
  PROVE  SessInv'
<1>0. Shape
  BY DEF IdsInv
<1>1. ASSUME NEW w \in Workers, Begin(w) \/ Work(w) \/ Fail(w) PROVE SessInv'
  <2>1. CASE Begin(w) \/ DeadlockVictim(w) \/ Fail(w) \/ GetOrCreateDimID(w)
             \/ BulkInsertLogRows(w) \/ NoVisit(w)
    BY <1>0, <2>1, PlainKeeps, KeepsSessions
  <2>2. CASE VisitOpens(w)
    BY <1>0, <2>2, OpensSessions
  <2>3. CASE VisitExtends(w)
    BY <1>0, <2>3, ExtendsSessions
  <2>4. CASE Commit(w)
    BY <1>0, <2>4, CommitRewrites, CommitSessions
  <2> QED BY <1>1, <2>1, <2>2, <2>3, <2>4 DEF Work
<1>2. CASE Statement
  <2>1. tx' = tx
    BY <1>0, <1>2, StatementSteps, MigrateSteps DEF Shape, Deletes, Removes
  <2> QED BY <1>2, <2>1, SessionStatements, KeepsSessions, ResessionSessions
<1>3. CASE Crash
  <2>1. UNCHANGED <<sessions, sstate, nextSession>>
        /\ \A w \in Workers : tx'[w].new = {} /\ tx'[w].cache = <<>> /\ tx'[w].upd = <<>>
    BY <1>3 DEF Crash, Idle, visitTables
  <2>2. Keeps
    BY <2>1 DEF Keeps, SessInv
  <2> QED BY <2>2, KeepsSessions
<1>4. CASE (\E k \in {"clean", "clear", "rebuild"} : BeginJob(k)) \/ StatementFails \/ UNCHANGED vars
  <2>1. UNCHANGED <<sessions, sstate, nextSession, tx>>
    BY <1>4 DEF BeginJob, StatementFails, vars, visitTables
  <2>2. Keeps
    BY <2>1 DEF Keeps, SessInv
  <2> QED BY <2>2, KeepsSessions
<1> QED BY <1>1, <1>2, <1>3, <1>4 DEF Next

LEMMA InitSess == Init => SessInv /\ VisitsInv
<1> SUFFICES ASSUME Init PROVE SessInv /\ VisitsInv
  OBVIOUS
<1>1. /\ sessions = {} /\ sstate = <<>> /\ nextSession = 1
      /\ \A w \in Workers : tx[w].new = {} /\ tx[w].cache = <<>> /\ tx[w].upd = <<>>
                            /\ tx[w].visits = <<>> /\ tx[w].mine = {}
  BY DEF Init, Idle
<1>2. AllSessions = {}
  BY <1>1 DEF AllSessions
<1>5. /\ RefsOK(sstate, AllSessions, nextSession)
      /\ \A w \in Workers : /\ RefsOK(tx[w].cache, AllSessions, nextSession)
                            /\ UpdOK(tx[w].upd, AllSessions, nextSession)
  BY <1>1, NoRefs
<1>6. IsFiniteSet(sessions) /\ \A w \in Workers : IsFiniteSet(tx[w].new)
  BY <1>1, FS_EmptySet
<1>3. SessInv
  BY <1>1, <1>2, <1>5, <1>6 DEF SessInv
<1>4. <<>> \in Seq({})
  OBVIOUS
<1> QED BY <1>1, <1>3, <1>4 DEF VisitsInv

----------------------------
(* THE COUNTERS OF SESSIONS *)

Key(s) == <<DayOf(s.start), s.entry>>
WithKey(S, k) == {s \in S : k = Key(s)}
OnDay(S, d) == {s \in S : DayOf(s.start) = d}

LEMMA EntriesAre ==
  ASSUME NEW S
  PROVE  /\ DOMAIN Entries(S) = {Key(s) : s \in S}
         /\ \A k \in DOMAIN Entries(S) : Entries(S)[k] = Cardinality(WithKey(S, k))
         /\ Entries(S) = [k \in {Key(s) : s \in S} |-> Cardinality(WithKey(S, k))]
BY DEF Entries, Key, WithKey

LEMMA NoKey ==
  ASSUME NEW S, NEW k, k \notin DOMAIN Entries(S)
  PROVE  WithKey(S, k) = {}
<1>1. DOMAIN Entries(S) = {Key(s) : s \in S}
  BY EntriesAre
<1> QED BY <1>1 DEF WithKey

LEMMA SessionsOnIs == \A S, d : SessionsOn(S, d) = Cardinality(OnDay(S, d))
BY DEF SessionsOn, OnDay

\* The counters of a day say nothing of the sessions of other days.
LEMMA SameDay ==
  ASSUME NEW S, NEW T, NEW d, OnDay(S, d) = OnDay(T, d)
  PROVE  /\ SessionsOn(S, d) = SessionsOn(T, d)
         /\ EntriesWhere(Entries(S), {d}) = EntriesWhere(Entries(T), {d})
<1> DEFINE K(X) == {j \in {Key(s) : s \in X} : j[1] \in {d}}
<1>1. \A X : EntriesWhere(Entries(X), {d}) = [k \in K(X) |-> Cardinality(WithKey(X, k))]
  BY EntriesAre DEF EntriesWhere
<1>2. \A X : K(X) = {Key(s) : s \in OnDay(X, d)}
  BY DEF OnDay, Key
<1>3. \A k \in K(S) : WithKey(S, k) = WithKey(T, k)
  BY DEF OnDay, WithKey, Key
<1>4. K(S) = K(T)
  BY <1>2
<1> HIDE DEF K
<1> QED BY <1>1, <1>3, <1>4, SessionsOnIs

\* The sessions of a commit are those before and those it opened, each with its
\* day and its entry page.
Stays(f, D) == \A x \in D : f[x].start = x.start /\ f[x].entry = x.entry
LEMMA SessionsMoved ==
  ASSUME NEW D, IsFiniteSet(D), NEW f, Apart(f, D),
         Stays(f, D), NEW E, E = {f[x] : x \in D}
  PROVE  /\ \A d : SessionsOn(E, d) = SessionsOn(D, d)
         /\ Entries(E) = Entries(D)
<1>1. ASSUME NEW d PROVE SessionsOn(E, d) = SessionsOn(D, d)
  <2> DEFINE C == OnDay(D, d)
  <2>1. OnDay(E, d) = {f[x] : x \in C}
    BY DEF OnDay, Stays
  <2>2. IsFiniteSet(C) /\ Apart(f, C)
    BY FS_Subset DEF OnDay, Apart
  <2> HIDE DEF C
  <2>3. Cardinality({f[x] : x \in C}) = Cardinality(C)
    BY <2>2, SameSize
  <2> QED BY <2>1, <2>3, SessionsOnIs DEF C
<1>2. ASSUME NEW k PROVE Cardinality(WithKey(E, k)) = Cardinality(WithKey(D, k))
  <2> DEFINE C == WithKey(D, k)
  <2>1. WithKey(E, k) = {f[x] : x \in C}
    BY DEF WithKey, Key, Stays
  <2>2. IsFiniteSet(C) /\ Apart(f, C)
    BY FS_Subset DEF WithKey, Apart
  <2> HIDE DEF C
  <2>3. Cardinality({f[x] : x \in C}) = Cardinality(C)
    BY <2>2, SameSize
  <2> QED BY <2>1, <2>3 DEF C
<1>3. {Key(s) : s \in E} = {Key(s) : s \in D}
  BY DEF Key, Stays
<1>5. Entries(E) = [k \in {Key(s) : s \in E} |-> Cardinality(WithKey(E, k))]
  BY EntriesAre
<1>6. Entries(D) = [k \in {Key(s) : s \in D} |-> Cardinality(WithKey(D, k))]
  BY EntriesAre
<1>4. Entries(E) = Entries(D)
  BY <1>2, <1>3, <1>5, <1>6
<1> QED BY <1>1, <1>4

LEMMA SessionsUnion ==
  ASSUME NEW S, NEW T, IsFiniteSet(S), IsFiniteSet(T), S \cap T = {}
  PROVE  /\ \A d : SessionsOn(S \cup T, d) = SessionsOn(S, d) + SessionsOn(T, d)
         /\ Entries(S \cup T) = AddEntries(Entries(S), Entries(T))
<1>0. ASSUME NEW A, NEW B, A \in SUBSET S, B \in SUBSET T
      PROVE  /\ Cardinality(A \cup B) = Cardinality(A) + Cardinality(B)
             /\ Cardinality(A) \in Nat /\ Cardinality(B) \in Nat
             /\ (A = {} => Cardinality(A) = 0) /\ (B = {} => Cardinality(B) = 0)
  <2>1. IsFiniteSet(A) /\ IsFiniteSet(B) /\ A \cap B = {}
    BY <1>0, FS_Subset
  <2>2. Cardinality(A \cap B) = 0
    BY <2>1, FS_EmptySet
  <2>3. Cardinality(A \cup B) = Cardinality(A) + Cardinality(B) - Cardinality(A \cap B)
    BY <2>1, FS_Union
  <2>4. Cardinality(A) \in Nat /\ Cardinality(B) \in Nat
    BY <2>1, FS_CardinalityType
  <2>5. Cardinality({}) = 0
    BY FS_EmptySet
  <2>6. Cardinality(A) + Cardinality(B) - 0 = Cardinality(A) + Cardinality(B)
    BY <2>4
  <2> QED BY <2>2, <2>3, <2>4, <2>5, <2>6
<1>1. ASSUME NEW d PROVE SessionsOn(S \cup T, d) = SessionsOn(S, d) + SessionsOn(T, d)
  <2>1. OnDay(S \cup T, d) = OnDay(S, d) \cup OnDay(T, d)
        /\ OnDay(S, d) \in SUBSET S /\ OnDay(T, d) \in SUBSET T
    BY DEF OnDay
  <2> QED BY <1>0, <2>1, SessionsOnIs
<1> DEFINE f == Entries(S)
           g == Entries(T)
           a(k) == IF k \in DOMAIN f THEN f[k] ELSE 0
           b(k) == IF k \in DOMAIN g THEN g[k] ELSE 0
<1>2. ASSUME NEW k
      PROVE  a(k) + b(k) = Cardinality(WithKey(S \cup T, k))
  <2>1. /\ WithKey(S \cup T, k) = WithKey(S, k) \cup WithKey(T, k)
        /\ WithKey(S, k) \in SUBSET S /\ WithKey(T, k) \in SUBSET T
    BY DEF WithKey
  <2>2. /\ k \notin DOMAIN f => WithKey(S, k) = {}
        /\ k \notin DOMAIN g => WithKey(T, k) = {}
    BY NoKey
  <2>3. /\ k \in DOMAIN f => f[k] = Cardinality(WithKey(S, k))
        /\ k \in DOMAIN g => g[k] = Cardinality(WithKey(T, k))
    BY EntriesAre
  <2> HIDE DEF f, g
  <2>4. a(k) = Cardinality(WithKey(S, k)) /\ b(k) = Cardinality(WithKey(T, k))
    BY <1>0, <2>1, <2>2, <2>3
  <2> HIDE DEF a, b
  <2>5. Cardinality(WithKey(S, k) \cup WithKey(T, k))
        = Cardinality(WithKey(S, k)) + Cardinality(WithKey(T, k))
    BY <1>0, <2>1
  <2> QED BY <2>1, <2>4, <2>5
<1>3. DOMAIN f \cup DOMAIN g = {Key(s) : s \in S \cup T}
  <2>1. DOMAIN Entries(S) = {Key(s) : s \in S}
    BY EntriesAre
  <2>2. DOMAIN Entries(T) = {Key(s) : s \in T}
    BY EntriesAre
  <2> QED BY <2>1, <2>2
<1>4. AddEntries(f, g) = [k \in DOMAIN f \cup DOMAIN g |-> a(k) + b(k)]
  BY DEF AddEntries
<1>5. Entries(S \cup T) = [k \in {Key(s) : s \in S \cup T} |-> Cardinality(WithKey(S \cup T, k))]
  BY EntriesAre
<1> HIDE DEF f, g, a, b
<1>6. AddEntries(f, g) = Entries(S \cup T)
  BY <1>2, <1>3, <1>4, <1>5
<1> QED BY <1>1, <1>6 DEF f, g

\* Adding counters of entry pages adds those of every day.
LEMMA AddedWhere ==
  ASSUME NEW f, NEW g, NEW K
  PROVE  EntriesWhere(AddEntries(f, g), K) = AddEntries(EntriesWhere(f, K), EntriesWhere(g, K))
BY DEF EntriesWhere, AddEntries

LEMMA WhereTwice ==
  ASSUME NEW f, NEW K, NEW d
  PROVE  /\ d \in K => EntriesWhere(EntriesWhere(f, K), {d}) = EntriesWhere(f, {d})
         /\ d \notin K => EntriesWhere(EntriesWhere(f, K), {d}) = [k \in {} |-> 0]
BY DEF EntriesWhere

LEMMA AddNone ==
  ASSUME NEW f, f = [k \in DOMAIN f |-> f[k]], \A k \in DOMAIN f : f[k] \in Nat
  PROVE  AddEntries(f, [k \in {} |-> 0]) = f /\ AddEntries([k \in {} |-> 0], f) = f
<1>1. \A n \in Nat : n + 0 = n /\ 0 + n = n
  OBVIOUS
<1>2. AddEntries(f, [k \in {} |-> 0]) = [k \in DOMAIN f |-> f[k] + 0]
  BY DEF AddEntries
<1>3. AddEntries([k \in {} |-> 0], f) = [k \in DOMAIN f |-> 0 + f[k]]
  BY DEF AddEntries
<1> QED BY <1>1, <1>2, <1>3

LEMMA EntryCounts ==
  ASSUME NEW S, IsFiniteSet(S), NEW K
  PROVE  LET f == EntriesWhere(Entries(S), K) IN
         f = [k \in DOMAIN f |-> f[k]] /\ \A k \in DOMAIN f : f[k] \in Nat
<1> DEFINE f == EntriesWhere(Entries(S), K)
<1>1. f = [k \in DOMAIN f |-> f[k]] /\ DOMAIN f \subseteq DOMAIN Entries(S)
      /\ \A k \in DOMAIN f : f[k] = Entries(S)[k]
  BY DEF EntriesWhere
<1>2. \A k : Cardinality(WithKey(S, k)) \in Nat
  BY FS_Subset, FS_CardinalityType DEF WithKey
<1>3. \A k \in DOMAIN Entries(S) : Entries(S)[k] = Cardinality(WithKey(S, k))
  BY EntriesAre
<1> HIDE DEF f
<1>4. \A k \in DOMAIN f : f[k] \in Nat
  BY <1>1, <1>2, <1>3
<1> QED BY <1>1, <1>4 DEF f

\* A step that leaves the sessions of every day that is counted afterwards.
LEMMA SameCounts ==
  ASSUME SessionCountsExact,
         UNCHANGED <<sessDays, entryDays>>, "sessions" \in lag => "sessions" \in lag',
         \A d \in Days : Live(d, DayOf(Cutoff), "sessCut")' =>
           Live(d, DayOf(Cutoff), "sessCut") /\ OnDay(sessions, d) = OnDay(sessions', d)
  PROVE  SessionCountsExact'
<1> SUFFICES ASSUME "sessions" \notin lag', NEW d \in Days, Live(d, DayOf(Cutoff), "sessCut")'
             PROVE  /\ sessDays[d] = SessionsOn(sessions', d)
                    /\ EntriesWhere(entryDays, {d}) = EntriesWhere(Entries(sessions'), {d})
  BY DEF SessionCountsExact
<1>1. Live(d, DayOf(Cutoff), "sessCut") /\ OnDay(sessions, d) = OnDay(sessions', d)
  OBVIOUS
<1>2. /\ sessDays[d] = SessionsOn(sessions, d)
      /\ EntriesWhere(entryDays, {d}) = EntriesWhere(Entries(sessions), {d})
  BY <1>1 DEF SessionCountsExact
<1> QED BY <1>1, <1>2, SameDay

LEMMA SessionCountsKept ==
  ASSUME SessionCountsExact, UNCHANGED <<sessions, sessDays, entryDays>>,
         {"sessions", "sessCut"} \cap lag \subseteq lag'
  PROVE  SessionCountsExact'
<1>1. "sessions" \in lag => "sessions" \in lag'
  OBVIOUS
<1>2. \A d : Live(d, DayOf(Cutoff), "sessCut")' => Live(d, DayOf(Cutoff), "sessCut")
  BY DEF Live
<1> QED BY <1>1, <1>2, SameCounts

LEMMA CommitSessionCounts ==
  ASSUME SessInv, SessionCountsExact, NEW w \in Workers, Commit(w), Rewrites(w)
  PROVE  SessionCountsExact'
<1> DEFINE N == tx[w].new
           D == sessions \cup N
           f == [s \in D |-> Updated(s, tx[w].upd)]
           E == sessions'
<1>1. /\ IsFiniteSet(sessions) /\ IsFiniteSet(N) /\ sessions \cap N = {} /\ IsFiniteSet(D)
  BY FS_Union DEF SessInv
<1>2. E = {f[s] : s \in D}
  BY DEF Rewrites
<1>3. \A s \in D : f[s].id = s.id /\ f[s].start = s.start /\ f[s].entry = s.entry
  <2> TAKE s \in D
  <2>3. s \in AllSessions
    BY DEF AllSessions
  <2>4. UpdOK(tx[w].upd, AllSessions, nextSession)
    BY DEF SessInv
  <2>1. s \in AllSessions /\ SessionOK(s, nextSession)
        /\ UpdOK(tx[w].upd, AllSessions, nextSession)
    BY <2>3, <2>4 DEF SessInv
  <2>2. Updated(s, tx[w].upd).id = s.id /\ Updated(s, tx[w].upd).start = s.start
        /\ Updated(s, tx[w].upd).entry = s.entry
    BY <2>1, UpdatedIs
  <2> QED BY <2>2
<1>4. Apart(f, D)
  <2>1. D \subseteq AllSessions
    BY DEF AllSessions
  <2>2. \A s, q \in D : s.id = q.id => s = q
    BY <2>1 DEF SessInv
  <2> HIDE DEF f, D
  <2> QED BY <1>3, <2>2 DEF Apart
<1>5. (\A d : SessionsOn(E, d) = SessionsOn(D, d)) /\ Entries(E) = Entries(D)
  <2> HIDE DEF f, D, E
  <2>1. IsFiniteSet(D) /\ Apart(f, D) /\ E = {f[x] : x \in D}
        /\ Stays(f, D)
    BY <1>1, <1>2, <1>3, <1>4 DEF Stays
  <2> QED BY ONLY <2>1, SessionsMoved
<1>6. /\ \A d : SessionsOn(D, d) = SessionsOn(sessions, d) + SessionsOn(N, d)
      /\ Entries(D) = AddEntries(Entries(sessions), Entries(N))
  <2> HIDE DEF N
  <2> QED BY <1>1, SessionsUnion
<1>7. /\ sessDays' = [d \in Days |-> sessDays[d] + SessionsOn(N, d)]
      /\ entryDays' = AddEntries(entryDays, Entries(N)) /\ lag' = lag
  BY DEF Commit, AddSessions
<1> HIDE DEF N, D, f, E
<1> SUFFICES ASSUME "sessions" \notin lag', NEW d \in Days, Live(d, DayOf(Cutoff), "sessCut")'
             PROVE  /\ sessDays'[d] = SessionsOn(E, d)
                    /\ EntriesWhere(entryDays', {d}) = EntriesWhere(Entries(E), {d})
  BY DEF SessionCountsExact, E
<1>8. Live(d, DayOf(Cutoff), "sessCut") /\ "sessions" \notin lag
  BY <1>7 DEF Live
<1>9. /\ sessDays[d] = SessionsOn(sessions, d)
      /\ EntriesWhere(entryDays, {d}) = EntriesWhere(Entries(sessions), {d})
  BY <1>8 DEF SessionCountsExact
<1>10. sessDays'[d] = SessionsOn(E, d)
  BY <1>5, <1>6, <1>7, <1>9
<1>11. EntriesWhere(entryDays', {d}) = EntriesWhere(Entries(E), {d})
  BY <1>5, <1>6, <1>7, <1>9, AddedWhere
<1> QED BY <1>10, <1>11

LEMMA RecountedSessions ==
  ASSUME RecountSessions
  PROVE  SessionCountsExact'
<1>1. /\ sessDays' = [d \in Days |-> SessionsOn(sessions, d)] /\ entryDays' = Entries(sessions)
      /\ sessions' = sessions
  BY DEF RecountSessions, SetSessionAggs
<1> QED BY <1>1 DEF SessionCountsExact

\* The retention removes sessions that began before the limit, then the days
\* before it, and recounts the day it cuts.
LEMMA CleanSessionCounts ==
  ASSUME SessInv, SessionCountsExact, DeleteOldSessions \/ DeleteOldSessionDays \/ RebuildSessionDay
  PROVE  SessionCountsExact'
<1> DEFINE cut == DayOf(Cutoff)
<1>0. cut \in Nat /\ \A d \in Days : d \in Nat
  BY EarlierBuckets DEF Days
<1>1. CASE DeleteOldSessions
  <2>1. /\ sessions' = {s \in sessions : s.start >= Cutoff} /\ UNCHANGED <<sessDays, entryDays>>
        /\ lag' = (lag \cup {"sessCut", "state"}) \ {"pagesCut"}
    BY <1>1 DEF DeleteOldSessions, SetSessions
  <2>2. ASSUME NEW d \in Days, Live(d, cut, "sessCut")'
        PROVE  Live(d, cut, "sessCut") /\ OnDay(sessions, d) = OnDay(sessions', d)
    <3>1. d > cut /\ Live(d, cut, "sessCut")
      BY <2>1, <2>2 DEF Live
    <3>2. \A s \in sessions : DayOf(s.start) = d => s.start >= Cutoff
      <4> SUFFICES ASSUME NEW s \in sessions, DayOf(s.start) = d, ~(s.start >= Cutoff) PROVE FALSE
        OBVIOUS
      <4>1. s.start \in Nat
        BY DEF SessInv, AllSessions, SessionOK, SessionSet
      <4>2. s.start <= Cutoff /\ Cutoff \in Nat
        BY <4>1
      <4>3. DayOf(s.start) <= cut
        BY <4>1, <4>2, EarlierBuckets
      <4> QED BY <1>0, <3>1, <4>3
    <3> QED BY <2>1, <3>1, <3>2 DEF OnDay
  <2>3. "sessions" \in lag => "sessions" \in lag'
    BY <2>1
  <2> QED BY <2>1, <2>2, <2>3, SameCounts
<1>2. CASE DeleteOldSessionDays
  <2>1. /\ sessDays' = [d \in Days |-> IF d < cut THEN 0 ELSE sessDays[d]]
        /\ entryDays' = EntriesWhere(entryDays, {d \in Days : d >= cut})
        /\ lag' = lag /\ sessions' = sessions
    BY <1>2 DEF DeleteOldSessionDays, SetSessionAggs
  <2> HIDE DEF cut
  <2> SUFFICES ASSUME "sessions" \notin lag', NEW d \in Days, Live(d, cut, "sessCut")'
               PROVE  /\ sessDays'[d] = SessionsOn(sessions, d)
                      /\ EntriesWhere(entryDays', {d}) = EntriesWhere(Entries(sessions), {d})
    BY <2>1 DEF SessionCountsExact, cut
  <2>2. Live(d, cut, "sessCut") /\ d >= cut /\ ~(d < cut) /\ "sessions" \notin lag
    BY <1>0, <2>1 DEF Live
  <2>3. /\ sessDays[d] = SessionsOn(sessions, d)
        /\ EntriesWhere(entryDays, {d}) = EntriesWhere(Entries(sessions), {d})
    BY <2>2 DEF SessionCountsExact, cut
  <2>4. EntriesWhere(entryDays', {d}) = EntriesWhere(entryDays, {d})
    BY <2>1, <2>2, WhereTwice
  <2> QED BY <2>1, <2>2, <2>3, <2>4
<1>3. CASE RebuildSessionDay
  <2> DEFINE e == Entries(sessions)
             a == EntriesWhere(entryDays, Days \ {cut})
             b == EntriesWhere(e, {cut})
  <2>1. /\ sessDays' = [d \in Days |-> IF d = cut THEN SessionsOn(sessions, d) ELSE sessDays[d]]
        /\ entryDays' = AddEntries(a, b)
        /\ lag' = lag \ {"sessCut"} /\ sessions' = sessions
    BY <1>3 DEF RebuildSessionDay, SetSessionAggs
  <2> HIDE DEF cut, e
  <2> SUFFICES ASSUME "sessions" \notin lag', NEW d \in Days, Live(d, cut, "sessCut")'
               PROVE  /\ sessDays'[d] = SessionsOn(sessions, d)
                      /\ EntriesWhere(entryDays', {d}) = EntriesWhere(e, {d})
    BY <2>1 DEF SessionCountsExact, cut, e
  <2>2. EntriesWhere(entryDays', {d}) = AddEntries(EntriesWhere(a, {d}), EntriesWhere(b, {d}))
    BY <2>1, AddedWhere
  <2> DEFINE z == EntriesWhere(e, {d})
  <2>3. z = [k \in DOMAIN z |-> z[k]] /\ \A k \in DOMAIN z : z[k] \in Nat
    BY EntryCounts DEF SessInv, e
  <2>4. CASE d = cut
    <3>1. EntriesWhere(a, {d}) = [k \in {} |-> 0] /\ EntriesWhere(b, {d}) = z
      BY <2>4, WhereTwice
    <3> HIDE DEF a, b, z
    <3>2. EntriesWhere(entryDays', {d}) = z
      BY <2>2, <2>3, <3>1, AddNone
    <3> QED BY <2>1, <2>4, <3>2 DEF z
  <2>5. CASE d # cut
    <3>1. EntriesWhere(a, {d}) = EntriesWhere(entryDays, {d}) /\ EntriesWhere(b, {d}) = [k \in {} |-> 0]
      <4>1. d \in Days \ {cut} /\ d \notin {cut}
        BY <2>5
      <4>2. EntriesWhere(a, {d}) = EntriesWhere(entryDays, {d})
        <5> DEFINE K == Days \ {cut}
        <5>1. a = EntriesWhere(entryDays, K) /\ d \in K
          BY <4>1
        <5> HIDE DEF K, a
        <5> QED BY <5>1, WhereTwice
      <4>3. EntriesWhere(b, {d}) = [k \in {} |-> 0]
        <5> DEFINE K == {cut}
        <5>1. b = EntriesWhere(e, K) /\ d \notin K
          BY <4>1
        <5> HIDE DEF K, b
        <5> QED BY <5>1, WhereTwice
      <4> QED BY <4>2, <4>3
    <3>2. Live(d, cut, "sessCut") /\ "sessions" \notin lag
      BY <2>1, <2>5 DEF Live
    <3>3. /\ sessDays[d] = SessionsOn(sessions, d)
          /\ EntriesWhere(entryDays, {d}) = z
      BY <3>2 DEF SessionCountsExact, cut, e
    <3> HIDE DEF a, b, z
    <3>4. EntriesWhere(entryDays', {d}) = z
      BY <2>2, <2>3, <3>1, <3>3, AddNone
    <3> QED BY <2>1, <2>5, <3>3, <3>4 DEF z
  <2> QED BY <2>4, <2>5
<1> QED BY <1>1, <1>2, <1>3

\* Once the sessions are gone their counters are nothing, unless a batch has come between.
LEMMA ClearSessionCounts ==
  ASSUME JobInv, SessionCountsExact, ClearSessionAggs
  PROVE  SessionCountsExact'
<1>1. /\ sessDays' = [d \in Days |-> 0] /\ entryDays' = <<>>
      /\ lag' = lag \ (IF overlap THEN {} ELSE {"sessions", "sessCut"})
      /\ sessions' = sessions /\ At("ClearSessionAggs") /\ job' = Rest(Tail(job.todo))
  BY DEF ClearSessionAggs, SetSessionAggs, Advance
<1>2. "sessions" \in lag /\ (overlap \/ sessions = {})
  <2>1. "ClearSessionAggs" \in Clears
    BY DEF Clears
  <2>2. job.kind = "clear" /\ Place("ClearSessionAggs", 1)
    BY <1>1, <2>1, ClearPlace DEF JobInv
  <2> QED BY <2>2 DEF Place, JobInv, ClearInv
<1>3. CASE overlap
  BY <1>1, <1>2, <1>3 DEF SessionCountsExact
<1>4. CASE sessions = {}
  <2>1. \A d : SessionsOn({}, d) = 0
    <3>1. \A d : OnDay({}, d) = {}
      BY DEF OnDay
    <3> QED BY <3>1, SessionsOnIs, FS_EmptySet
  <2>2. \A d : EntriesWhere(<<>>, {d}) = EntriesWhere(Entries({}), {d})
    BY DEF EntriesWhere, Entries
  <2> QED BY <1>1, <1>4, <2>1, <2>2 DEF SessionCountsExact
<1> QED BY <1>2, <1>3, <1>4

LEMMA SessionCountsStep ==
  ASSUME Shape, SessInv, JobInv, SessionCountsExact, [Next]_vars
  PROVE  SessionCountsExact'
<1> DEFINE Same == UNCHANGED <<sessions, sessDays, entryDays>>
                   /\ {"sessions", "sessCut"} \cap lag \subseteq lag'
<1>0. ASSUME Same PROVE SessionCountsExact'
  BY <1>0, SessionCountsKept
<1>1. ASSUME NEW w \in Workers, Begin(w) \/ Work(w) \/ Fail(w) PROVE SessionCountsExact'
  <2>1. CASE UNCHANGED Derived
    BY <2>1, <1>0 DEF Derived
  <2>2. CASE Commit(w)
    BY <2>2, CommitRewrites, CommitSessionCounts
  <2> QED BY <1>1, <2>1, <2>2, WorkersLeave
<1>2. CASE (\E k \in {"clean", "clear", "rebuild"} : BeginJob(k)) \/ StatementFails \/ Crash
  BY <1>2, <1>0 DEF BeginJob, StatementFails, Crash, history, visitTables
<1>3. CASE DeleteOldRows \/ DeleteRows \/ DeleteRange \/ Migrate
  BY <1>3, <1>0 DEF DeleteOldRows, DeleteRows, DeleteRange, Migrate, RemoveRows, visitTables
<1>4. CASE DeleteOrphans \/ ClearDims
  BY <1>4, <1>0 DEF DeleteOrphans, ClearDims, RemoveIds, visitTables
<1>5. CASE \/ DeleteOldBuckets \/ RebuildHour \/ RebuildDay
           \/ BackfillAggregates \/ AggregatesIfEmpty \/ ClearAggregates
  <2>1. UNCHANGED <<sessions, sessDays, entryDays>> /\ lag \ {"counts", "hourCut", "dayCut"} \subseteq lag'
    BY <1>5 DEF DeleteOldBuckets, RebuildHour, RebuildDay, BackfillAggregates,
       AggregatesIfEmpty, ClearAggregates, Recount, SetCounts, history, visitTables
  <2> QED BY <2>1, <1>0
<1>6. CASE BackfillFirstSeen \/ FirstSeenIfEmpty \/ ClearFirstSeen
  <2>1. UNCHANGED <<sessions, sessDays, entryDays>> /\ lag \ {"first"} \subseteq lag'
    BY <1>6 DEF BackfillFirstSeen, FirstSeenIfEmpty, ClearFirstSeen, SetFirstSeen, history, visitTables
  <2> QED BY <2>1, <1>0
<1>7. CASE DeleteState \/ InsertState \/ ClearState
  <2>1. UNCHANGED <<sessions, sessDays, entryDays>> /\ lag \ {"state"} \subseteq lag'
    BY <1>7 DEF DeleteState, InsertState, ClearState, SetSessions
  <2> QED BY <2>1, <1>0
<1>8. CASE ClearSessions \/ BackfillSessions \/ SessionsIfEmpty
  <2>1. "sessions" \in lag' \/ Same
    BY <1>8 DEF ClearSessions, BackfillSessions, SessionsIfEmpty, Resession, SetSessions,
       history, visitTables
  <2> QED BY <2>1, <1>0 DEF SessionCountsExact
<1>9. CASE BackfillSessionAggs \/ SessionAggsIfEmpty
  <2>1. RecountSessions \/ Same
    BY <1>9 DEF BackfillSessionAggs, SessionAggsIfEmpty, history, visitTables
  <2> QED BY <2>1, <1>0, RecountedSessions
<1>10. CASE UNCHANGED vars
  BY <1>10, <1>0 DEF vars, history, visitTables
<1> QED BY <1>1, <1>2, <1>3, <1>4, <1>5, <1>6, <1>7, <1>8, <1>9, <1>10,
           CleanSessionCounts, ClearSessionCounts DEF Next, Statement

----------------------------
(* THE TABLES ARE EXACT *)

TablesInv == IdsInv /\ RowsInv /\ JobInv /\ VisitsInv /\ SessInv /\ TablesExact

LEMMA InitTables == Init => TablesInv
<1> SUFFICES ASSUME Init PROVE TablesInv
  OBVIOUS
<1>1. IdsInv /\ RowsInv /\ SessInv /\ VisitsInv
  BY InitIds, InitRows, InitSess
<1>2. JobInv
  <2>1. job = StartJob
    BY DEF Init
  <2>2. job.kind # "clear"
    BY <2>1, StartShape
  <2> QED BY <2>1, <2>2, StartShape DEF JobInv, JobShape, ClearInv
<1>3. /\ rows = {} /\ hourly = [h \in Hours |-> Zero] /\ hourIPs = {}
      /\ daily = [d \in Days |-> Zero] /\ dayIPs = {} /\ firstSeen = <<>>
      /\ sessions = {} /\ sessDays = [d \in Days |-> 0] /\ entryDays = <<>>
  BY DEF Init
<1>4. CountsExact
  <2>1. \A h \in Hours : /\ hourly[h] = Tally(InHour(rows, h))
                         /\ {p \in hourIPs : p[1] = h} = HourIPs(InHour(rows, h))
    BY <1>3, BucketsOf, TallyNone
  <2>2. \A d \in Days : /\ daily[d] = Tally(InDay(rows, d))
                        /\ {p \in dayIPs : p[1] = d} = DayIPs(InDay(rows, d))
    BY <1>3, BucketsOf, TallyNone
  <2> QED BY <2>1, <2>2 DEF CountsExact
<1>5. FirstSeenExact
  BY <1>3, FirstNone DEF FirstSeenExact
<1>6. SessionCountsExact
  <2>1. \A d : SessionsOn({}, d) = 0
    <3>1. \A d : OnDay({}, d) = {}
      BY DEF OnDay
    <3> QED BY <3>1, SessionsOnIs, FS_EmptySet
  <2>2. \A d : EntriesWhere(<<>>, {d}) = EntriesWhere(Entries({}), {d})
    BY DEF EntriesWhere, Entries
  <2> QED BY <1>3, <2>1, <2>2 DEF SessionCountsExact
<1> QED BY <1>1, <1>2, <1>4, <1>5, <1>6 DEF TablesInv, TablesExact

LEMMA TablesStep ==
  ASSUME TablesInv, [Next]_vars
  PROVE  TablesInv'
<1> USE DEF TablesInv, TablesExact
<1>1. IdsInv'
  BY IdsStep
<1>2. RowsInv'
  BY RowsStep
<1>3. JobInv'
  BY ClearStep
<1>4. VisitsInv'
  BY VisitsStep
<1>5. SessInv'
  BY SessStep
<1>6. CountsExact'
  BY CountsStep
<1>7. FirstSeenExact'
  BY FirstStep
<1>8. SessionCountsExact'
  BY SessionCountsStep DEF IdsInv
<1> QED BY <1>1, <1>2, <1>3, <1>4, <1>5, <1>6, <1>7, <1>8

(* The counters per hour and day with their addresses, the first page views and *)
(* the counters of sessions are those of the rows and sessions in every state, for *)
(* every bucket that is not past its retention and that no job has left behind: *)
(* whatever batches are committed at once, fail, or are repeated, and whatever the *)
(* cleanup, a clear, a rebuild and the start remove and recompute between them *)
(* (applyAggregateUpdates, applySessionUpdates, CleanOldLogs, ClearLogsForWebsite). *)
THEOREM TablesAreExact == Spec => []TablesExact
<1>1. Init => TablesInv
  BY InitTables
<1>2. TablesInv /\ [Next]_vars => TablesInv'
  BY TablesStep
<1>3. TablesInv => TablesExact
  BY DEF TablesInv
<1> QED BY <1>1, <1>2, <1>3, PTL DEF Spec

----------------------------
(* TYPES *)

Tokens == {"counts", "hourCut", "dayCut", "first", "pages", "pagesCut", "sessions",
           "sessCut", "state"}
\* A batch is begun again no more often than it may be.
AttemptsInv == \A w \in Workers : tx[w].attempt \in 0..MaxAttempts
TypeInv == TablesInv /\ AttemptsInv /\ lag \subseteq Tokens

LEMMA AttemptsStep ==
  ASSUME IdsInv, AttemptsInv, [Next]_vars
  PROVE  AttemptsInv'
<1>0. Shape /\ Idle.attempt = 0 /\ \A s, n : Attempt(s, n).attempt = n
  BY DEF IdsInv, Attempt, Idle
<1>1. ASSUME NEW w \in Workers, Only(w), tx'[w].attempt \in 0..MaxAttempts PROVE AttemptsInv'
  BY <1>1 DEF Only, AttemptsInv
<1>2. ASSUME NEW w \in Workers, Begin(w) \/ Work(w) \/ Fail(w) PROVE AttemptsInv'
  <2>1. CASE Begin(w)
    <3>1. Only(w) /\ tx'[w].attempt = 1
      BY <1>0, <2>1, BeginSteps
    <3> QED BY <1>1, <3>1
  <2>2. CASE Fail(w) \/ Commit(w)
    <3>1. tx' = [tx EXCEPT ![w] = Idle]
      BY <2>2 DEF Fail, Commit
    <3>2. Only(w) /\ tx'[w] = Idle
      BY <1>0, <3>1 DEF Shape, Only
    <3> QED BY <1>0, <1>1, <3>2
  <2>3. CASE DeadlockVictim(w)
    <3> DEFINE n == tx[w].attempt
               t == IF n < MaxAttempts THEN Attempt(tx[w].batch, n + 1) ELSE Idle
    <3>1. tx' = [tx EXCEPT ![w] = t]
      BY <2>3 DEF DeadlockVictim
    <3>2. n \in 0..MaxAttempts
      BY DEF AttemptsInv
    <3>3. t.attempt = IF n < MaxAttempts THEN n + 1 ELSE 0
      BY <1>0
    <3> HIDE DEF n, t
    <3>4. t.attempt \in 0..MaxAttempts
      BY <3>2, <3>3
    <3>5. Only(w) /\ tx'[w] = t
      BY <1>0, <3>1 DEF Shape, Only
    <3> QED BY <1>1, <3>4, <3>5
  <2>4. CASE GetOrCreateDimID(w)
    <3>1. Only(w) /\ tx'[w].attempt = tx[w].attempt
      BY <1>0, <2>4, DimFields
    <3> QED BY <1>1, <3>1 DEF AttemptsInv
  <2>5. CASE BulkInsertLogRows(w)
    <3>1. Only(w) /\ tx'[w].attempt = tx[w].attempt
      BY <1>0, <2>5, InsertFields
    <3> QED BY <1>1, <3>1 DEF AttemptsInv
  <2>6. CASE NoVisit(w) \/ VisitOpens(w) \/ VisitExtends(w)
    <3>1. Only(w) /\ tx'[w].attempt = tx[w].attempt
      BY <1>0, <2>6, VisitFields
    <3> QED BY <1>1, <3>1 DEF AttemptsInv
  <2> QED BY <1>2, <2>1, <2>2, <2>3, <2>4, <2>5, <2>6 DEF Work
<1>3. CASE Statement
  <2>1. tx' = tx
    BY <1>0, <1>3, StatementSteps, MigrateSteps DEF Shape, Deletes, Removes
  <2> QED BY <2>1 DEF AttemptsInv
<1>4. CASE Crash
  <2>1. \A w \in Workers : tx'[w] = Idle
    BY <1>4 DEF Crash
  <2> QED BY <1>0, <2>1 DEF AttemptsInv
<1>5. CASE (\E k \in {"clean", "clear", "rebuild"} : BeginJob(k)) \/ StatementFails \/ UNCHANGED vars
  BY <1>5 DEF BeginJob, StatementFails, vars, AttemptsInv
<1> QED BY <1>2, <1>3, <1>4, <1>5 DEF Next

LEMMA LagStep ==
  ASSUME lag \subseteq Tokens, [Next]_vars
  PROVE  lag' \subseteq Tokens
<1> USE DEF Tokens
<1>1. ASSUME NEW w \in Workers, Begin(w) \/ Work(w) \/ Fail(w) PROVE lag' = lag
  BY <1>1, WorkersLeave DEF Commit, Derived
<1>2. CASE (\E k \in {"clean", "clear", "rebuild"} : BeginJob(k)) \/ StatementFails \/ Crash
  BY <1>2 DEF BeginJob, StatementFails, Crash, history
<1>3. CASE DeleteOldRows \/ DeleteRows \/ DeleteRange \/ Migrate
  BY <1>3 DEF DeleteOldRows, DeleteRows, DeleteRange, Migrate, RemoveRows
<1>4. CASE DeleteOrphans \/ ClearDims
  BY <1>4 DEF DeleteOrphans, ClearDims, RemoveIds
<1>5. CASE \/ DeleteOldBuckets \/ RebuildHour \/ RebuildDay
           \/ BackfillAggregates \/ AggregatesIfEmpty \/ ClearAggregates
  BY <1>5 DEF DeleteOldBuckets, RebuildHour, RebuildDay, BackfillAggregates,
       AggregatesIfEmpty, ClearAggregates, Recount, SetCounts, history
<1>6. CASE BackfillFirstSeen \/ FirstSeenIfEmpty \/ ClearFirstSeen
  BY <1>6 DEF BackfillFirstSeen, FirstSeenIfEmpty, ClearFirstSeen, SetFirstSeen, history
<1>7. CASE DeleteOldSessions \/ DeleteState \/ InsertState \/ ClearSessions \/ ClearState
           \/ BackfillSessions \/ SessionsIfEmpty
  BY <1>7 DEF DeleteOldSessions, DeleteState, InsertState, ClearSessions, ClearState,
     BackfillSessions, SessionsIfEmpty, Resession, SetSessions, history
<1>8. CASE DeleteOldSessionDays \/ RebuildSessionDay \/ BackfillSessionAggs \/ SessionAggsIfEmpty
           \/ ClearSessionAggs
  BY <1>8 DEF DeleteOldSessionDays, RebuildSessionDay, BackfillSessionAggs, SessionAggsIfEmpty,
     ClearSessionAggs, RecountSessions, SetSessionAggs, history
<1>9. CASE UNCHANGED vars
  BY <1>9 DEF vars, history
<1> QED BY <1>1, <1>2, <1>3, <1>4, <1>5, <1>6, <1>7, <1>8, <1>9 DEF Next, Statement

LEMMA TypeInvType ==
  ASSUME TypeInv
  PROVE  TypeOK
<1>0. IdsInv /\ Shape /\ RowsInv /\ SessInv /\ AttemptsInv
  BY DEF TypeInv, TablesInv, IdsInv
<1>1. \A v \in Names : dims[v] \in 0..(nextId - 1)
  BY <1>0 DEF Shape
<1>2. \A r \in rows : r.line \in Lines /\ r.n \in Nat \ {0}
  BY <1>0 DEF RowsInv, AllRows, RowOK
<1>3. \A w \in Workers : tx[w].phase \in {"idle", "dims", "rows", "visits"}
                        /\ tx[w].attempt \in 0..MaxAttempts
  BY <1>0 DEF Shape, TxShape, Phases, AttemptsInv
<1>4. \A s \in sessions : s.id < nextSession /\ s.start <= s.end /\ s.pages > 0
  BY <1>0 DEF SessInv, AllSessions, SessionOK, SessionSet
<1>5. Cardinality({s.id : s \in sessions}) = Cardinality(sessions)
  <2> DEFINE f == [s \in sessions |-> s.id]
  <2>1. {s.id : s \in sessions} = {f[s] : s \in sessions}
    OBVIOUS
  <2>2. Apart(f, sessions)
    BY <1>0 DEF Apart, SessInv, AllSessions
  <2>3. IsFiniteSet(sessions)
    BY <1>0 DEF SessInv
  <2> HIDE DEF f
  <2>4. Cardinality({f[s] : s \in sessions}) = Cardinality(sessions)
    BY <2>2, <2>3, SameSize
  <2> QED BY <2>1, <2>4
<1> QED BY <1>1, <1>2, <1>3, <1>4, <1>5 DEF TypeOK, TypeInv, Tokens

LEMMA InitTypeInv == Init => TypeInv
<1> SUFFICES ASSUME Init PROVE TypeInv
  OBVIOUS
<1>1. lag = {} /\ \A w \in Workers : tx[w].attempt = 0
  BY DEF Init, Idle
<1>2. AttemptsInv
  BY <1>1 DEF AttemptsInv
<1> QED BY <1>1, <1>2, InitTables DEF TypeInv

LEMMA TypeInvStep == TypeInv /\ [Next]_vars => TypeInv'
<1> SUFFICES ASSUME TypeInv, [Next]_vars PROVE TypeInv'
  OBVIOUS
<1>1. TablesInv'
  BY TablesStep DEF TypeInv
<1>2. AttemptsInv'
  BY AttemptsStep DEF TypeInv, TablesInv
<1>3. lag' \subseteq Tokens
  BY LagStep DEF TypeInv
<1> QED BY <1>1, <1>2, <1>3 DEF TypeInv

(* The types of the tables, the transactions and the jobs: no session ends before it *)
(* starts, is empty or shares its id, an address or page has an id that was given *)
(* out, and a batch is begun again at most MaxAttempts times (BatchInsertLogsForWebsite). *)
THEOREM LogStoreTypes == Spec => []TypeOK
  BY InitTypeInv, TypeInvStep, TypeInvType, PTL DEF Spec


----------------------------
(* A REBUILD REPAIRS *)

\* A rebuild goes on where it is in its program, and what it has recomputed is no
\* longer behind.
RebuildFrom(todo) ==
  /\ todo \in Seq(Others) /\ Len(todo) \in 1..6
  /\ \A i \in 1..Len(todo) : todo[i] = RebuildProgram[6 - Len(todo) + i]
RebuildInv ==
  job.kind = "rebuild" =>
    /\ RebuildFrom(job.todo)
    /\ ToDo <= 4 => {"counts", "hourCut", "dayCut"} \cap lag = {}
    /\ ToDo <= 3 => "first" \notin lag
    /\ ToDo <= 2 => {"pages", "pagesCut", "state"} \cap lag = {}
    /\ ToDo <= 1 => lag = {}

LEMMA RebuildStatements ==
  /\ Len(RebuildProgram) = 6
  /\ RebuildProgram[1] = "DeleteRange" /\ RebuildProgram[2] = "BackfillAggregates"
  /\ RebuildProgram[3] = "BackfillFirstSeen" /\ RebuildProgram[4] = "BackfillSessions"
  /\ RebuildProgram[5] = "BackfillSessionAggs" /\ RebuildProgram[6] = "DeleteOrphans"
BY DEF RebuildProgram

\* The statement that is next, and the job behind it.
LEMMA RebuildNext ==
  ASSUME RebuildFrom(job.todo), NEW s, At(s)
  PROVE  /\ ToDo \in 1..6 /\ s = RebuildProgram[7 - ToDo]
         /\ job.todo # <<>> /\ s = job.todo[1]
<1> DEFINE n == Len(job.todo)
<1>0. /\ n \in 1..6 /\ \A i \in 1..n : job.todo[i] = RebuildProgram[6 - n + i]
      /\ job.todo \in Seq(Others)
  BY DEF RebuildFrom
<1>1. job.todo # <<>> /\ s = Head(job.todo)
  BY DEF At
<1>2. s = job.todo[1]
  BY <1>0, <1>1
<1>3. \A m \in 1..6 : 1 \in 1..m /\ 6 - m + 1 = 7 - m
  OBVIOUS
<1> QED BY <1>0, <1>1, <1>2, <1>3 DEF ToDo

LEMMA RebuildAdvances ==
  ASSUME JobShape, job.kind = "rebuild", RebuildFrom(job.todo), NEW s, At(s),
         job' = Rest(Tail(job.todo))
  PROVE  /\ ToDo \in 1..6 /\ s = RebuildProgram[7 - ToDo]
         /\ job'.kind = "rebuild" => RebuildFrom(job'.todo) /\ ToDo' = ToDo - 1
<1> DEFINE n == Len(job.todo)
           q == Tail(job.todo)
<1>1. /\ n \in 1..6 /\ \A i \in 1..n : job.todo[i] = RebuildProgram[6 - n + i]
      /\ job.todo \in Seq(Others) /\ job.todo # <<>>
  BY RebuildNext DEF RebuildFrom
<1>2. s = RebuildProgram[7 - n]
  BY RebuildNext DEF ToDo
<1>3. q \in Seq(Others) /\ Len(q) = n - 1 /\ \A i \in 1..(n - 1) : q[i] = job.todo[i + 1]
  BY <1>1
<1>4. CASE q = <<>>
  <2>1. job'.kind # "rebuild"
    BY <1>4, StartShape DEF Rest, NoJob
  <2> QED BY <1>1, <1>2, <2>1 DEF ToDo
<1>5. CASE q # <<>>
  <2>1. job' = [job EXCEPT !.todo = q]
    BY <1>5 DEF Rest
  <2> HIDE DEF q, n
  <2>2. job'.todo = q
    BY <2>1 DEF JobShape
  <2>3. Len(q) \in 1..6 /\ Len(q) = n - 1
    BY <1>1, <1>3, <1>5
  <2>4. \A i \in 1..Len(q) : q[i] = RebuildProgram[6 - Len(q) + i]
    <3> SUFFICES ASSUME NEW i \in 1..Len(q) PROVE q[i] = RebuildProgram[6 - Len(q) + i]
      OBVIOUS
    <3>1. i + 1 \in 1..n /\ i \in 1..(n - 1) /\ 6 - n + (i + 1) = 6 - Len(q) + i
      BY <1>1, <2>3
    <3>2. q[i] = job.todo[i + 1]
      BY <1>3, <3>1
    <3>3. job.todo[i + 1] = RebuildProgram[6 - n + (i + 1)]
      BY <1>1, <3>1
    <3> QED BY <3>1, <3>2, <3>3
  <2>5. RebuildFrom(q)
    BY <1>3, <2>3, <2>4 DEF RebuildFrom
  <2>6. ToDo = n /\ ToDo' = Len(q)
    BY <2>2 DEF ToDo, n
  <2> QED BY <1>1, <1>2, <2>2, <2>3, <2>5, <2>6
<1> QED BY <1>4, <1>5

\* What the statements of a rebuild leave behind.
Repairs(s) ==
  /\ s = "BackfillAggregates" => lag' = lag \ {"counts", "hourCut", "dayCut"}
  /\ s = "BackfillFirstSeen" => lag' = lag \ {"first"}
  /\ s = "BackfillSessions" => lag' = (lag \cup {"sessions"}) \ {"pages", "pagesCut", "state"}
  /\ s = "BackfillSessionAggs" => lag' = lag \ {"sessions", "sessCut"}
  /\ s = "DeleteOrphans" => lag' = lag
LEMMA StatementRepairs ==
  ASSUME Statement
  PROVE  \E s : /\ At(s) /\ Repairs(s)
                /\ job' = Rest(Tail(job.todo)) \/ s = "DeleteOldRows"
<1> USE DEF Repairs, Advance
<1>1. CASE DeleteOldRows \/ DeleteRows \/ DeleteRange \/ Migrate
  BY <1>1 DEF DeleteOldRows, DeleteRows, DeleteRange, Migrate
<1>2. CASE DeleteOrphans \/ ClearDims
  BY <1>2 DEF DeleteOrphans, ClearDims, RemoveIds
<1>3. CASE \/ DeleteOldBuckets \/ RebuildHour \/ RebuildDay \/ AggregatesIfEmpty
           \/ ClearAggregates \/ FirstSeenIfEmpty \/ ClearFirstSeen
  BY <1>3 DEF DeleteOldBuckets, RebuildHour, RebuildDay, AggregatesIfEmpty,
       ClearAggregates, FirstSeenIfEmpty, ClearFirstSeen
<1>4. CASE BackfillAggregates
  BY <1>4 DEF BackfillAggregates, Recount, SetCounts
<1>5. CASE BackfillFirstSeen
  BY <1>5 DEF BackfillFirstSeen, SetFirstSeen
<1>6. CASE \/ DeleteOldSessions \/ DeleteState \/ InsertState \/ ClearSessions \/ ClearState
           \/ SessionsIfEmpty
  BY <1>6 DEF DeleteOldSessions, DeleteState, InsertState, ClearSessions, ClearState,
     SessionsIfEmpty
<1>7. CASE BackfillSessions
  BY <1>7 DEF BackfillSessions, Resession, SetSessions
<1>8. CASE DeleteOldSessionDays \/ RebuildSessionDay \/ SessionAggsIfEmpty \/ ClearSessionAggs
  BY <1>8 DEF DeleteOldSessionDays, RebuildSessionDay, SessionAggsIfEmpty, ClearSessionAggs
<1>9. CASE BackfillSessionAggs
  BY <1>9 DEF BackfillSessionAggs, RecountSessions, SetSessionAggs
<1> QED BY <1>1, <1>2, <1>3, <1>4, <1>5, <1>6, <1>7, <1>8, <1>9 DEF Statement

\* What RebuildRepairs says of a step.
Repaired ==
  job.kind = "rebuild" /\ Len(job.todo) = 1 /\ left' = left /\ job' = NoJob => lag' = {}

LEMMA StatementRebuilds ==
  ASSUME JobShape, RebuildInv, lag \subseteq Tokens, Statement
  PROVE  RebuildInv' /\ Repaired
<1>1. PICK s : /\ At(s) /\ Repairs(s)
               /\ job' = Rest(Tail(job.todo)) \/ s = "DeleteOldRows"
  BY StatementRepairs
<1>2. CASE job.kind # "rebuild"
  <2>1. job'.kind # "rebuild"
    <3>1. job' = Rest(Tail(job.todo)) \/ job' = NoJob
      BY <1>2, StatementKinds, OthersAt DEF Clearing, DeleteRows, ClearDims, ClearFirstSeen,
         ClearAggregates, ClearSessions, ClearState, ClearSessionAggs, Advance
    <3> QED BY <1>2, <3>1 DEF Rest, NoJob, JobShape
  <2> QED BY <1>2, <2>1 DEF RebuildInv, Repaired
<1>3. CASE job.kind = "rebuild"
  <2>1. RebuildFrom(job.todo)
    BY <1>3 DEF RebuildInv
  <2>2. ToDo \in 1..6 /\ s = RebuildProgram[7 - ToDo]
    BY <1>1, <2>1, RebuildNext
  <2>3. s # "DeleteOldRows"
    <3>1. \A k \in 1..6 : k = 1 \/ k = 2 \/ k = 3 \/ k = 4 \/ k = 5 \/ k = 6
      OBVIOUS
    <3>2. \A k \in 1..6 : RebuildProgram[k] # "DeleteOldRows"
      BY <3>1, RebuildStatements
    <3>3. 7 - ToDo \in 1..6
      BY <2>2
    <3> QED BY <2>2, <3>2, <3>3
  <2>4. /\ ToDo \in 1..6 /\ s = RebuildProgram[7 - ToDo]
        /\ job'.kind = "rebuild" => RebuildFrom(job'.todo) /\ ToDo' = ToDo - 1
    BY <1>1, <1>3, <2>1, <2>2, <2>3, RebuildAdvances
  <2>5. /\ ToDo <= 4 => {"counts", "hourCut", "dayCut"} \cap lag = {}
        /\ ToDo <= 3 => "first" \notin lag
        /\ ToDo <= 2 => {"pages", "pagesCut", "state"} \cap lag = {}
        /\ ToDo <= 1 => lag = {}
    BY <1>3 DEF RebuildInv
  <2>6. ToDo = 1 \/ ToDo = 2 \/ ToDo = 3 \/ ToDo = 4 \/ ToDo = 5 \/ ToDo = 6
    BY <2>4
  <2>7. /\ ToDo = 1 => s = "DeleteOrphans"
        /\ ToDo = 2 => s = "BackfillSessionAggs"
        /\ ToDo = 3 => s = "BackfillSessions"
        /\ ToDo = 4 => s = "BackfillFirstSeen"
        /\ ToDo = 5 => s = "BackfillAggregates"
    BY <2>4, RebuildStatements
  <2> DEFINE m == ToDo - 1
  <2>8. /\ m <= 4 => {"counts", "hourCut", "dayCut"} \cap lag' = {}
        /\ m <= 3 => "first" \notin lag'
        /\ m <= 2 => {"pages", "pagesCut", "state"} \cap lag' = {}
        /\ m <= 1 => lag' = {}
    <3> HIDE DEF ToDo
    <3>1. CASE ToDo = 1
      BY <1>1, <2>5, <2>7, <3>1 DEF Repairs
    <3>2. CASE ToDo = 2
      <4>1. {"counts", "hourCut", "dayCut"} \cap lag = {} /\ "first" \notin lag
            /\ {"pages", "pagesCut", "state"} \cap lag = {}
        BY <2>5, <3>2
      <4>2. lag' = lag \ {"sessions", "sessCut"}
        BY <1>1, <2>7, <3>2 DEF Repairs
      <4>3. lag' = {}
        BY <4>1, <4>2 DEF Tokens
      <4> QED BY <4>3
    <3>3. CASE ToDo = 3
      BY <1>1, <2>5, <2>7, <3>3 DEF Repairs
    <3>4. CASE ToDo = 4
      BY <1>1, <2>5, <2>7, <3>4 DEF Repairs
    <3>5. CASE ToDo = 5
      BY <1>1, <2>5, <2>7, <3>5 DEF Repairs
    <3>6. CASE ToDo = 6
      BY <3>6
    <3> QED BY <2>6, <3>1, <3>2, <3>3, <3>4, <3>5, <3>6
  <2>9. Repaired
    BY <1>1, <2>5, <2>7 DEF Repaired, Repairs, ToDo
  <2>10. RebuildInv'
    BY <2>4, <2>8 DEF RebuildInv
  <2> QED BY <2>9, <2>10
<1> QED BY <1>2, <1>3

LEMMA RebuildStep ==
  ASSUME Shape, JobShape, RebuildInv, lag \subseteq Tokens, [Next]_vars
  PROVE  RebuildInv' /\ Repaired
<1>1. ASSUME NEW w \in Workers, Begin(w) \/ Work(w) \/ Fail(w) PROVE RebuildInv' /\ Repaired
  <2>1. lag' = lag /\ job' = job
    BY <1>1, WorkersLeave DEF Commit, Derived
  <2>2. job.kind = "rebuild" => job' # NoJob
    BY <2>1 DEF NoJob
  <2> QED BY <2>1, <2>2 DEF RebuildInv, Repaired, ToDo
<1>2. CASE Statement
  BY <1>2, StatementRebuilds
<1>3. CASE StatementFails
  <2>1. left' # left
    <3>1. left' = [left EXCEPT !.faults = @ - 1] /\ left \in Lefts
      BY <1>3 DEF StatementFails, Shape
    <3> QED BY <3>1 DEF Lefts
  <2>2. job'.kind # "rebuild"
    <3>1. \/ job' = StartJob \/ job' = NoJob
          \/ job.kind = "clean" /\ job' = Rest(AfterPart(job.todo))
      BY <1>3 DEF StatementFails
    <3> QED BY <3>1, StartShape DEF Rest, JobShape, NoJob
  <2> QED BY <2>1, <2>2 DEF RebuildInv, Repaired
<1>4. CASE Crash
  <2>1. job'.kind = "start"
    BY <1>4, StartShape DEF Crash
  <2> QED BY <2>1 DEF RebuildInv, Repaired, NoJob
<1>5. ASSUME NEW k \in {"clean", "clear", "rebuild"}, BeginJob(k) PROVE RebuildInv' /\ Repaired
  <2>1. job = NoJob /\ job' = [kind |-> k, todo |-> Program[k]]
    BY <1>5 DEF BeginJob
  <2>2. CASE k = "rebuild"
    <3>1. job'.todo = RebuildProgram
      BY <2>1, <2>2 DEF Program
    <3>2. RebuildFrom(RebuildProgram) /\ Len(RebuildProgram) = 6
      BY RebuildStatements, OtherPrograms DEF RebuildFrom
    <3>3. job.kind # "rebuild"
      BY <2>1 DEF NoJob
    <3>4. ToDo' = 6 /\ RebuildFrom(job'.todo)
      BY <3>1, <3>2 DEF ToDo
    <3> QED BY <3>3, <3>4 DEF RebuildInv, Repaired
  <2> QED BY <2>1, <2>2 DEF RebuildInv, Repaired, NoJob
<1>6. CASE UNCHANGED vars
  <2>1. lag' = lag /\ job' = job
    BY <1>6 DEF vars, history
  <2> QED BY <2>1 DEF RebuildInv, Repaired, ToDo, NoJob
<1> QED BY <1>1, <1>2, <1>3, <1>4, <1>5, <1>6 DEF Next

(* A range reparse that runs to its end leaves no derived table behind: whatever an *)
(* earlier job left undone, and whatever is inserted while it runs, its statements *)
(* recompute every kind of table, in an order in which none of them is left behind *)
(* by a later one (RebuildWebsiteDerivedData). *)
THEOREM RebuildLeavesNothing == Spec => RebuildRepairs
<1>1. Init => TypeInv /\ RebuildInv
  <2> SUFFICES ASSUME Init PROVE TypeInv /\ RebuildInv
    OBVIOUS
  <2>1. RebuildInv
    BY StartShape DEF Init, RebuildInv
  <2> QED BY <2>1, InitTypeInv
<1>2. TypeInv /\ RebuildInv /\ [Next]_vars =>
        /\ TypeInv' /\ RebuildInv'
        /\ [job.kind = "rebuild" /\ Len(job.todo) = 1 /\ left' = left /\ job' = NoJob
              => lag' = {}]_vars
  BY TypeInvStep, RebuildStep DEF TypeInv, TablesInv, IdsInv, JobInv, Repaired
<1> QED BY <1>1, <1>2, PTL DEF Spec, RebuildRepairs

----------------------------
(* THE LOCKS ON THE VISITORS *)

HIDE LinesAssumption

\* A transaction has locked the visitors whose session it has looked for, and no
\* other transaction has.
LocksInv ==
  /\ \A w \in Workers : /\ tx[w].phase # "visits" => Blank(tx[w])
                        /\ DOMAIN tx[w].cache \subseteq tx[w].keys
                        /\ \A s \in tx[w].new : s.ip \in DOMAIN tx[w].cache
  /\ \A w, u \in Workers : w # u => tx[w].keys \cap tx[u].keys = {}

LEMMA VisitAlone ==
  ASSUME NEW w \in Workers, NoVisit(w) \/ VisitOpens(w) \/ VisitExtends(w), NextRow(w).line.pv
  PROVE  \A u \in Workers \ {w} : NextRow(w).ip \notin tx[u].keys
<1>1. Runs(w, "visits") /\ tx[w].visits # <<>>
  BY Zenon DEF NoVisit, VisitOpens, VisitExtends, Visited
<1> QED BY <1>1 DEF Runs, Waits, NextRow

LEMMA BlankIdle == Blank(Idle) /\ \A s, n : Blank(Attempt(s, n))
BY DEF Blank, Idle, Attempt

LEMMA LocksStep ==
  ASSUME IdsInv, LocksInv, [Next]_vars
  PROVE  LocksInv'
<1>0. Shape
  BY DEF IdsInv
<1>1. ASSUME NEW w \in Workers, Begin(w) \/ Work(w) \/ Fail(w) PROVE LocksInv'
  <2>0. ASSUME Only(w), tx'[w].phase # "visits" => Blank(tx'[w]),
               DOMAIN tx'[w].cache \subseteq tx'[w].keys,
               \A s \in tx'[w].new : s.ip \in DOMAIN tx'[w].cache,
               \A u \in Workers \ {w} : tx'[w].keys \cap tx[u].keys = {}
        PROVE  LocksInv'
    <3>1. \A u, v \in Workers : u # v => tx'[u].keys \cap tx'[v].keys = {}
      BY <2>0 DEF Only, LocksInv
    <3>2. \A u \in Workers : /\ tx'[u].phase # "visits" => Blank(tx'[u])
                             /\ DOMAIN tx'[u].cache \subseteq tx'[u].keys
                             /\ \A s \in tx'[u].new : s.ip \in DOMAIN tx'[u].cache
      <4> TAKE u \in Workers
      <4>1. CASE u = w
        BY <2>0, <4>1
      <4>2. CASE u # w
        <5>1. tx'[u] = tx[u]
          BY <2>0, <4>2 DEF Only
        <5> QED BY <5>1 DEF LocksInv
      <4> QED BY <4>1, <4>2
    <3> QED BY <3>1, <3>2 DEF LocksInv
  <2>1. CASE Begin(w) \/ DeadlockVictim(w) \/ Fail(w)
    <3>1. Only(w) /\ Blank(tx'[w])
      BY <1>0, <2>1, BlankSteps
    <3> QED BY <2>0, <3>1 DEF Blank
  <2>2. CASE Commit(w)
    <3>1. Only(w) /\ Blank(tx'[w])
      BY <1>0, <2>2, CommitSteps, BlankIdle
    <3> QED BY <2>0, <3>1 DEF Blank
  <2>3. CASE GetOrCreateDimID(w)
    <3>1. Only(w) /\ tx[w].phase = "dims"
      BY <1>0, <2>3, DimSteps
    <3>2. Blank(tx[w])
      BY <3>1 DEF LocksInv
    <3>3. Blank(tx'[w])
      BY <1>0, <2>3, <3>2, DimFields DEF Blank
    <3> QED BY <2>0, <3>1, <3>3 DEF Blank
  <2>4. CASE BulkInsertLogRows(w)
    <3>1. Only(w) /\ tx[w].phase = "rows" /\ tx'[w].new = tx[w].new /\ tx'[w].cache = tx[w].cache
          /\ tx'[w].keys = tx[w].keys
      BY <1>0, <2>4, InsertFields
    <3>2. tx'[w].phase = "visits"
      BY <1>0, <2>4, RowSteps
    <3>3. Blank(tx[w])
      BY <3>1 DEF LocksInv
    <3> QED BY <2>0, <3>1, <3>2, <3>3 DEF Blank
  <2>5. CASE NoVisit(w) \/ VisitOpens(w) \/ VisitExtends(w)
    <3> DEFINE i == NextRow(w).ip
               pv == NextRow(w).line.pv
    <3>1. Only(w) /\ tx'[w].keys = IF pv THEN tx[w].keys \cup {i} ELSE tx[w].keys
      BY <1>0, <2>5, VisitFields
    <3>2. tx'[w].phase = "visits"
      BY <1>0, <2>5, RowSteps
    <3>0. /\ DOMAIN tx[w].cache \subseteq tx[w].keys
          /\ \A s \in tx[w].new : s.ip \in DOMAIN tx[w].cache
      BY DEF LocksInv
    <3>3. \A u \in Workers \ {w} : tx'[w].keys \cap tx[u].keys = {}
      BY <2>5, <3>1, VisitAlone DEF LocksInv
    <3>4. CASE NoVisit(w)
      <4>1. tx'[w].new = tx[w].new /\ tx'[w].cache = tx[w].cache
        BY <1>0, <3>4, NoVisitFields
      <4>2. /\ DOMAIN tx'[w].cache \subseteq tx'[w].keys
            /\ \A s \in tx'[w].new : s.ip \in DOMAIN tx'[w].cache
        BY <3>0, <3>1, <4>1
      <4> QED BY <2>0, <3>1, <3>2, <3>3, <4>2
    <3>5. CASE VisitOpens(w)
      <4>1. tx'[w].new = tx[w].new \cup {Opened(w)} /\ pv
            /\ \E e : tx'[w].cache = Put(tx[w].cache, i, e)
        BY <1>0, <3>5, OpensFields
      <4>2. DOMAIN tx'[w].cache = {i} \cup DOMAIN tx[w].cache
        <5>1. PICK e : tx'[w].cache = Put(tx[w].cache, i, e)
          BY <4>1
        <5> HIDE DEF i, pv
        <5>2. DOMAIN Put(tx[w].cache, i, e) = {i} \cup DOMAIN tx[w].cache
          BY PutIs
        <5> QED BY <5>1, <5>2
      <4>3. Opened(w).ip = i
        BY DEF Opened
      <4> HIDE DEF i, pv
      <4>4. /\ DOMAIN tx'[w].cache \subseteq tx'[w].keys
            /\ \A s \in tx'[w].new : s.ip \in DOMAIN tx'[w].cache
        BY <3>0, <3>1, <4>1, <4>2, <4>3
      <4> QED BY <2>0, <3>1, <3>2, <3>3, <4>4
    <3>6. CASE VisitExtends(w)
      <4>1. tx'[w].new = tx[w].new /\ pv
            /\ \E e : tx'[w].cache = Put(tx[w].cache, i, e)
        BY <1>0, <3>6, ExtendsFields
      <4>2. DOMAIN tx'[w].cache = {i} \cup DOMAIN tx[w].cache
        <5>1. PICK e : tx'[w].cache = Put(tx[w].cache, i, e)
          BY <4>1
        <5> HIDE DEF i, pv
        <5>2. DOMAIN Put(tx[w].cache, i, e) = {i} \cup DOMAIN tx[w].cache
          BY PutIs
        <5> QED BY <5>1, <5>2
      <4> HIDE DEF i, pv
      <4>4. /\ DOMAIN tx'[w].cache \subseteq tx'[w].keys
            /\ \A s \in tx'[w].new : s.ip \in DOMAIN tx'[w].cache
        BY <3>0, <3>1, <4>1, <4>2
      <4> QED BY <2>0, <3>1, <3>2, <3>3, <4>4
    <3> QED BY <2>5, <3>4, <3>5, <3>6
  <2> QED BY <1>1, <2>1, <2>2, <2>3, <2>4, <2>5 DEF Work
<1>2. CASE Crash
  <2>1. \A w \in Workers : Blank(tx'[w])
    BY <1>2, BlankIdle DEF Crash
  <2> QED BY <2>1 DEF LocksInv, Blank
<1>3. CASE Statement
  <2>1. tx' = tx
    BY <1>0, <1>3, StatementSteps, MigrateSteps DEF Shape, Deletes, Removes
  <2> QED BY <2>1 DEF LocksInv
<1>4. CASE (\E k \in {"clean", "clear", "rebuild"} : BeginJob(k)) \/ StatementFails \/ UNCHANGED vars
  BY <1>4 DEF BeginJob, StatementFails, vars, LocksInv
<1> QED BY <1>1, <1>2, <1>3, <1>4 DEF Next

----------------------------
(* WHOSE THE SESSIONS ARE THAT ARE NAMED *)

\* What f names for a visitor is a session of that visitor, if there is one.
Own(f, S) == \A i \in DOMAIN f : \A s \in S : s.id = f[i].session => s.ip = i
\* A transaction has looked for the session of each visitor whose session it goes on with.
UpdOwn(t, S) == \A s \in S : s.id \in DOMAIN t.upd => s.ip \in DOMAIN t.cache
OwnInv ==
  /\ Own(sstate, AllSessions)
  /\ \A w \in Workers : Own(tx[w].cache, AllSessions) /\ UpdOwn(tx[w], AllSessions)

\* Every session of T is one of S, with the same id and visitor, or is newer than n.
Older(T, S, n) ==
  \A s \in T : (s.id \in Nat /\ s.id >= n) \/ \E q \in S : q.id = s.id /\ q.ip = s.ip
\* What f names is older than n.
RefsOlder(f, n) == \A i \in DOMAIN f : f[i].session \in Nat /\ f[i].session < n

LEMMA OwnStill ==
  ASSUME NEW T, NEW S, NEW n \in Nat, Older(T, S, n), NEW f, RefsOlder(f, n), Own(f, S)
  PROVE  Own(f, T)
<1> SUFFICES ASSUME NEW i \in DOMAIN f, NEW s \in T, s.id = f[i].session PROVE s.ip = i
  BY DEF Own
<1>1. f[i].session \in Nat /\ f[i].session < n
  BY DEF RefsOlder
<1>2. ~(s.id >= n)
  BY <1>1
<1>3. PICK q \in S : q.id = s.id /\ q.ip = s.ip
  BY <1>2 DEF Older
<1> QED BY <1>3 DEF Own

LEMMA UpdOwnStill ==
  ASSUME NEW T, NEW S, NEW n \in Nat, Older(T, S, n), NEW t, UpdOwn(t, S),
         \A x \in DOMAIN t.upd : x \in Nat /\ x < n
  PROVE  UpdOwn(t, T)
<1> SUFFICES ASSUME NEW s \in T, s.id \in DOMAIN t.upd PROVE s.ip \in DOMAIN t.cache
  BY DEF UpdOwn
<1>2. ~(s.id >= n)
  OBVIOUS
<1>3. PICK q \in S : q.id = s.id /\ q.ip = s.ip
  BY <1>2 DEF Older
<1> QED BY <1>3 DEF UpdOwn

LEMMA OwnOver ==
  ASSUME NEW f, NEW g, NEW S, Own(f, S), Own(g, S)
  PROVE  Own(Over(f, g), S)
<1> DEFINE p == Over(f, g)
<1>0. /\ DOMAIN p = DOMAIN f \cup DOMAIN g
      /\ \A x \in DOMAIN f : p[x] = f[x]
      /\ \A x \in DOMAIN g \ DOMAIN f : p[x] = g[x]
  BY OverIs
<1> HIDE DEF p
<1>1. \A x \in DOMAIN p : (x \in DOMAIN f /\ p[x] = f[x]) \/ (x \in DOMAIN g /\ p[x] = g[x])
  BY <1>0
<1>2. Own(p, S)
  BY <1>1 DEF Own
<1> QED BY <1>2 DEF p

LEMMA OwnPut ==
  ASSUME NEW f, NEW i, NEW e, NEW S, Own(f, S), \A s \in S : s.id = e.session => s.ip = i
  PROVE  Own(Put(f, i, e), S)
<1> DEFINE p == Put(f, i, e)
<1>a. DOMAIN p = {i} \cup DOMAIN f
  BY PutIs
<1>b. p[i] = e
  BY PutIs
<1>c. \A x \in DOMAIN f \ {i} : p[x] = f[x]
  BY PutIs
<1> HIDE DEF p
<1>1. \A x \in DOMAIN p : (p[x] = e /\ x = i) \/ (x \in DOMAIN f /\ p[x] = f[x])
  BY <1>a, <1>b, <1>c
<1>2. Own(p, S)
  BY <1>1 DEF Own
<1> QED BY <1>2 DEF p

LEMMA OwnState ==
  ASSUME NEW S, IsFiniteSet(S), NEW T, S \subseteq T, NEW n,
         \A s \in S : SessionOK(s, n), \A s, q \in T : s.id = q.id => s = q
  PROVE  Own(StateOf(S), T)
<1> SUFFICES ASSUME NEW i \in {s.ip : s \in S}, NEW s \in T, s.id = Latest(S, i).id
             PROVE  s.ip = i
  BY DEF StateOf, Own
<1>1. Latest(S, i) \in S /\ Latest(S, i).ip = i
  BY LatestIs DEF SessionOK
<1>2. s = Latest(S, i)
  BY <1>1
<1> QED BY <1>1, <1>2

LEMMA SessNames ==
  ASSUME SessInv
  PROVE  /\ nextSession \in Nat \ {0} /\ RefsOlder(sstate, nextSession)
         /\ \A w \in Workers : /\ RefsOlder(tx[w].cache, nextSession)
                                /\ \A x \in DOMAIN tx[w].upd : x \in Nat \ {0} /\ x < nextSession
BY DEF SessInv, RefsOK, UpdOK, Named, RefsOlder

\* A step that opens no session, and changes none or forgets all that a transaction
\* has to say of them.
Forgets ==
  /\ sessions' \subseteq sessions
  /\ \A u \in Workers :
       \/ tx'[u].new = tx[u].new /\ tx'[u].cache = tx[u].cache /\ tx'[u].upd = tx[u].upd
       \/ tx'[u].new = {} /\ tx'[u].cache = <<>> /\ tx'[u].upd = <<>>

LEMMA ForgetsOwn ==
  ASSUME SessInv, OwnInv, Forgets, Own(sstate', AllSessions)
  PROVE  OwnInv'
<1>1. AllSessions' \subseteq AllSessions
  BY DEF Forgets, AllSessions
<1>2. \A f : Own(f, AllSessions) => Own(f, AllSessions')
  BY <1>1 DEF Own
<1>3. Own(sstate', AllSessions')
  BY <1>2
<1>4. ASSUME NEW w \in Workers
      PROVE  Own(tx'[w].cache, AllSessions') /\ UpdOwn(tx'[w], AllSessions')
  <2>1. CASE tx'[w].cache = tx[w].cache /\ tx'[w].upd = tx[w].upd
    <3>1. Own(tx[w].cache, AllSessions) /\ UpdOwn(tx[w], AllSessions)
      BY DEF OwnInv
    <3>2. Own(tx'[w].cache, AllSessions')
      BY <1>2, <2>1, <3>1
    <3>3. UpdOwn(tx'[w], AllSessions')
      BY <1>1, <2>1, <3>1 DEF UpdOwn
    <3> QED BY <3>2, <3>3
  <2>2. CASE tx'[w].cache = <<>> /\ tx'[w].upd = <<>>
    BY <2>2 DEF Own, UpdOwn
  <2> QED BY <2>1, <2>2 DEF Forgets
<1> QED BY <1>3, <1>4 DEF OwnInv

LEMMA PlainForgets ==
  ASSUME Shape, NEW w \in Workers,
         Begin(w) \/ DeadlockVictim(w) \/ Fail(w) \/ GetOrCreateDimID(w)
         \/ BulkInsertLogRows(w) \/ NoVisit(w)
  PROVE  Forgets /\ Only(w) /\ UNCHANGED <<sessions, sstate, nextSession>>
<1>1. /\ Only(w) /\ UNCHANGED <<sessions, sstate, nextSession>>
      /\ \/ tx'[w].new = tx[w].new /\ tx'[w].cache = tx[w].cache /\ tx'[w].upd = tx[w].upd
         \/ tx'[w].new = {} /\ tx'[w].cache = <<>> /\ tx'[w].upd = <<>>
  <2>1. CASE Begin(w) \/ DeadlockVictim(w) \/ Fail(w)
    BY <2>1, BlankSteps DEF Blank
  <2>2. CASE GetOrCreateDimID(w)
    BY <2>2, DimFields
  <2>3. CASE BulkInsertLogRows(w)
    BY <2>3, InsertFields
  <2>4. CASE NoVisit(w)
    BY <2>4, VisitFields, NoVisitFields
  <2> QED BY <2>1, <2>2, <2>3, <2>4
<1>2. \A u \in Workers \ {w} : tx'[u] = tx[u]
  BY <1>1 DEF Only
<1> QED BY <1>1, <1>2 DEF Forgets

\* The session that a visit goes on with is one of its visitor.
LEMMA NextOwn ==
  ASSUME SessInv, OwnInv, NEW w \in Workers, NEW s \in AllSessions, s.id = StateOfNext(w).session
  PROVE  s.ip = NextRow(w).ip
<1>1. s.id # 0
  BY DEF SessInv, SessionOK, SessionSet
<1> DEFINE i == NextRow(w).ip
<1>2. \/ i \in DOMAIN tx[w].cache /\ StateOfNext(w) = tx[w].cache[i]
      \/ i \in DOMAIN sstate /\ StateOfNext(w) = sstate[i]
      \/ StateOfNext(w).session = 0
  BY DEF StateOfNext, StateFor, NoState
<1> QED BY <1>1, <1>2 DEF OwnInv, Own

LEMMA OpensOwn ==
  ASSUME Shape, SessInv, OwnInv, NEW w \in Workers, VisitOpens(w)
  PROVE  OwnInv'
<1> DEFINE A == AllSessions
           B == AllSessions'
           n == nextSession
           o == Opened(w)
           i == NextRow(w).ip
           e == [session |-> n, last |-> NextRow(w).line.ts]
<1>0. /\ Only(w) /\ UNCHANGED <<sessions, sstate>> /\ tx'[w].new = tx[w].new \cup {o}
      /\ tx'[w].cache = Put(tx[w].cache, i, e) /\ tx'[w].upd = tx[w].upd
  BY VisitFields, OpensFields
<1>1. o.id = n /\ o.ip = i /\ e.session = n
  BY DEF Opened
<1>2. n \in Nat /\ \A s \in A : s.id \in Nat /\ s.id < n
  BY DEF SessInv, SessionOK, SessionSet
<1> HIDE DEF o, i, e
<1>3. B = A \cup {o}
  BY <1>0 DEF AllSessions, Only
<1>4. Older(B, A, n)
  BY <1>1, <1>2, <1>3 DEF Older
<1>5. Own(sstate', B)
  BY <1>0, <1>2, <1>4, SessNames, OwnStill DEF OwnInv
<1>6. \A u \in Workers : Own(tx[u].cache, B) /\ UpdOwn(tx[u], B)
  <2> TAKE u \in Workers
  <2>1. Own(tx[u].cache, A) /\ UpdOwn(tx[u], A) /\ RefsOlder(tx[u].cache, n)
        /\ \A x \in DOMAIN tx[u].upd : x \in Nat /\ x < n
    BY SessNames DEF OwnInv
  <2> HIDE DEF A, B, n
  <2>2. Own(tx[u].cache, B)
    BY <1>2, <1>4, <2>1, OwnStill
  <2>3. UpdOwn(tx[u], B)
    BY <1>2, <1>4, <2>1, UpdOwnStill
  <2> QED BY <2>2, <2>3
<1>7. Own(tx'[w].cache, B)
  <2>1. \A s \in B : s.id = e.session => s.ip = i
    BY <1>1, <1>2, <1>3
  <2>2. Own(Put(tx[w].cache, i, e), B)
    BY <1>6, <2>1, OwnPut
  <2> QED BY <1>0, <2>2
<1>8. UpdOwn(tx'[w], B)
  <2>1. DOMAIN Put(tx[w].cache, i, e) = {i} \cup DOMAIN tx[w].cache
    BY PutIs
  <2>2. UpdOwn(tx[w], B)
    BY <1>6
  <2> QED BY <1>0, <2>1, <2>2 DEF UpdOwn
<1>9. \A u \in Workers : Own(tx'[u].cache, B) /\ UpdOwn(tx'[u], B)
  <2> TAKE u \in Workers
  <2>1. CASE u = w
    BY <1>7, <1>8, <2>1
  <2>2. CASE u # w
    BY <1>0, <1>6, <2>2 DEF Only
  <2> QED BY <2>1, <2>2
<1> QED BY <1>5, <1>9 DEF OwnInv

LEMMA ExtendsOwn ==
  ASSUME Shape, SessInv, OwnInv, NEW w \in Workers, VisitExtends(w)
  PROVE  OwnInv'
<1> DEFINE A == AllSessions
           x == StateOfNext(w).session
           i == NextRow(w).ip
           e == [session |-> x, last |-> NextRow(w).line.ts]
           v == Extended(w)
<1>0. /\ Only(w) /\ UNCHANGED <<sessions, sstate>> /\ tx'[w].new = tx[w].new
      /\ tx'[w].cache = Put(tx[w].cache, i, e) /\ tx'[w].upd = Put(tx[w].upd, x, v)
  BY VisitFields, ExtendsFields
<1>1. e.session = x
  OBVIOUS
<1>2. \A s \in A : s.id = x => s.ip = i
  BY NextOwn
<1> HIDE DEF i, e, x, v
<1>3. AllSessions' = A
  BY <1>0 DEF AllSessions, Only
<1>4. DOMAIN Put(tx[w].cache, i, e) = {i} \cup DOMAIN tx[w].cache
  BY PutIs
<1>5. DOMAIN Put(tx[w].upd, x, v) = {x} \cup DOMAIN tx[w].upd
  BY PutIs
<1>6. Own(tx[w].cache, A) /\ UpdOwn(tx[w], A) /\ Own(sstate, A)
  BY DEF OwnInv
<1>7. Own(tx'[w].cache, A)
  <2>1. Own(Put(tx[w].cache, i, e), A)
    BY <1>1, <1>2, <1>6, OwnPut
  <2> QED BY <1>0, <2>1
<1>8. UpdOwn(tx'[w], A)
  BY <1>0, <1>2, <1>4, <1>5, <1>6 DEF UpdOwn
<1>9. \A u \in Workers : Own(tx'[u].cache, A) /\ UpdOwn(tx'[u], A)
  <2> TAKE u \in Workers
  <2>1. CASE u = w
    BY <1>7, <1>8, <2>1
  <2>2. CASE u # w
    BY <1>0, <2>2 DEF Only, OwnInv
  <2> QED BY <2>1, <2>2
<1> QED BY <1>0, <1>3, <1>6, <1>9 DEF OwnInv

LEMMA CommitOwn ==
  ASSUME SessInv, OwnInv, NEW w \in Workers, Rewrites(w)
  PROVE  OwnInv'
<1> DEFINE A == AllSessions
           B == AllSessions'
           n == nextSession
<1>0. Only(w) /\ Blank(tx'[w]) /\ sstate' = Over(tx[w].cache, sstate)
  BY BlankIdle DEF Rewrites
<1>1. Older(B, A, n)
  <2> SUFFICES ASSUME NEW s \in B PROVE \E q \in A : q.id = s.id /\ q.ip = s.ip
    BY DEF Older
  <2>1. PICK q \in A :
           /\ s.id = q.id
           /\ \/ q \in sessions \cup tx[w].new /\ s = Updated(q, tx[w].upd)
              \/ s = q
    BY CommitOrigins
  <2>2. SessionOK(q, n) /\ UpdOK(tx[w].upd, A, n)
    BY DEF SessInv
  <2>3. Updated(q, tx[w].upd).ip = q.ip
    BY <2>2, UpdatedIs
  <2> QED BY <2>1, <2>3
<1>2. \A u \in Workers : Own(tx[u].cache, B) /\ UpdOwn(tx[u], B)
  <2> TAKE u \in Workers
  <2>1. Own(tx[u].cache, A) /\ UpdOwn(tx[u], A) /\ RefsOlder(tx[u].cache, n) /\ n \in Nat
        /\ \A x \in DOMAIN tx[u].upd : x \in Nat /\ x < n
    BY SessNames DEF OwnInv
  <2> HIDE DEF A, B, n
  <2>2. Own(tx[u].cache, B)
    BY <1>1, <2>1, OwnStill
  <2>3. UpdOwn(tx[u], B)
    BY <1>1, <2>1, UpdOwnStill
  <2> QED BY <2>2, <2>3
<1>3. Own(sstate, B)
  <2>1. Own(sstate, A) /\ RefsOlder(sstate, n) /\ n \in Nat
    BY SessNames DEF OwnInv
  <2> HIDE DEF A, B, n
  <2> QED BY <1>1, <2>1, OwnStill
<1>4. Own(sstate', B)
  BY <1>0, <1>2, <1>3, OwnOver
<1>5. \A u \in Workers : Own(tx'[u].cache, B) /\ UpdOwn(tx'[u], B)
  <2> TAKE u \in Workers
  <2>1. CASE u = w
    <3>1. tx'[w].cache = <<>> /\ tx'[w].upd = <<>>
      BY <1>0 DEF Blank
    <3> QED BY <2>1, <3>1 DEF Own, UpdOwn
  <2>2. CASE u # w
    BY <1>0, <1>2, <2>2 DEF Only
  <2> QED BY <2>1, <2>2
<1> QED BY <1>4, <1>5 DEF OwnInv

LEMMA ResessionOwn ==
  ASSUME RowsInv, SessInv, OwnInv, Resession, tx' = tx
  PROVE  OwnInv'
<1> DEFINE A == AllSessions
           B == AllSessions'
           n == nextSession
<1>1. /\ \A s \in sessions' : SessionOK(s, nextSession') /\ s.id >= n
      /\ IsFiniteSet(sessions') /\ sstate' = StateOf(sessions')
  BY Resessions
<1>2. SessInv'
  BY ResessionSessions
<1>3. B = sessions' \cup UNION {tx[u].new : u \in Workers}
  BY DEF AllSessions
<1>4. Older(B, A, n)
  BY <1>1, <1>3 DEF Older, SessionOK, SessionSet, AllSessions
<1>5. \A s, q \in B : s.id = q.id => s = q
  BY <1>2 DEF SessInv
<1>6. \A u \in Workers : Own(tx[u].cache, B) /\ UpdOwn(tx[u], B)
  <2> TAKE u \in Workers
  <2>1. Own(tx[u].cache, A) /\ UpdOwn(tx[u], A) /\ RefsOlder(tx[u].cache, n) /\ n \in Nat
        /\ \A x \in DOMAIN tx[u].upd : x \in Nat /\ x < n
    BY SessNames DEF OwnInv
  <2> HIDE DEF A, B, n
  <2>2. Own(tx[u].cache, B)
    BY <1>4, <2>1, OwnStill
  <2>3. UpdOwn(tx[u], B)
    BY <1>4, <2>1, UpdOwnStill
  <2> QED BY <2>2, <2>3
<1>7. Own(sstate', B)
  <2>1. sessions' \subseteq B
    BY <1>3
  <2> HIDE DEF B
  <2> QED BY <1>1, <1>5, <2>1, OwnState
<1> QED BY <1>6, <1>7 DEF OwnInv

\* What a statement of a job does to the session table and to session_state.
Rests ==
  /\ UNCHANGED <<sessions, sstate, nextSession, blurred>>
  /\ {"state", "pages", "pagesCut"} \cap lag \subseteq lag'
LEMMA SessionMoves ==
  ASSUME Statement
  PROVE  \/ Rests
         \/ DeleteOldSessions \/ DeleteState \/ InsertState \/ ClearSessions \/ ClearState
         \/ Resession
<1>1. CASE \/ DeleteOldRows \/ DeleteRows \/ DeleteRange \/ DeleteOrphans \/ ClearDims \/ Migrate
  BY <1>1 DEF DeleteOldRows, DeleteRows, DeleteRange, DeleteOrphans, ClearDims, Migrate,
     RemoveRows, RemoveIds, visitTables, Rests
<1>2. CASE \/ DeleteOldBuckets \/ RebuildHour \/ RebuildDay
           \/ BackfillAggregates \/ AggregatesIfEmpty \/ ClearAggregates
  BY <1>2 DEF DeleteOldBuckets, RebuildHour, RebuildDay, BackfillAggregates,
     AggregatesIfEmpty, ClearAggregates, Recount, SetCounts, visitTables, history, Rests
<1>3. CASE BackfillFirstSeen \/ FirstSeenIfEmpty \/ ClearFirstSeen
  BY <1>3 DEF BackfillFirstSeen, FirstSeenIfEmpty, ClearFirstSeen, SetFirstSeen, visitTables,
     history, Rests
<1>4. CASE DeleteOldSessions \/ DeleteState \/ InsertState \/ ClearSessions \/ ClearState
  BY <1>4
<1>5. CASE BackfillSessions \/ SessionsIfEmpty
  BY <1>5 DEF BackfillSessions, SessionsIfEmpty, visitTables, history, Rests
<1>6. CASE DeleteOldSessionDays \/ RebuildSessionDay \/ BackfillSessionAggs \/ SessionAggsIfEmpty
           \/ ClearSessionAggs
  BY <1>6 DEF DeleteOldSessionDays, RebuildSessionDay, BackfillSessionAggs,
     SessionAggsIfEmpty, ClearSessionAggs, RecountSessions, SetSessionAggs, visitTables, history,
     Rests
<1> QED BY <1>1, <1>2, <1>3, <1>4, <1>5, <1>6 DEF Statement

\* What the others of them write.
LEMMA SessionWrites ==
  /\ DeleteOldSessions => /\ sessions' = {s \in sessions : s.start >= Cutoff} /\ sstate' = sstate
                          /\ lag' = (lag \cup {"sessCut", "state"}) \ {"pagesCut"}
                          /\ blurred' = blurred \cup KeysHeld /\ At("DeleteOldSessions")
  /\ DeleteState => /\ sessions' = sessions /\ sstate' = <<>> /\ lag' = lag \cup {"state"}
                    /\ blurred' = blurred \cup KeysHeld /\ At("DeleteState")
  /\ InsertState => /\ sessions' = sessions /\ sstate' = Over(StateOf(sessions), sstate)
                    /\ lag' = lag \ {"state"} /\ blurred' = blurred \cup KeysHeld
                    /\ At("InsertState")
  /\ ClearSessions => /\ sessions' = {} /\ sstate' = sstate
                      /\ lag' = (lag \cup {"state", "sessions"}) \ {"pages", "pagesCut"}
                      /\ blurred' = blurred \cup KeysHeld /\ At("ClearSessions")
  /\ ClearState => /\ sessions' = sessions /\ sstate' = <<>>
                   /\ lag' = lag \ (IF overlap THEN {} ELSE {"state"})
                   /\ blurred' = blurred \cup KeysHeld /\ At("ClearState")
<1>1. DeleteOldSessions => /\ sessions' = {s \in sessions : s.start >= Cutoff} /\ sstate' = sstate
                           /\ lag' = (lag \cup {"sessCut", "state"}) \ {"pagesCut"}
                           /\ blurred' = blurred \cup KeysHeld /\ At("DeleteOldSessions")
  BY DEF DeleteOldSessions, SetSessions
<1>2. DeleteState => /\ sessions' = sessions /\ sstate' = <<>> /\ lag' = lag \cup {"state"}
                     /\ blurred' = blurred \cup KeysHeld /\ At("DeleteState")
  BY DEF DeleteState, SetSessions
<1>3. InsertState => /\ sessions' = sessions /\ sstate' = Over(StateOf(sessions), sstate)
                     /\ lag' = lag \ {"state"} /\ blurred' = blurred \cup KeysHeld
                     /\ At("InsertState")
  BY DEF InsertState, SetSessions
<1>4. ClearSessions => /\ sessions' = {} /\ sstate' = sstate
                       /\ lag' = (lag \cup {"state", "sessions"}) \ {"pages", "pagesCut"}
                       /\ blurred' = blurred \cup KeysHeld /\ At("ClearSessions")
  BY DEF ClearSessions, SetSessions
<1>5. ClearState => /\ sessions' = sessions /\ sstate' = <<>>
                    /\ lag' = lag \ (IF overlap THEN {} ELSE {"state"})
                    /\ blurred' = blurred \cup KeysHeld /\ At("ClearState")
  BY DEF ClearState, SetSessions
<1> QED BY <1>1, <1>2, <1>3, <1>4, <1>5

LEMMA OwnStep ==
  ASSUME IdsInv, RowsInv, SessInv, OwnInv, [Next]_vars
  PROVE  OwnInv'
<1>0. Shape /\ Own(sstate, AllSessions)
  BY DEF IdsInv, OwnInv
<1>1. ASSUME NEW w \in Workers, Begin(w) \/ Work(w) \/ Fail(w) PROVE OwnInv'
  <2>1. CASE Begin(w) \/ DeadlockVictim(w) \/ Fail(w) \/ GetOrCreateDimID(w)
             \/ BulkInsertLogRows(w) \/ NoVisit(w)
    <3>1. Forgets /\ sstate' = sstate
      BY <1>0, <2>1, PlainForgets
    <3> QED BY <1>0, <3>1, ForgetsOwn
  <2>2. CASE VisitOpens(w)
    BY <1>0, <2>2, OpensOwn
  <2>3. CASE VisitExtends(w)
    BY <1>0, <2>3, ExtendsOwn
  <2>4. CASE Commit(w)
    BY <1>0, <2>4, CommitRewrites, CommitOwn
  <2> QED BY <1>1, <2>1, <2>2, <2>3, <2>4 DEF Work
<1>2. CASE Statement
  <2>0. tx' = tx
    BY <1>0, <1>2, StatementSteps, MigrateSteps DEF Shape, Deletes, Removes
  <2>1. CASE Resession
    BY <2>0, <2>1, ResessionOwn
  <2>2. CASE ~Resession
    <3>1. /\ sessions' \subseteq sessions
          /\ sstate' \in {sstate, <<>>, Over(StateOf(sessions), sstate)}
      BY <1>2, <2>2, SessionMoves, SessionWrites DEF Rests
    <3>2. Forgets
      BY <2>0, <3>1 DEF Forgets
    <3>3. Own(<<>>, AllSessions)
      BY DEF Own
    <3>4. Own(StateOf(sessions), AllSessions)
      <4> DEFINE A == AllSessions
                 n == nextSession
      <4>1. sessions \subseteq A
        BY DEF AllSessions
      <4>2. /\ IsFiniteSet(sessions) /\ \A s \in A : SessionOK(s, n)
            /\ \A s, q \in A : s.id = q.id => s = q
        BY DEF SessInv
      <4> HIDE DEF A
      <4>3. Own(StateOf(sessions), A)
        BY <4>1, <4>2, OwnState
      <4> QED BY <4>3 DEF A
    <3>5. Own(Over(StateOf(sessions), sstate), AllSessions)
      BY <1>0, <3>4, OwnOver
    <3> QED BY <1>0, <3>1, <3>2, <3>3, <3>5, ForgetsOwn
  <2> QED BY <2>1, <2>2
<1>3. CASE Crash
  <2>1. sessions' = sessions /\ sstate' = sstate /\ \A w \in Workers : Blank(tx'[w])
    BY <1>3, BlankIdle DEF Crash, visitTables
  <2>2. Forgets
    BY <2>1 DEF Forgets, Blank
  <2> QED BY <1>0, <2>1, <2>2, ForgetsOwn
<1>4. CASE (\E k \in {"clean", "clear", "rebuild"} : BeginJob(k)) \/ StatementFails \/ UNCHANGED vars
  <2>1. UNCHANGED <<sessions, sstate, tx>>
    BY <1>4 DEF BeginJob, StatementFails, vars, visitTables
  <2>2. Forgets
    BY <2>1 DEF Forgets
  <2> QED BY <1>0, <2>1, <2>2, ForgetsOwn
<1> QED BY <1>1, <1>2, <1>3, <1>4 DEF Next

----------------------------
(* WHAT A TRANSACTION WOULD LEAVE OF THE SESSIONS *)

\* The session table if the transaction t committed, and the part of a visitor.
TableOf(S, t) == {Updated(s, t.upd) : s \in S \cup t.new}
Of(S, i) == {s \in S : s.ip = i}

LEMMA UpdatedOne ==
  ASSUME SessInv, NEW w \in Workers, NEW s \in sessions \cup tx[w].new
  PROVE  LET q == Updated(s, tx[w].upd) IN
         /\ s \in AllSessions /\ SessionOK(s, nextSession) /\ SessionOK(q, nextSession)
         /\ q.id = s.id /\ q.ip = s.ip /\ q.start = s.start
<1>1. s \in AllSessions /\ SessionOK(s, nextSession) /\ UpdOK(tx[w].upd, AllSessions, nextSession)
  BY DEF SessInv, AllSessions
<1> QED BY <1>1, UpdatedIs

\* A transaction touches no session of a visitor it has not looked for.
LEMMA TableAlone ==
  ASSUME SessInv, LocksInv, OwnInv, NEW w \in Workers, NEW i, i \notin DOMAIN tx[w].cache
  PROVE  Of(TableOf(sessions, tx[w]), i) = Of(sessions, i)
<1> DEFINE t == tx[w]
<1>0. /\ UpdOwn(t, AllSessions) /\ sessions \subseteq AllSessions /\ t.new \subseteq AllSessions
      /\ \A s \in t.new : s.ip \in DOMAIN t.cache
  BY DEF OwnInv, AllSessions, LocksInv
<1>1. \A s \in sessions \cup t.new : Updated(s, t.upd).ip = s.ip
  BY UpdatedOne
<1>2. \A s \in sessions : s.ip = i => Updated(s, t.upd) = s
  BY <1>0 DEF UpdOwn, Updated
<1>3. \A q \in TableOf(sessions, t) : q.ip = i => q \in sessions
  BY <1>0, <1>1, <1>2 DEF TableOf
<1>4. \A s \in sessions : s.ip = i => s \in TableOf(sessions, t)
  BY <1>2 DEF TableOf
<1> QED BY <1>3, <1>4 DEF Of

LEMMA CommitTable ==
  ASSUME NEW w \in Workers, Rewrites(w)
  PROVE  sessions' = TableOf(sessions, tx[w])
BY DEF Rewrites, TableOf

\* The part of a visitor depends on the part of that visitor.
LEMMA TableLike ==
  ASSUME NEW S, NEW T, NEW t, NEW i, Of(S, i) = Of(T, i),
         \A s \in S \cup T \cup t.new : Updated(s, t.upd).ip = s.ip
  PROVE  Of(TableOf(S, t), i) = Of(TableOf(T, t), i)
<1>1. \A s : s.ip = i => (s \in S <=> s \in T)
  BY DEF Of
<1>2. \A q \in TableOf(S, t) : q.ip = i => q \in TableOf(T, t)
  BY <1>1 DEF TableOf
<1>3. \A q \in TableOf(T, t) : q.ip = i => q \in TableOf(S, t)
  BY <1>1 DEF TableOf
<1> QED BY <1>2, <1>3 DEF Of

\* A commit changes nothing for a visitor that another transaction has looked for.
LEMMA CommitOthers ==
  ASSUME SessInv, LocksInv, OwnInv, NEW w \in Workers, Rewrites(w), NEW i,
         i \notin DOMAIN tx[w].cache
  PROVE  /\ Of(sessions', i) = Of(sessions, i)
         /\ \A u \in Workers \ {w} :
              Of(TableOf(sessions', tx'[u]), i) = Of(TableOf(sessions, tx[u]), i)
<1>1. Of(sessions', i) = Of(sessions, i)
  BY CommitTable, TableAlone
<1>2. ASSUME NEW u \in Workers \ {w}
      PROVE  Of(TableOf(sessions', tx'[u]), i) = Of(TableOf(sessions, tx[u]), i)
  <2>1. tx'[u] = tx[u]
    BY DEF Rewrites, Only
  <2>2. SessInv'
    BY CommitSessions
  <2>3. UpdOK(tx[u].upd, AllSessions', nextSession')
    BY <2>1, <2>2 DEF SessInv
  <2>4. \A s \in AllSessions' : SessionOK(s, nextSession')
    BY <2>2 DEF SessInv
  <2> DEFINE B == AllSessions'
             m == nextSession'
  <2>5. sessions' \subseteq B
    BY DEF AllSessions
  <2>6. \A s \in sessions' : Updated(s, tx[u].upd).ip = s.ip
    <3> TAKE s \in sessions'
    <3>1. s \in B /\ SessionOK(s, m) /\ UpdOK(tx[u].upd, B, m)
      BY <2>3, <2>4, <2>5
    <3> HIDE DEF B, m
    <3> QED BY <3>1, UpdatedIs
  <2>7. \A s \in sessions \cup tx[u].new : Updated(s, tx[u].upd).ip = s.ip
    BY UpdatedOne
  <2>8. Of(TableOf(sessions', tx[u]), i) = Of(TableOf(sessions, tx[u]), i)
    BY <1>1, <2>6, <2>7, TableLike
  <2> QED BY <2>1, <2>8
<1> QED BY <1>1, <1>2

----------------------------
(* WHEN THE SESSIONS END THAT ARE NAMED *)

\* A session of P that the entry e names ends when e says.
EndOK(e, P) == \A s \in P : s.id = e.session => s.end = e.last
EndsInv ==
  /\ \A i \in DOMAIN sstate : EndOK(sstate[i], Of(sessions, i))
  /\ \A w \in Workers :
       /\ \A i \in DOMAIN tx[w].cache : EndOK(tx[w].cache[i], Of(TableOf(sessions, tx[w]), i))
       /\ \A s \in sessions \cup tx[w].new : s.end <= Updated(s, tx[w].upd).end

LEMMA TableIds ==
  ASSUME SessInv, NEW w \in Workers
  PROVE  /\ \A p \in TableOf(sessions, tx[w]) :
              /\ SessionOK(p, nextSession)
              /\ \E q \in sessions \cup tx[w].new :
                   p = Updated(q, tx[w].upd) /\ p.id = q.id /\ p.ip = q.ip /\ p.start = q.start
         /\ \A p, r \in TableOf(sessions, tx[w]) : p.id = r.id => p = r
<1>1. ASSUME NEW p \in TableOf(sessions, tx[w])
      PROVE  /\ SessionOK(p, nextSession)
             /\ \E q \in sessions \cup tx[w].new :
                   /\ p = Updated(q, tx[w].upd) /\ p.id = q.id /\ p.ip = q.ip /\ p.start = q.start
                   /\ q \in AllSessions
  <2>1. PICK q \in sessions \cup tx[w].new : p = Updated(q, tx[w].upd)
    BY DEF TableOf
  <2> QED BY <2>1, UpdatedOne
<1>2. \A p, r \in TableOf(sessions, tx[w]) : p.id = r.id => p = r
  <2> SUFFICES ASSUME NEW p \in TableOf(sessions, tx[w]), NEW r \in TableOf(sessions, tx[w]),
                      p.id = r.id
               PROVE  p = r
    OBVIOUS
  <2>1. PICK q \in sessions \cup tx[w].new :
               p = Updated(q, tx[w].upd) /\ p.id = q.id /\ q \in AllSessions
    BY <1>1
  <2>2. PICK z \in sessions \cup tx[w].new :
               r = Updated(z, tx[w].upd) /\ r.id = z.id /\ z \in AllSessions
    BY <1>1
  <2>3. q = z
    BY <2>1, <2>2 DEF SessInv
  <2> QED BY <2>1, <2>2, <2>3
<1> QED BY <1>1, <1>2

\* A transaction that opens a session, and one that goes on with one.
LEMMA OpensTable ==
  ASSUME Shape, RowsInv, VisitsInv, SessInv, NEW w \in Workers, VisitOpens(w)
  PROVE  LET T == TableOf(sessions, tx[w])
             X == TableOf(sessions', tx'[w])
             i == NextRow(w).ip
         IN  /\ \A j : j # i => Of(X, j) = Of(T, j)
             /\ Of(X, i) = Of(T, i) \cup {Opened(w)}
             /\ \A s \in T : s.id \in Nat \ {0} /\ s.id < nextSession
<1> DEFINE t == tx[w]
           o == Opened(w)
           T == TableOf(sessions, t)
           X == TableOf(sessions', tx'[w])
           i == NextRow(w).ip
<1>1. sessions' = sessions /\ tx'[w].new = t.new \cup {o} /\ tx'[w].upd = t.upd
  BY VisitFields, OpensFields
<1>2. o.id = nextSession /\ o.ip = i
  BY DEF Opened
<1>3. nextSession \notin DOMAIN t.upd
  BY SessNames
<1>4. Updated(o, t.upd) = o
  BY <1>2, <1>3 DEF Updated
<1> HIDE DEF o, i
<1>5. X = T \cup {o}
  BY <1>1, <1>4 DEF TableOf
<1>6. \A s \in T : s.id \in Nat \ {0} /\ s.id < nextSession
  BY TableIds DEF SessionOK, SessionSet
<1> HIDE DEF X, T
<1> QED BY <1>2, <1>5, <1>6 DEF Of, X, T, o, i

LEMMA ExtendsTable ==
  ASSUME Shape, RowsInv, VisitsInv, SessInv, OwnInv, NEW w \in Workers, VisitExtends(w),
         NEW q \in sessions \cup tx[w].new
  PROVE  LET p == Updated(q, tx[w].upd)
             z == Updated(q, tx'[w].upd)
             x == StateOfNext(w).session
         IN  /\ q.id # x => z = p
             /\ q.id = x => /\ z.end = NextRow(w).line.ts /\ z.pages = p.pages + 1
                            /\ z.id = p.id /\ z.ip = p.ip /\ z.start = p.start
                            /\ q.ip = NextRow(w).ip
<1> DEFINE x == StateOfNext(w).session
           v == Extended(w)
           f == tx[w].upd
           ts == NextRow(w).line.ts
<1>1. tx'[w].upd = Put(f, x, v) /\ tx[w].visits # <<>>
  BY VisitFields, ExtendsFields
<1>2. q \in AllSessions /\ SessionOK(q, nextSession) /\ q.pages \in Nat
  BY UpdatedOne DEF SessionOK, SessionSet
<1>3. ts \in Nat /\ v.end = ts /\ v.pages = (IF x \in DOMAIN f THEN f[x].pages ELSE 0) + 1
  BY <1>1, VisitRow DEF Extended
<1>4. \A y \in DOMAIN f : f[y].pages \in Nat \ {0}
  BY DEF SessInv, UpdOK
<1>5. q.id = x => q.ip = NextRow(w).ip
  BY <1>2, NextOwn
<1> HIDE DEF v, f, ts, x
<1>6. /\ DOMAIN Put(f, x, v) = {x} \cup DOMAIN f /\ Put(f, x, v)[x] = v
      /\ \A y \in DOMAIN f \ {x} : Put(f, x, v)[y] = f[y]
  <2>1. DOMAIN Put(f, x, v) = {x} \cup DOMAIN f
    BY PutIs
  <2>2. Put(f, x, v)[x] = v
    BY PutIs
  <2>3. \A y \in DOMAIN f \ {x} : Put(f, x, v)[y] = f[y]
    BY PutIs
  <2> QED BY <2>1, <2>2, <2>3
<1> DEFINE g == Put(f, x, v)
<1> HIDE DEF g
<1>7. CASE q.id # x
  <2>1. Updated(q, g) = Updated(q, f)
    BY <1>6, <1>7 DEF Updated, g
  <2> QED BY <1>1, <1>7, <2>1 DEF f, x, g
<1>8. CASE q.id = x
  <2> DEFINE c == q.pages + v.pages
  <2>1. Updated(q, g) = [q EXCEPT !.end = v.end, !.exit = v.exit, !.pages = c]
    BY <1>6, <1>8 DEF Updated, g
  <2>2. CASE x \in DOMAIN f
    <3> DEFINE d == q.pages + f[x].pages
    <3>1. Updated(q, f) = [q EXCEPT !.end = f[x].end, !.exit = f[x].exit, !.pages = d]
      BY <1>8, <2>2 DEF Updated
    <3>2. c = d + 1
      BY <1>2, <1>3, <1>4, <2>2
    <3> HIDE DEF c, d
    <3>3. LET p == Updated(q, f)
              z == Updated(q, g)
          IN  z.end = ts /\ z.pages = p.pages + 1 /\ z.id = p.id /\ z.ip = p.ip /\ z.start = p.start
      BY <1>2, <1>3, <2>1, <3>1, <3>2 DEF SessionOK, SessionSet
    <3> QED BY <1>1, <1>5, <1>8, <3>3 DEF f, x, g, ts
  <2>3. CASE x \notin DOMAIN f
    <3>1. Updated(q, f) = q
      BY <1>8, <2>3 DEF Updated
    <3>2. c = q.pages + 1
      BY <1>2, <1>3, <2>3
    <3> HIDE DEF c
    <3>3. LET z == Updated(q, g)
          IN  z.end = ts /\ z.pages = q.pages + 1 /\ z.id = q.id /\ z.ip = q.ip /\ z.start = q.start
      BY <1>2, <1>3, <2>1, <3>2 DEF SessionOK, SessionSet
    <3> QED BY <1>1, <1>5, <1>8, <3>1, <3>3 DEF f, x, g, ts
  <2> QED BY <2>2, <2>3
<1> QED BY <1>7, <1>8

\* The sessions of the visitor before and after.
LEMMA ExtendsOf ==
  ASSUME Shape, RowsInv, VisitsInv, SessInv, OwnInv, NEW w \in Workers, VisitExtends(w)
  PROVE  LET T == TableOf(sessions, tx[w])
             X == TableOf(sessions', tx'[w])
             x == StateOfNext(w).session
             i == NextRow(w).ip
         IN  /\ \A j : j # i => Of(X, j) = Of(T, j)
             /\ \A z \in Of(X, i) : \E p \in Of(T, i) :
                  /\ p.id = z.id /\ p.start = z.start
                  /\ p.id # x => z = p
                  /\ p.id = x => z.end = NextRow(w).line.ts
             /\ \A p \in Of(T, i) : \E z \in Of(X, i) : z.id = p.id
<1> DEFINE t == tx[w]
           n == tx'[w]
           T == TableOf(sessions, t)
           X == TableOf(sessions', n)
           x == StateOfNext(w).session
           i == NextRow(w).ip
           D == sessions \cup t.new
           ts == NextRow(w).line.ts
<1>1. sessions' = sessions /\ n.new = t.new
  BY VisitFields, ExtendsFields
<1>2. X = {Updated(q, n.upd) : q \in D} /\ T = {Updated(q, t.upd) : q \in D}
  BY <1>1 DEF TableOf
<1>3. \A q \in D :
         LET p == Updated(q, t.upd)
             z == Updated(q, n.upd)
         IN  /\ z.id = p.id /\ z.ip = p.ip /\ z.start = p.start /\ p.id = q.id /\ p.ip = q.ip
             /\ q.id # x => z = p
             /\ q.id = x => z.end = ts /\ p.ip = i
  <2> TAKE q \in D
  <2> DEFINE p == Updated(q, t.upd)
             z == Updated(q, n.upd)
  <2>1. q.id # x => z = p
    BY ExtendsTable
  <2>2. q.id = x => z.end = ts /\ z.id = p.id /\ z.ip = p.ip /\ z.start = p.start /\ q.ip = i
    BY ExtendsTable
  <2>3. p.id = q.id /\ p.ip = q.ip
    BY UpdatedOne
  <2> HIDE DEF p, z, x, i
  <2> QED BY <2>1, <2>2, <2>3 DEF p, z
<1> HIDE DEF x, i, ts, D, X, T
<1>4. ASSUME NEW j, j # i PROVE Of(X, j) = Of(T, j)
  <2>1. \A z \in X : z.ip = j => z \in T
    BY <1>2, <1>3, <1>4
  <2>2. \A p \in T : p.ip = j => p \in X
    BY <1>2, <1>3, <1>4
  <2> QED BY <2>1, <2>2 DEF Of
<1>5. \A z \in X : \E p \in T : /\ p.id = z.id /\ p.start = z.start /\ p.ip = z.ip
                                /\ p.id # x => z = p
                                /\ p.id = x => z.end = ts
  BY <1>2, <1>3
<1>6. \A p \in T : \E z \in X : z.id = p.id /\ z.ip = p.ip
  BY <1>2, <1>3
<1>7. \A z \in Of(X, i) : \E p \in Of(T, i) : /\ p.id = z.id /\ p.start = z.start
                                              /\ p.id # x => z = p
                                              /\ p.id = x => z.end = ts
  BY <1>5 DEF Of
<1>8. \A p \in Of(T, i) : \E z \in Of(X, i) : z.id = p.id
  BY <1>6 DEF Of
<1> QED BY <1>4, <1>7, <1>8 DEF x, i, ts, X, T

\* The entry that the next visit is compared with.
LEMMA NextEnds ==
  ASSUME SessInv, LocksInv, OwnInv, EndsInv, NEW w \in Workers
  PROVE  EndOK(StateOfNext(w), Of(TableOf(sessions, tx[w]), NextRow(w).ip))
<1> DEFINE i == NextRow(w).ip
           P == Of(TableOf(sessions, tx[w]), i)
<1>1. CASE i \in DOMAIN tx[w].cache
  BY <1>1 DEF StateOfNext, StateFor, EndsInv
<1>2. CASE i \notin DOMAIN tx[w].cache /\ i \in DOMAIN sstate
  <2>1. P = Of(sessions, i)
    BY <1>2, TableAlone
  <2>2. StateOfNext(w) = sstate[i]
    BY <1>2 DEF StateOfNext, StateFor
  <2> QED BY <1>2, <2>1, <2>2 DEF EndsInv
<1>3. CASE i \notin DOMAIN tx[w].cache /\ i \notin DOMAIN sstate
  <2>1. StateOfNext(w).session = 0
    BY <1>3 DEF StateOfNext, StateFor, NoState
  <2>2. \A s \in P : s.id # 0
    BY TableIds DEF Of, SessionOK, SessionSet
  <2> QED BY <2>1, <2>2 DEF EndOK
<1> QED BY <1>1, <1>2, <1>3

\* A table that says nothing of updates is what it was.
LEMMA TableSame ==
  ASSUME NEW S, NEW t, NEW m, m.new = t.new, m.upd = t.upd
  PROVE  TableOf(S, m) = TableOf(S, t)
BY DEF TableOf

LEMMA OfSmaller ==
  ASSUME NEW S, NEW T, T \subseteq S
  PROVE  /\ \A i : Of(T, i) \subseteq Of(S, i)
         /\ \A t : TableOf(T, t) \subseteq TableOf(S, t)
BY DEF Of, TableOf

LEMMA EndSmaller ==
  ASSUME NEW P, NEW Q, Q \subseteq P, NEW e, EndOK(e, P)
  PROVE  EndOK(e, Q)
BY DEF EndOK

LEMMA ForgetsEnds ==
  ASSUME SessInv, EndsInv, Forgets, \A i \in DOMAIN sstate' : EndOK(sstate'[i], Of(sessions', i))
  PROVE  EndsInv'
<1>1. ASSUME NEW w \in Workers
      PROVE  /\ \A i \in DOMAIN tx'[w].cache :
                  EndOK(tx'[w].cache[i], Of(TableOf(sessions', tx'[w]), i))
             /\ \A s \in sessions' \cup tx'[w].new : s.end <= Updated(s, tx'[w].upd).end
  <2>1. CASE tx'[w].new = tx[w].new /\ tx'[w].cache = tx[w].cache /\ tx'[w].upd = tx[w].upd
    <3>1. TableOf(sessions', tx'[w]) = TableOf(sessions', tx[w])
      BY <2>1, TableSame
    <3>2. TableOf(sessions', tx[w]) \subseteq TableOf(sessions, tx[w])
      BY OfSmaller DEF Forgets
    <3>3. \A i : Of(TableOf(sessions', tx'[w]), i) \subseteq Of(TableOf(sessions, tx[w]), i)
      BY <3>1, <3>2, OfSmaller
    <3>4. \A i \in DOMAIN tx[w].cache : EndOK(tx[w].cache[i], Of(TableOf(sessions, tx[w]), i))
      BY DEF EndsInv
    <3>5. \A i \in DOMAIN tx[w].cache : EndOK(tx[w].cache[i], Of(TableOf(sessions', tx'[w]), i))
      BY <3>3, <3>4, EndSmaller
    <3>6. \A s \in sessions' \cup tx'[w].new : s.end <= Updated(s, tx'[w].upd).end
      BY <2>1 DEF EndsInv, Forgets
    <3> QED BY <2>1, <3>5, <3>6
  <2>2. CASE tx'[w].new = {} /\ tx'[w].cache = <<>> /\ tx'[w].upd = <<>>
    <3>1. \A s : Updated(s, <<>>) = s
      BY DEF Updated
    <3>2. \A s \in sessions' : s.end \in Nat
      BY DEF Forgets, SessInv, AllSessions, SessionOK, SessionSet
    <3>3. \A s \in sessions' \cup tx'[w].new : s.end <= Updated(s, tx'[w].upd).end
      BY <2>2, <3>1, <3>2
    <3> QED BY <2>2, <3>3
  <2> QED BY <2>1, <2>2 DEF Forgets
<1> QED BY <1>1 DEF EndsInv

\* What the entry of a visitor in session_state says when it is computed.
LEMMA StateEnds ==
  ASSUME NEW S, IsFiniteSet(S), NEW n, \A s \in S : SessionOK(s, n),
         \A s, q \in S : s.id = q.id => s = q
  PROVE  \A i \in DOMAIN StateOf(S) : EndOK(StateOf(S)[i], Of(S, i))
<1> SUFFICES ASSUME NEW i \in {s.ip : s \in S}, NEW s \in S, s.id = Latest(S, i).id
             PROVE  s.end = Latest(S, i).end
  BY DEF StateOf, EndOK, Of
<1>1. Latest(S, i) \in S
  BY LatestIs DEF SessionOK
<1> QED BY <1>1

LEMMA OverEach ==
  ASSUME NEW f, NEW g, NEW i \in DOMAIN Over(f, g)
  PROVE  \/ i \in DOMAIN f /\ Over(f, g)[i] = f[i]
         \/ i \in DOMAIN g \ DOMAIN f /\ Over(f, g)[i] = g[i]
<1>1. DOMAIN Over(f, g) = DOMAIN f \cup DOMAIN g
  BY OverIs
<1>2. \A x \in DOMAIN f : Over(f, g)[x] = f[x]
  BY OverIs
<1>3. \A x \in DOMAIN g \ DOMAIN f : Over(f, g)[x] = g[x]
  BY OverIs
<1> QED BY <1>1, <1>2, <1>3

LEMMA PutEach ==
  ASSUME NEW f, NEW k, NEW e, NEW i \in DOMAIN Put(f, k, e)
  PROVE  \/ i = k /\ Put(f, k, e)[i] = e
         \/ i \in DOMAIN f /\ i # k /\ Put(f, k, e)[i] = f[i]
<1>1. DOMAIN Put(f, k, e) = {k} \cup DOMAIN f
  BY PutIs
<1>2. Put(f, k, e)[k] = e
  BY PutIs
<1>3. \A x \in DOMAIN f \ {k} : Put(f, k, e)[x] = f[x]
  BY PutIs
<1> QED BY <1>1, <1>2, <1>3

\* The visits leave the others, and what is committed, as it is.
LEMMA VisitEnds ==
  ASSUME EndsInv, NEW w \in Workers, Only(w), UNCHANGED <<sessions, sstate>>,
         \A i \in DOMAIN tx'[w].cache : EndOK(tx'[w].cache[i], Of(TableOf(sessions', tx'[w]), i)),
         \A s \in sessions \cup tx'[w].new : s.end <= Updated(s, tx'[w].upd).end
  PROVE  EndsInv'
<1>1. ASSUME NEW u \in Workers
      PROVE  /\ \A i \in DOMAIN tx'[u].cache :
                  EndOK(tx'[u].cache[i], Of(TableOf(sessions', tx'[u]), i))
             /\ \A s \in sessions' \cup tx'[u].new : s.end <= Updated(s, tx'[u].upd).end
  <2>1. CASE u = w
    BY <2>1
  <2>2. CASE u # w
    <3>1. tx'[u] = tx[u] /\ sessions' = sessions
      BY <2>2 DEF Only
    <3> QED BY <3>1 DEF EndsInv
  <2> QED BY <2>1, <2>2
<1>2. \A i \in DOMAIN sstate' : EndOK(sstate'[i], Of(sessions', i))
  BY DEF EndsInv
<1> QED BY <1>1, <1>2 DEF EndsInv

LEMMA OpensEnds ==
  ASSUME Shape, RowsInv, VisitsInv, SessInv, EndsInv, NEW w \in Workers, VisitOpens(w)
  PROVE  EndsInv'
<1> DEFINE T == TableOf(sessions, tx[w])
           X == TableOf(sessions', tx'[w])
           i == NextRow(w).ip
           o == Opened(w)
           ts == NextRow(w).line.ts
           n == nextSession
           e == [session |-> n, last |-> ts]
           c == tx[w].cache
<1>0. /\ Only(w) /\ UNCHANGED <<sessions, sstate>> /\ tx'[w].new = tx[w].new \cup {o}
      /\ tx'[w].cache = Put(c, i, e) /\ tx'[w].upd = tx[w].upd /\ tx[w].visits # <<>>
  BY VisitFields, OpensFields
<1>1. (\A j : j # i => Of(X, j) = Of(T, j)) /\ Of(X, i) = Of(T, i) \cup {o}
      /\ \A s \in T : s.id \in Nat \ {0} /\ s.id < n
  BY OpensTable
<1>2. e.session = n /\ e.last = ts /\ o.id = n /\ o.end = ts /\ ts \in Nat
  BY <1>0, VisitRow DEF Opened
<1>3. \A j \in DOMAIN c : EndOK(c[j], Of(T, j))
  BY DEF EndsInv
<1>4. \A s \in sessions \cup tx[w].new : s.end <= Updated(s, tx[w].upd).end
  BY DEF EndsInv
<1>5. Updated(o, tx[w].upd) = o
  BY <1>2, SessNames DEF Updated
<1>6. n \in Nat
  BY SessNames
<1> HIDE DEF T, X, i, o, ts, n, e, c
<1>7. ASSUME NEW j \in DOMAIN tx'[w].cache PROVE EndOK(tx'[w].cache[j], Of(X, j))
  <2>1. \/ j = i /\ tx'[w].cache[j] = e
        \/ j \in DOMAIN c /\ j # i /\ tx'[w].cache[j] = c[j]
    BY <1>0, PutEach
  <2>2. CASE j = i /\ tx'[w].cache[j] = e
    <3>1. \A s \in Of(X, i) : s.id = n => s.end = ts
      BY <1>1, <1>2, <1>6 DEF Of
    <3> QED BY <1>2, <2>2, <3>1 DEF EndOK
  <2>3. CASE j \in DOMAIN c /\ j # i /\ tx'[w].cache[j] = c[j]
    BY <1>1, <1>3, <2>3
  <2> QED BY <2>1, <2>2, <2>3
<1>8. \A s \in sessions \cup tx'[w].new : s.end <= Updated(s, tx'[w].upd).end
  BY <1>0, <1>2, <1>4, <1>5
<1> QED BY <1>0, <1>7, <1>8, VisitEnds DEF X

LEMMA ExtendsEnds ==
  ASSUME Shape, RowsInv, VisitsInv, SessInv, LocksInv, OwnInv, EndsInv, NEW w \in Workers,
         VisitExtends(w)
  PROVE  EndsInv'
<1> DEFINE T == TableOf(sessions, tx[w])
           X == TableOf(sessions', tx'[w])
           i == NextRow(w).ip
           st == StateOfNext(w)
           x == st.session
           ts == NextRow(w).line.ts
           e == [session |-> x, last |-> ts]
           c == tx[w].cache
<1>0. /\ Only(w) /\ UNCHANGED <<sessions, sstate>> /\ tx'[w].new = tx[w].new
      /\ tx'[w].cache = Put(c, i, e) /\ tx[w].visits # <<>> /\ ts >= st.last
  BY VisitFields, ExtendsFields
<1>1. /\ \A j : j # i => Of(X, j) = Of(T, j)
      /\ \A z \in Of(X, i) : \E p \in Of(T, i) : p.id = z.id /\ (p.id = x => z.end = ts)
  BY ExtendsOf
<1>2. e.session = x /\ e.last = ts /\ ts \in Nat
  BY <1>0, VisitRow
<1>3. \A j \in DOMAIN c : EndOK(c[j], Of(T, j))
  BY DEF EndsInv
<1>4. \A s \in sessions \cup tx[w].new : s.end <= Updated(s, tx[w].upd).end
  BY DEF EndsInv
<1>5. EndOK(st, Of(T, i))
  BY NextEnds
<1>6. \A q \in sessions \cup tx[w].new :
         /\ q.id # x => Updated(q, tx'[w].upd) = Updated(q, tx[w].upd)
         /\ q.id = x => Updated(q, tx'[w].upd).end = ts /\ q.ip = i
  BY ExtendsTable
<1>7. \A q \in sessions \cup tx[w].new :
         LET p == Updated(q, tx[w].upd)
         IN  p \in T /\ p.id = q.id /\ p.ip = q.ip /\ p.end \in Nat /\ q.end \in Nat
  BY UpdatedOne DEF TableOf, SessionOK, SessionSet
<1>8. st.last \in Int \/ st.session = 0
  BY DEF StateOfNext, StateFor, NoState, SessInv, RefsOK, Named
<1>9. \A q \in sessions \cup tx[w].new : q.id # 0
  BY UpdatedOne DEF SessionOK, SessionSet
<1> HIDE DEF T, X, i, st, x, ts, e, c
<1>10. ASSUME NEW j \in DOMAIN tx'[w].cache PROVE EndOK(tx'[w].cache[j], Of(X, j))
  <2>1. \/ j = i /\ tx'[w].cache[j] = e
        \/ j \in DOMAIN c /\ j # i /\ tx'[w].cache[j] = c[j]
    BY <1>0, PutEach
  <2>2. CASE j = i /\ tx'[w].cache[j] = e
    <3>1. \A s \in Of(X, i) : s.id = x => s.end = ts
      BY <1>1
    <3> QED BY <1>2, <2>2, <3>1 DEF EndOK
  <2>3. CASE j \in DOMAIN c /\ j # i /\ tx'[w].cache[j] = c[j]
    BY <1>1, <1>3, <2>3
  <2> QED BY <2>1, <2>2, <2>3
<1>11. ASSUME NEW q \in sessions \cup tx'[w].new PROVE q.end <= Updated(q, tx'[w].upd).end
  <2>0. q \in sessions \cup tx[w].new
    BY <1>0
  <2>1. CASE q.id # x
    BY <1>4, <1>6, <2>0, <2>1
  <2>2. CASE q.id = x
    <3> DEFINE p == Updated(q, tx[w].upd)
    <3>1. p \in Of(T, i) /\ p.id = st.session
      BY <1>6, <1>7, <2>0, <2>2 DEF Of, x
    <3>2. p.end = st.last
      BY <1>5, <3>1 DEF EndOK
    <3>3. q.end <= p.end /\ p.end \in Nat /\ q.end \in Nat
      BY <1>4, <1>7, <2>0
    <3>4. Updated(q, tx'[w].upd).end = ts
      BY <1>6, <2>0, <2>2
    <3> HIDE DEF p
    <3>5. p.end <= ts
      BY <1>0, <1>2, <3>2, <3>3
    <3> QED BY <1>2, <3>3, <3>4, <3>5
  <2> QED BY <2>1, <2>2
<1> QED BY <1>0, <1>10, <1>11, VisitEnds DEF X

LEMMA CommitEnds ==
  ASSUME SessInv, LocksInv, OwnInv, EndsInv, NEW w \in Workers, Rewrites(w)
  PROVE  EndsInv'
<1> DEFINE c == tx[w].cache
<1>0. Only(w) /\ Blank(tx'[w]) /\ sstate' = Over(c, sstate) /\ sessions' = TableOf(sessions, tx[w])
  BY BlankIdle, CommitTable DEF Rewrites
<1>1. ASSUME NEW i \in DOMAIN sstate' PROVE EndOK(sstate'[i], Of(sessions', i))
  <2>1. \/ i \in DOMAIN c /\ sstate'[i] = c[i]
        \/ i \in DOMAIN sstate \ DOMAIN c /\ sstate'[i] = sstate[i]
    BY <1>0, OverEach
  <2>2. CASE i \in DOMAIN c /\ sstate'[i] = c[i]
    BY <1>0, <2>2 DEF EndsInv
  <2>3. CASE i \in DOMAIN sstate \ DOMAIN c /\ sstate'[i] = sstate[i]
    <3>1. Of(sessions', i) = Of(sessions, i)
      BY <2>3, CommitOthers
    <3> QED BY <2>3, <3>1 DEF EndsInv
  <2> QED BY <2>1, <2>2, <2>3
<1>2. ASSUME NEW u \in Workers \ {w}
      PROVE  /\ \A i \in DOMAIN tx'[u].cache :
                  EndOK(tx'[u].cache[i], Of(TableOf(sessions', tx'[u]), i))
             /\ \A s \in sessions' \cup tx'[u].new : s.end <= Updated(s, tx'[u].upd).end
  <2>1. tx'[u] = tx[u]
    BY <1>0 DEF Only
  <2>2. \A i \in DOMAIN tx[u].cache : i \notin DOMAIN c
    BY DEF LocksInv
  <2>3. \A i \in DOMAIN tx[u].cache :
          /\ Of(TableOf(sessions', tx'[u]), i) = Of(TableOf(sessions, tx[u]), i)
          /\ Of(sessions', i) = Of(sessions, i)
    BY <2>2, CommitOthers
  <2>4. \A i \in DOMAIN tx'[u].cache :
                  EndOK(tx'[u].cache[i], Of(TableOf(sessions', tx'[u]), i))
    BY <2>1, <2>3 DEF EndsInv
  <2>5. ASSUME NEW s \in sessions' \cup tx'[u].new PROVE s.end <= Updated(s, tx'[u].upd).end
    <3>1. CASE s \in sessions \cup tx[u].new
      BY <2>1, <3>1 DEF EndsInv
    <3>2. CASE s \notin sessions \cup tx[u].new
      <4>1. s \in sessions' /\ s \in AllSessions'
        BY <2>1, <3>2 DEF AllSessions
      <4>2. s.id \notin DOMAIN tx[u].upd
        <5> SUFFICES ASSUME s.id \in DOMAIN tx[u].upd PROVE FALSE
          OBVIOUS
        <5>1. OwnInv'
          BY CommitOwn
        <5>2. s.ip \in DOMAIN tx[u].cache
          BY <2>1, <4>1, <5>1 DEF OwnInv, UpdOwn
        <5>3. s \in Of(sessions, s.ip)
          BY <2>3, <4>1, <5>2 DEF Of
        <5> QED BY <3>2, <5>3 DEF Of
      <4>3. Updated(s, tx[u].upd) = s
        BY <4>2 DEF Updated
      <4>4. s.end \in Nat
        BY <4>1, CommitSessions DEF SessInv, SessionOK, SessionSet
      <4> QED BY <2>1, <4>3, <4>4
    <3> QED BY <3>1, <3>2
  <2> QED BY <2>4, <2>5
<1>3. /\ \A i \in DOMAIN tx'[w].cache : EndOK(tx'[w].cache[i], Of(TableOf(sessions', tx'[w]), i))
      /\ \A s \in sessions' \cup tx'[w].new : s.end <= Updated(s, tx'[w].upd).end
  <2>1. tx'[w].cache = <<>> /\ tx'[w].upd = <<>> /\ tx'[w].new = {}
    BY <1>0 DEF Blank
  <2>2. \A s \in sessions' : s.end \in Nat
    <3>1. SessInv'
      BY CommitSessions
    <3> QED BY <3>1 DEF SessInv, AllSessions, SessionOK, SessionSet
  <2>3. \A s : Updated(s, <<>>) = s
    BY DEF Updated
  <2> QED BY <2>1, <2>2, <2>3
<1> QED BY <1>1, <1>2, <1>3 DEF EndsInv

\* What a transaction names is none of the sessions of a rebuild.
LEMMA ResessionTable ==
  ASSUME RowsInv, SessInv, Resession, tx' = tx, NEW w \in Workers
  PROVE  /\ \A s \in sessions' : Updated(s, tx[w].upd) = s /\ s.end \in Nat
         /\ \A p \in TableOf(sessions', tx[w]) :
              (p.id \in Nat /\ p.id < nextSession) => p \in TableOf(sessions, tx[w])
<1>1. /\ \A s \in sessions' : SessionOK(s, nextSession') /\ s.id >= nextSession
      /\ nextSession \in Nat
  BY Resessions DEF SessInv
<1>2. ASSUME NEW s \in sessions' PROVE Updated(s, tx[w].upd) = s /\ s.end \in Nat
  <2>1. s.id \in Nat /\ s.id >= nextSession /\ s.end \in Nat
    BY <1>1 DEF SessionOK, SessionSet
  <2>2. s.id \notin DOMAIN tx[w].upd
    BY <1>1, <2>1, SessNames
  <2> QED BY <2>1, <2>2 DEF Updated
<1>3. ASSUME NEW p \in TableOf(sessions', tx[w]), p.id \in Nat, p.id < nextSession
      PROVE  p \in TableOf(sessions, tx[w])
  <2>1. PICK q \in sessions' \cup tx[w].new : p = Updated(q, tx[w].upd)
    BY DEF TableOf
  <2>2. q \notin sessions'
    BY <1>1, <1>2, <1>3, <2>1
  <2> QED BY <2>1, <2>2 DEF TableOf
<1> QED BY <1>2, <1>3

LEMMA ResessionEnds ==
  ASSUME RowsInv, SessInv, EndsInv, Resession, tx' = tx
  PROVE  EndsInv'
<1>1. \A i \in DOMAIN sstate' : EndOK(sstate'[i], Of(sessions', i))
  <2>1. /\ \A s \in sessions' : SessionOK(s, nextSession')
        /\ \A s, q \in sessions' : s.id = q.id => s = q
        /\ IsFiniteSet(sessions') /\ sstate' = StateOf(sessions')
    BY Resessions
  <2> QED BY <2>1, StateEnds
<1>2. ASSUME NEW w \in Workers, NEW i \in DOMAIN tx[w].cache
      PROVE  EndOK(tx[w].cache[i], Of(TableOf(sessions', tx[w]), i))
  <2>1. EndOK(tx[w].cache[i], Of(TableOf(sessions, tx[w]), i))
    BY DEF EndsInv
  <2>2. tx[w].cache[i].session \in Nat /\ tx[w].cache[i].session < nextSession
    BY SessNames DEF RefsOlder
  <2>3. \A p \in TableOf(sessions', tx[w]) :
              (p.id \in Nat /\ p.id < nextSession) => p \in TableOf(sessions, tx[w])
    BY ResessionTable
  <2> QED BY <2>1, <2>2, <2>3 DEF EndOK, Of
<1>3. \A w \in Workers : \A s \in sessions' \cup tx[w].new : s.end <= Updated(s, tx[w].upd).end
  BY ResessionTable DEF EndsInv
<1> QED BY <1>1, <1>2, <1>3 DEF EndsInv

LEMMA EndsStep ==
  ASSUME IdsInv, RowsInv, VisitsInv, SessInv, LocksInv, OwnInv, EndsInv, [Next]_vars
  PROVE  EndsInv'
<1>0. Shape /\ \A i \in DOMAIN sstate : EndOK(sstate[i], Of(sessions, i))
  BY DEF IdsInv, EndsInv
<1>1. ASSUME NEW w \in Workers, Begin(w) \/ Work(w) \/ Fail(w) PROVE EndsInv'
  <2>1. CASE Begin(w) \/ DeadlockVictim(w) \/ Fail(w) \/ GetOrCreateDimID(w)
             \/ BulkInsertLogRows(w) \/ NoVisit(w)
    <3>1. Forgets /\ sstate' = sstate /\ sessions' = sessions
      BY <1>0, <2>1, PlainForgets
    <3> QED BY <1>0, <3>1, ForgetsEnds
  <2>2. CASE VisitOpens(w)
    BY <1>0, <2>2, OpensEnds
  <2>3. CASE VisitExtends(w)
    BY <1>0, <2>3, ExtendsEnds
  <2>4. CASE Commit(w)
    BY <1>0, <2>4, CommitRewrites, CommitEnds
  <2> QED BY <1>1, <2>1, <2>2, <2>3, <2>4 DEF Work
<1>2. CASE Statement
  <2>0. tx' = tx
    BY <1>0, <1>2, StatementSteps, MigrateSteps DEF Shape, Deletes, Removes
  <2>1. CASE Resession
    BY <2>0, <2>1, ResessionEnds
  <2>2. CASE ~Resession
    <3>1. /\ sessions' \subseteq sessions
          /\ \/ sstate' \in {sstate, <<>>}
             \/ sstate' = Over(StateOf(sessions), sstate) /\ sessions' = sessions
      BY <1>2, <2>2, SessionMoves, SessionWrites DEF Rests
    <3>2. Forgets
      BY <2>0, <3>1 DEF Forgets
    <3>3. \A i \in DOMAIN StateOf(sessions) : EndOK(StateOf(sessions)[i], Of(sessions, i))
      <4> DEFINE n == nextSession
      <4>1. /\ IsFiniteSet(sessions) /\ \A s \in sessions : SessionOK(s, n)
            /\ \A s, q \in sessions : s.id = q.id => s = q
        BY DEF SessInv, AllSessions
      <4> HIDE DEF n
      <4> QED BY <4>1, StateEnds
    <3>4. \A i : Of(sessions', i) \subseteq Of(sessions, i)
      BY <3>1, OfSmaller
    <3>5. ASSUME NEW i \in DOMAIN sstate' PROVE EndOK(sstate'[i], Of(sessions', i))
      <4>1. CASE sstate' = sstate
        BY <1>0, <3>4, <4>1, EndSmaller
      <4>2. CASE sstate' = <<>>
        BY <4>2
      <4>3. CASE sstate' = Over(StateOf(sessions), sstate) /\ sessions' = sessions
        <5>1. \/ i \in DOMAIN StateOf(sessions) /\ sstate'[i] = StateOf(sessions)[i]
              \/ i \in DOMAIN sstate /\ sstate'[i] = sstate[i]
          BY <4>3, OverEach
        <5> QED BY <1>0, <3>3, <4>3, <5>1
      <4> QED BY <3>1, <4>1, <4>2, <4>3
    <3> QED BY <3>2, <3>5, ForgetsEnds
  <2> QED BY <2>1, <2>2
<1>3. CASE Crash
  <2>1. sessions' = sessions /\ sstate' = sstate /\ \A w \in Workers : Blank(tx'[w])
    BY <1>3, BlankIdle DEF Crash, visitTables
  <2>2. Forgets
    BY <2>1 DEF Forgets, Blank
  <2> QED BY <1>0, <2>1, <2>2, ForgetsEnds
<1>4. CASE (\E k \in {"clean", "clear", "rebuild"} : BeginJob(k)) \/ StatementFails \/ UNCHANGED vars
  <2>1. UNCHANGED <<sessions, sstate, tx>>
    BY <1>4 DEF BeginJob, StatementFails, vars, visitTables
  <2>2. Forgets
    BY <2>1 DEF Forgets
  <2> QED BY <1>0, <2>1, <2>2, ForgetsEnds
<1> QED BY <1>1, <1>2, <1>3, <1>4 DEF Next

----------------------------
(* WHERE A CLEAN IS IN ITS PROGRAM *)

CleanFrom(todo) ==
  /\ todo \in Seq(Others) /\ Len(todo) \in 1..11
  /\ \A i \in 1..Len(todo) : todo[i] = CleanProgram[11 - Len(todo) + i]
\* session_state is filled by a clean alone, and is emptied just before; a clear
\* that has come to session_state has emptied the sessions it was computed from.
CleanInv ==
  /\ job.kind = "clean" => CleanFrom(job.todo)
  /\ job.kind # "clean" => \A k \in 1..ToDo : job.todo[k] # "InsertState"
  /\ job.kind = "clear" /\ ToDo = 2 => "state" \in lag

LEMMA CleanStatements ==
  /\ Len(CleanProgram) = 11
  /\ \A k \in 1..11 : CleanProgram[k] = "InsertState" => k = 9
  /\ CleanProgram[8] = "DeleteState"
  /\ \A k \in 1..6 : Part(CleanProgram[k]) # "sessions"
  /\ \A k \in 7..11 : Part(CleanProgram[k]) = "sessions"
<1>1. /\ Len(CleanProgram) = 11
      /\ CleanProgram[1] = "DeleteOldRows" /\ CleanProgram[2] = "DeleteOrphans"
      /\ CleanProgram[3] = "DeleteOldBuckets" /\ CleanProgram[4] = "RebuildHour"
      /\ CleanProgram[5] = "RebuildDay" /\ CleanProgram[6] = "RebuildFirstSeen"
      /\ CleanProgram[7] = "DeleteOldSessions" /\ CleanProgram[8] = "DeleteState"
      /\ CleanProgram[9] = "InsertState" /\ CleanProgram[10] = "DeleteOldSessionDays"
      /\ CleanProgram[11] = "RebuildSessionDay"
  BY DEF CleanProgram
<1>2. \A k \in 1..11 : \/ k = 1 \/ k = 2 \/ k = 3 \/ k = 4 \/ k = 5 \/ k = 6
                       \/ k = 7 \/ k = 8 \/ k = 9 \/ k = 10 \/ k = 11
  OBVIOUS
<1> HIDE DEF CleanProgram
<1>3. \A k \in 1..11 : CleanProgram[k] = "InsertState" => k = 9
  BY <1>1, <1>2
<1>4. \A k \in 1..6 : k = 1 \/ k = 2 \/ k = 3 \/ k = 4 \/ k = 5 \/ k = 6
  OBVIOUS
<1>5. \A k \in 1..6 : Part(CleanProgram[k]) # "sessions"
  BY <1>1, <1>4 DEF Part
<1>6. \A k \in 7..11 : k = 7 \/ k = 8 \/ k = 9 \/ k = 10 \/ k = 11
  OBVIOUS
<1>7. \A k \in 7..11 : Part(CleanProgram[k]) = "sessions"
  BY <1>1, <1>6 DEF Part
<1> QED BY <1>1, <1>3, <1>5, <1>7

\* What is left of a clean when its first statements are gone.
LEMMA CleanSuffix ==
  ASSUME NEW todo, CleanFrom(todo), NEW m \in Nat, NEW q \in Seq(Others), q # <<>>,
         Len(q) = Len(todo) - m, \A i \in 1..Len(q) : q[i] = todo[i + m]
  PROVE  CleanFrom(q)
<1> DEFINE n == Len(todo)
           a == Len(q)
<1>1. /\ n \in 1..11 /\ \A i \in 1..n : todo[i] = CleanProgram[11 - n + i]
      /\ a = n - m /\ \A i \in 1..a : q[i] = todo[i + m]
  BY DEF CleanFrom
<1>2. a \in Nat /\ a # 0
  OBVIOUS
<1> HIDE DEF n, a
<1>3. a \in 1..11
  BY <1>1, <1>2
<1>4. ASSUME NEW i \in 1..a PROVE q[i] = CleanProgram[11 - a + i]
  <2>1. i + m \in 1..n /\ 11 - n + (i + m) = 11 - a + i
    BY <1>1, <1>3
  <2>2. todo[i + m] = CleanProgram[11 - n + (i + m)]
    BY <1>1, <2>1
  <2>3. q[i] = todo[i + m]
    BY <1>1
  <2> QED BY <2>1, <2>2, <2>3
<1> QED BY <1>3, <1>4 DEF CleanFrom, a

LEMMA CleanHead ==
  ASSUME NEW todo, CleanFrom(todo)
  PROVE  /\ todo # <<>> /\ Head(todo) = todo[1] /\ 12 - Len(todo) \in 1..11
         /\ todo[1] = CleanProgram[12 - Len(todo)]
<1> DEFINE n == Len(todo)
<1>1. todo \in Seq(Others) /\ n \in 1..11 /\ \A i \in 1..n : todo[i] = CleanProgram[11 - n + i]
  BY DEF CleanFrom
<1> HIDE DEF n
<1>2. todo # <<>> /\ Head(todo) = todo[1]
  <2>0. n \in Nat /\ n # 0
    BY <1>1
  <2>1. Len(todo) # 0 /\ todo \in Seq(Others)
    BY <2>0, <1>1, Zenon DEF n
  <2>2. todo # <<>>
    BY <2>1
  <2>3. Head(todo) = todo[1]
    BY <2>1, <2>2
  <2> QED BY <2>2, <2>3
<1>3. \A m \in 1..11 : 1 \in 1..m /\ 11 - m + 1 = 12 - m /\ 12 - m \in 1..11
  OBVIOUS
<1>4. todo[1] = CleanProgram[12 - n] /\ 12 - n \in 1..11
  BY <1>1, <1>3
<1> QED BY <1>2, <1>4 DEF n

\* A part of a clean that fails is not followed by the filling of session_state.
LEMMA CleanAfterPart ==
  ASSUME NEW todo, CleanFrom(todo), AfterPart(todo) # <<>>
  PROVE  CleanFrom(AfterPart(todo)) /\ Head(AfterPart(todo)) # "InsertState"
<1> DEFINE n == Len(todo)
           P == {i \in DOMAIN todo : Part(todo[i]) = Part(todo[1])}
           c == Cardinality(P)
           q == SubSeq(todo, 1 + c, n)
<1>1. todo \in Seq(Others) /\ n \in 1..11 /\ DOMAIN todo = 1..n
  BY DEF CleanFrom
<1>2. todo[1] = CleanProgram[12 - n]
  BY CleanHead
<1>3. \A i \in 1..n : todo[i] = CleanProgram[11 - n + i]
  BY DEF CleanFrom
<1>4. IsFiniteSet(1..n) /\ Cardinality(1..n) = n
  <2>1. 1 \in Int /\ n \in Int /\ n >= 1
    BY <1>1
  <2> QED BY <2>1, FS_Interval
<1> HIDE DEF n
<1>5. P \in SUBSET (1..n) /\ 1 \in P
  BY <1>1
<1> HIDE DEF P
<1>6. c \in Nat /\ c # 0 /\ c <= n
  <2>1. IsFiniteSet(P) /\ c <= Cardinality(1..n)
    BY <1>4, <1>5, FS_Subset
  <2>2. c \in Nat
    BY <2>1, FS_CardinalityType
  <2>3. c # 0
    BY <1>5, <2>1, FS_EmptySet
  <2> QED BY <1>4, <2>1, <2>2, <2>3
<1>7. CASE n <= 5
  <2>1. \A i \in 1..n : 11 - n + i \in 7..11
    BY <1>1, <1>7
  <2>2. 12 - n \in 7..11
    BY <1>1, <1>7
  <2>3. P = 1..n
    BY <1>1, <1>2, <1>3, <2>1, <2>2, CleanStatements DEF P
  <2>4. c = n
    BY <1>4, <2>3
  <2>5. SubSeq(todo, 1 + n, n) = <<>>
    BY <1>1
  <2>6. AfterPart(todo) = SubSeq(todo, 1 + c, n)
    BY DEF AfterPart, P, n
  <2> QED BY <2>4, <2>5, <2>6
<1>8. CASE n > 5
  <2>1. \A i \in 1..n : i > n - 5 => 11 - n + i \in 7..11
    BY <1>1, <1>8
  <2>2. 12 - n \in 1..6
    BY <1>1, <1>8
  <2>3. \A i \in P : i <= n - 5
    <3> SUFFICES ASSUME NEW i \in 1..n, Part(todo[i]) = Part(todo[1]), i > n - 5 PROVE FALSE
      BY <1>1 DEF P
    <3>1. Part(todo[i]) = "sessions"
      BY <1>3, <2>1, CleanStatements
    <3>2. Part(todo[1]) # "sessions"
      BY <1>2, <2>2, CleanStatements
    <3> QED BY <3>1, <3>2
  <2>4. P \in SUBSET (1..(n - 5))
    BY <1>1, <1>5, <2>3
  <2>5. c <= n - 5
    <3>1. 1 \in Int /\ n - 5 \in Int /\ n - 5 >= 1
      BY <1>1, <1>8
    <3>2. IsFiniteSet(1..(n - 5)) /\ Cardinality(1..(n - 5)) = n - 5
      BY <3>1, FS_Interval
    <3> QED BY <2>4, <3>2, FS_Subset
  <2>6. q \in Seq(Others) /\ Len(q) = n - c /\ \A i \in 1..(n - c) : q[i] = todo[i + c]
    BY <1>1, <1>6
  <2>7. q = AfterPart(todo)
    BY DEF AfterPart, P, n
  <2> HIDE DEF q, c
  <2>8. CleanFrom(q)
    <3>1. \A i \in 1..Len(q) : q[i] = todo[i + c]
      BY <2>6
    <3>2. Len(q) = Len(todo) - c /\ q # <<>>
      BY <2>6, <2>7 DEF n
    <3> QED BY <1>6, <2>6, <3>1, <3>2, CleanSuffix
  <2>9. Head(q) = CleanProgram[12 - (n - c)] /\ 12 - (n - c) \in 1..11
    BY <2>6, <2>8, CleanHead
  <2>10. 12 - (n - c) # 9
    BY <1>1, <1>6, <2>5
  <2> QED BY <2>7, <2>8, <2>9, <2>10, CleanStatements
<1> QED BY <1>1, <1>7, <1>8

\* The statement before the filling of session_state.
LEMMA InsertNext ==
  ASSUME JobShape, CleanInv, NEW s, At(s), job' = Rest(Tail(job.todo)) \/ job' = NoJob
  PROVE  /\ job'.kind = "clean" => CleanFrom(job'.todo)
         /\ job'.kind # "clean" => \A k \in 1..ToDo' : job'.todo[k] # "InsertState"
         /\ At("InsertState")' => s = "DeleteState"
<1> DEFINE q == Tail(job.todo)
<1>0. job.todo \in Seq(Others) \cup Seq(Clears) /\ job.todo # <<>> /\ Head(job.todo) = s
  BY DEF JobShape, ClearFrom, At
<1>1. Len(q) = ToDo - 1 /\ \A i \in 1..(ToDo - 1) : q[i] = job.todo[i + 1]
  BY <1>0 DEF ToDo
<1>2. CASE job' = NoJob
  <2>1. job'.todo = <<>> /\ job'.kind = "none"
    BY <1>2 DEF NoJob
  <2> QED BY <2>1 DEF ToDo, At
<1>3. CASE job' = Rest(q) /\ job' # NoJob
  <2>1. q # <<>> /\ job' = [job EXCEPT !.todo = q]
    BY <1>3 DEF Rest
  <2> HIDE DEF q
  <2>2. job'.todo = q /\ job'.kind = job.kind
    BY <2>1 DEF JobShape
  <2>3. ToDo \in Nat /\ ToDo' = Len(q) /\ Len(q) \in Nat /\ Head(q) = q[1] /\ Len(q) # 0
    <3>1. q \in Seq(Others) \cup Seq(Clears)
      BY <1>0 DEF q
    <3> QED BY <1>0, <2>1, <2>2, <3>1 DEF ToDo
  <2>4. CASE job.kind = "clean"
    <3>1. CleanFrom(job.todo)
      BY <2>4 DEF CleanInv
    <3>2. q \in Seq(Others)
      BY <1>0, <3>1 DEF CleanFrom, q
    <3>3. CleanFrom(q)
      <4>1. 1 \in Nat /\ Len(q) = Len(job.todo) - 1 /\ \A i \in 1..Len(q) : q[i] = job.todo[i + 1]
        BY <1>1, <2>3 DEF ToDo
      <4> QED BY <2>1, <3>1, <3>2, <4>1, CleanSuffix
    <3>4. Head(q) = CleanProgram[12 - Len(q)] /\ 12 - Len(q) \in 1..11
      BY <3>3, CleanHead
    <3>5. s = CleanProgram[12 - ToDo]
      BY <1>0, <3>1, CleanHead DEF ToDo
    <3>6. Head(q) = "InsertState" => s = "DeleteState"
      <4> SUFFICES ASSUME Head(q) = "InsertState" PROVE s = "DeleteState"
        OBVIOUS
      <4>1. 12 - Len(q) = 9
        BY <3>4, CleanStatements
      <4>2. 12 - ToDo = 8
        BY <1>1, <2>3, <4>1
      <4> QED BY <3>5, <4>2, CleanStatements
    <3> QED BY <2>2, <2>4, <3>3, <3>6 DEF At
  <2>5. CASE job.kind # "clean"
    <3>1. \A k \in 1..ToDo : job.todo[k] # "InsertState"
      BY <2>5 DEF CleanInv
    <3>2. \A i \in 1..Len(q) : q[i] # "InsertState"
      BY <1>1, <2>3, <3>1
    <3>3. Head(q) # "InsertState"
      BY <2>3, <3>2
    <3> QED BY <2>2, <2>3, <2>5, <3>2, <3>3 DEF At
  <2> QED BY <2>4, <2>5
<1> QED BY <1>2, <1>3

LEMMA OtherHeads ==
  /\ \A k \in 1..Len(ClearProgram) : ClearProgram[k] # "InsertState"
  /\ \A k \in 1..Len(RebuildProgram) : RebuildProgram[k] # "InsertState"
  /\ \A k \in 1..Len(StartJob.todo) : StartJob.todo[k] # "InsertState"
<1>1. \A k \in 1..Len(ClearProgram) : ClearProgram[k] # "InsertState"
  BY ClearStatements DEF Clears
<1>2. \A k \in 1..Len(RebuildProgram) : RebuildProgram[k] # "InsertState"
  <2>1. \A k \in 1..6 : k = 1 \/ k = 2 \/ k = 3 \/ k = 4 \/ k = 5 \/ k = 6
    OBVIOUS
  <2> QED BY <2>1, RebuildStatements
<1>3. \A k \in 1..Len(MigrateProgram) : MigrateProgram[k] # "InsertState"
  <2>1. /\ Len(MigrateProgram) = 5 /\ MigrateProgram[1] = "Migrate"
        /\ MigrateProgram[2] = "BackfillAggregates" /\ MigrateProgram[3] = "BackfillFirstSeen"
        /\ MigrateProgram[4] = "BackfillSessions" /\ MigrateProgram[5] = "BackfillSessionAggs"
    BY DEF MigrateProgram
  <2>2. \A k \in 1..5 : k = 1 \/ k = 2 \/ k = 3 \/ k = 4 \/ k = 5
    OBVIOUS
  <2> QED BY <2>1, <2>2
<1>4. \A k \in 1..Len(StartProgram) : StartProgram[k] # "InsertState"
  <2>1. /\ Len(StartProgram) = 4 /\ StartProgram[1] = "AggregatesIfEmpty"
        /\ StartProgram[2] = "FirstSeenIfEmpty" /\ StartProgram[3] = "SessionsIfEmpty"
        /\ StartProgram[4] = "SessionAggsIfEmpty"
    BY DEF StartProgram
  <2>2. \A k \in 1..4 : k = 1 \/ k = 2 \/ k = 3 \/ k = 4
    OBVIOUS
  <2> QED BY <2>1, <2>2
<1>5. StartJob.todo = MigrateProgram \/ StartJob.todo = StartProgram
  BY DEF StartJob
<1> QED BY <1>1, <1>2, <1>3, <1>4, <1>5

\* The statement that is next is the one that runs.
LEMMA StatementNext ==
  ASSUME Statement
  PROVE  \E s : /\ At(s) /\ (s = "DeleteState" => DeleteState)
                /\ job' = Rest(Tail(job.todo)) \/ job' = NoJob
<1>1. CASE \/ DeleteOldRows \/ DeleteRows \/ DeleteRange \/ DeleteOrphans \/ ClearDims \/ Migrate
  BY <1>1 DEF DeleteOldRows, DeleteRows, DeleteRange, DeleteOrphans, ClearDims, Migrate, Advance
<1>2. CASE \/ DeleteOldBuckets \/ RebuildHour \/ RebuildDay
           \/ BackfillAggregates \/ AggregatesIfEmpty \/ ClearAggregates
  BY <1>2 DEF DeleteOldBuckets, RebuildHour, RebuildDay, BackfillAggregates,
     AggregatesIfEmpty, ClearAggregates, Advance
<1>3. CASE BackfillFirstSeen \/ FirstSeenIfEmpty \/ ClearFirstSeen
  BY <1>3 DEF BackfillFirstSeen, FirstSeenIfEmpty, ClearFirstSeen, Advance
<1>4. CASE DeleteOldSessions \/ InsertState \/ ClearSessions \/ ClearState
  BY <1>4 DEF DeleteOldSessions, InsertState, ClearSessions, ClearState, Advance
<1>5. CASE DeleteState
  <2>1. At("DeleteState") /\ job' = Rest(Tail(job.todo))
    BY <1>5 DEF DeleteState, Advance
  <2> QED BY <1>5, <2>1
<1>6. CASE BackfillSessions \/ SessionsIfEmpty
  BY <1>6 DEF BackfillSessions, SessionsIfEmpty, Advance
<1>7. CASE DeleteOldSessionDays \/ RebuildSessionDay \/ BackfillSessionAggs \/ SessionAggsIfEmpty
           \/ ClearSessionAggs
  BY <1>7 DEF DeleteOldSessionDays, RebuildSessionDay, BackfillSessionAggs,
     SessionAggsIfEmpty, ClearSessionAggs, Advance
<1> QED BY <1>1, <1>2, <1>3, <1>4, <1>5, <1>6, <1>7 DEF Statement

\* The statement that is followed by the last but one of a clear.
LEMMA BeforeClearState ==
  ASSUME JobShape, Statement, job'.kind = "clear", ToDo' = 2
  PROVE  ClearSessions
<1>1. CASE Other
  BY <1>1, OthersAt, OtherPlace
<1>2. CASE Clearing
  <2> USE DEF Clears
  <2>1. CASE DeleteRows
    <3>1. At("DeleteRows") /\ job' = Rest(Tail(job.todo)) /\ "DeleteRows" \in Clears
      BY <2>1 DEF DeleteRows, Advance
    <3>2. Place("DeleteRows", 7)
      BY <3>1, ClearPlace
    <3> QED BY <3>2 DEF Place
  <2>2. CASE ClearDims
    <3>1. At("ClearDims") /\ job' = Rest(Tail(job.todo)) /\ "ClearDims" \in Clears
      BY <2>2 DEF ClearDims, Advance
    <3>2. Place("ClearDims", 6)
      BY <3>1, ClearPlace
    <3> QED BY <3>2 DEF Place
  <2>3. CASE ClearFirstSeen
    <3>1. At("ClearFirstSeen") /\ job' = Rest(Tail(job.todo)) /\ "ClearFirstSeen" \in Clears
      BY <2>3 DEF ClearFirstSeen, Advance
    <3>2. Place("ClearFirstSeen", 5)
      BY <3>1, ClearPlace
    <3> QED BY <3>2 DEF Place
  <2>4. CASE ClearAggregates
    <3>1. At("ClearAggregates") /\ job' = Rest(Tail(job.todo)) /\ "ClearAggregates" \in Clears
      BY <2>4 DEF ClearAggregates, Advance
    <3>2. Place("ClearAggregates", 4)
      BY <3>1, ClearPlace
    <3> QED BY <3>2 DEF Place
  <2>5. CASE ClearState
    <3>1. At("ClearState") /\ job' = Rest(Tail(job.todo)) /\ "ClearState" \in Clears
      BY <2>5 DEF ClearState, Advance
    <3>2. Place("ClearState", 2)
      BY <3>1, ClearPlace
    <3> QED BY <3>2 DEF Place
  <2>6. CASE ClearSessionAggs
    <3>1. At("ClearSessionAggs") /\ job' = Rest(Tail(job.todo)) /\ "ClearSessionAggs" \in Clears
      BY <2>6 DEF ClearSessionAggs, Advance
    <3>2. Place("ClearSessionAggs", 1)
      BY <3>1, ClearPlace
    <3> QED BY <3>2 DEF Place
  <2> QED BY <1>2, <2>1, <2>2, <2>3, <2>4, <2>5, <2>6 DEF Clearing
<1> QED BY <1>1, <1>2, StatementKinds

LEMMA CleanStep ==
  ASSUME JobShape, CleanInv, [Next]_vars
  PROVE  /\ CleanInv'
         /\ At("InsertState")' => (At("InsertState") /\ ~Statement) \/ DeleteState
<1>1. CASE UNCHANGED <<job, lag>> /\ ~Statement
  <2>1. CleanInv'
    BY <1>1 DEF CleanInv, ToDo
  <2>2. At("InsertState")' => At("InsertState")
    BY <1>1 DEF At
  <2> QED BY <1>1, <2>1, <2>2
<1>2. CASE Statement
  <2>1. PICK s : /\ At(s) /\ (s = "DeleteState" => DeleteState)
                 /\ job' = Rest(Tail(job.todo)) \/ job' = NoJob
    BY <1>2, StatementNext
  <2>2. /\ job'.kind = "clean" => CleanFrom(job'.todo)
        /\ job'.kind # "clean" => \A k \in 1..ToDo' : job'.todo[k] # "InsertState"
        /\ At("InsertState")' => s = "DeleteState"
    BY <2>1, InsertNext
  <2>3. job'.kind = "clear" /\ ToDo' = 2 => "state" \in lag'
    BY <1>2, BeforeClearState, SessionWrites
  <2> QED BY <2>1, <2>2, <2>3 DEF CleanInv
<1>3. CASE StatementFails
  <2>1. \/ job' = StartJob \/ job' = NoJob
        \/ job.kind = "clean" /\ job' = Rest(AfterPart(job.todo)) /\ job' # NoJob
    BY <1>3 DEF StatementFails
  <2>2. CASE job' = StartJob
    <3>1. job'.kind = "start" /\ \A k \in 1..ToDo' : job'.todo[k] # "InsertState"
      BY <2>2, StartShape, OtherHeads DEF ToDo
    <3>2. job'.todo \in Seq(Others)
      BY <2>2, StartShape
    <3>3. ~At("InsertState")'
      <4> DEFINE q == job'.todo
      <4>1. q \in Seq(Others) /\ \A k \in 1..Len(q) : q[k] # "InsertState"
        BY <3>1, <3>2 DEF ToDo
      <4> HIDE DEF q
      <4>2. q # <<>> => Head(q) # "InsertState"
        BY <4>1
      <4> QED BY <4>2 DEF At, q
    <3> QED BY <3>1, <3>3 DEF CleanInv
  <2>3. CASE job' = NoJob
    <3>1. job'.todo = <<>> /\ job'.kind = "none"
      BY <2>3 DEF NoJob
    <3> QED BY <3>1 DEF CleanInv, ToDo, At
  <2>4. CASE job.kind = "clean" /\ job' = Rest(AfterPart(job.todo)) /\ job' # NoJob
    <3>1. AfterPart(job.todo) # <<>> /\ job' = [job EXCEPT !.todo = AfterPart(job.todo)]
      BY <2>4 DEF Rest
    <3>2. CleanFrom(AfterPart(job.todo)) /\ Head(AfterPart(job.todo)) # "InsertState"
      BY <2>4, <3>1, CleanAfterPart DEF CleanInv
    <3>3. job'.todo = AfterPart(job.todo) /\ job'.kind = "clean"
      BY <2>4, <3>1 DEF JobShape
    <3> QED BY <3>2, <3>3 DEF CleanInv, At
  <2> QED BY <2>1, <2>2, <2>3, <2>4
<1>4. CASE Crash
  <2>1. job' = StartJob
    BY <1>4 DEF Crash
  <2>2. job'.kind = "start" /\ (\A k \in 1..ToDo' : job'.todo[k] # "InsertState")
        /\ job'.todo \in Seq(Others)
    BY <2>1, StartShape, OtherHeads DEF ToDo
  <2>3. ~At("InsertState")'
    <3> DEFINE q == job'.todo
    <3>1. q \in Seq(Others) /\ \A k \in 1..Len(q) : q[k] # "InsertState"
      BY <2>2 DEF ToDo
    <3> HIDE DEF q
    <3>2. q # <<>> => Head(q) # "InsertState"
      BY <3>1
    <3> QED BY <3>2 DEF At, q
  <2> QED BY <2>2, <2>3 DEF CleanInv
<1>5. ASSUME NEW k \in {"clean", "clear", "rebuild"}, BeginJob(k)
      PROVE  CleanInv' /\ ~At("InsertState")'
  <2>1. job' = [kind |-> k, todo |-> Program[k]]
    BY <1>5 DEF BeginJob
  <2>2. job'.kind = k /\ job'.todo = Program[k]
    BY <2>1
  <2>3. CASE k = "clean"
    <3>1. job'.todo = CleanProgram
      BY <2>2, <2>3 DEF Program
    <3>2. CleanFrom(CleanProgram)
      BY CleanStatements, OtherPrograms DEF CleanFrom
    <3>3. Head(CleanProgram) # "InsertState"
      BY DEF CleanProgram
    <3> QED BY <2>2, <2>3, <3>1, <3>2, <3>3 DEF CleanInv, At
  <2>4. CASE k = "clear"
    <3>1. job'.todo = ClearProgram
      BY <2>2, <2>4 DEF Program
    <3>2. Head(ClearProgram) # "InsertState"
      BY DEF ClearProgram
    <3>3. Len(ClearProgram) = 7
      BY ClearStatements
    <3>4. ToDo' = 7
      BY <3>1, <3>3 DEF ToDo
    <3>5. \A j \in 1..ToDo' : job'.todo[j] # "InsertState"
      BY <3>1, OtherHeads DEF ToDo
    <3>6. ~At("InsertState")'
      BY <3>1, <3>2 DEF At
    <3> QED BY <2>2, <2>4, <3>4, <3>5, <3>6 DEF CleanInv
  <2>5. CASE k = "rebuild"
    <3>1. job'.todo = RebuildProgram
      BY <2>2, <2>5 DEF Program
    <3>2. Head(RebuildProgram) # "InsertState"
      BY DEF RebuildProgram
    <3> QED BY <2>2, <2>5, <3>1, <3>2, OtherHeads DEF CleanInv, At, ToDo
  <2> QED BY <2>3, <2>4, <2>5
<1>6. ASSUME NEW w \in Workers, Begin(w) \/ Work(w) \/ Fail(w) PROVE UNCHANGED <<job, lag>>
  BY <1>6, WorkersLeave DEF Commit, Derived
<1>7. UNCHANGED vars => UNCHANGED <<job, lag>>
  BY DEF vars, history
<1> QED BY <1>1, <1>2, <1>3, <1>4, <1>5, <1>6, <1>7 DEF Next

LEMMA InitClean == Init => CleanInv /\ ~At("InsertState")
<1> SUFFICES ASSUME Init PROVE CleanInv /\ ~At("InsertState")
  OBVIOUS
<1>1. job = StartJob
  BY DEF Init
<1>2. job.kind = "start" /\ (\A k \in 1..ToDo : job.todo[k] # "InsertState")
      /\ job.todo \in Seq(Others)
  BY <1>1, StartShape, OtherHeads DEF ToDo
<1>3. ~At("InsertState")
  <2> DEFINE q == job.todo
  <2>1. q \in Seq(Others) /\ \A k \in 1..Len(q) : q[k] # "InsertState"
    BY <1>2 DEF ToDo
  <2> HIDE DEF q
  <2>2. q # <<>> => Head(q) # "InsertState"
    BY <2>1
  <2> QED BY <2>2 DEF At, q
<1> QED BY <1>2, <1>3 DEF CleanInv

----------------------------
(* HOW FAR THE SESSIONS OF A VISITOR ARE APART *)

Spaced(P) == \A s, t \in P : s # t => s.end + Gap < t.start \/ t.end + Gap < s.start
\* The session that the entry e names is the newest of P.
Newest(e, P) == \A s \in P : s.id = e.session => \A t \in P : t # s => t.end + Gap < s.start
Found(e, P) == \E s \in P : s.id = e.session
GoesOn(e, P) == Found(e, P) /\ Newest(e, P) /\ Spaced(P)
SepInv ==
  /\ \A i : i \notin blurred => Spaced(Of(sessions, i))
  /\ \A i \in DOMAIN sstate \ blurred : Newest(sstate[i], Of(sessions, i))
  /\ \A w \in Workers : \A i \in DOMAIN tx[w].cache \ blurred :
       GoesOn(tx[w].cache[i], Of(TableOf(sessions, tx[w]), i))
\* What session_state says of i is what sessions says.
Followed(i) == IF i \in DOMAIN sstate THEN Found(sstate[i], Of(sessions, i))
               ELSE Of(sessions, i) = {}
StateInv ==
  /\ "state" \notin lag => \A i : i \notin blurred => Followed(i)
  /\ At("InsertState") => \A i \in DOMAIN sstate \ blurred : Found(sstate[i], Of(sessions, i))

LEMMA SpacedLess ==
  ASSUME NEW P, NEW Q, Q \subseteq P
  PROVE  (Spaced(P) => Spaced(Q)) /\ \A e : Newest(e, P) => Newest(e, Q)
BY DEF Spaced, Newest

\* A session that is opened later than the gap after the last one.
LEMMA OpenedNewest ==
  ASSUME NEW P, \A s \in P : s.start \in Nat /\ s.end \in Nat /\ s.start <= s.end,
         NEW st, Spaced(P), Newest(st, P), EndOK(st, P), NEW o, o.start \in Nat, o.end = o.start,
         P = {} \/ (Found(st, P) /\ o.start - st.last > Gap),
         \A s \in P : s.id # o.id, NEW e, e.session = o.id
  PROVE  GoesOn(e, P \cup {o})
<1>0. Gap \in Nat
  BY BucketsAssumption
<1>1. ASSUME NEW t \in P PROVE t.end + Gap < o.start
  <2>1. PICK m \in P : m.id = st.session
    BY DEF Found
  <2>2. m.end = st.last
    BY <2>1 DEF EndOK
  <2>3. m.end + Gap < o.start
    <3>1. o.start - m.end > Gap
      BY <1>1, <2>2
    <3> QED BY <1>0, <3>1
  <2>4. t # m => t.end + Gap < m.start
    BY <2>1 DEF Newest
  <2> QED BY <1>0, <2>3, <2>4
<1>2. Found(e, P \cup {o})
  BY DEF Found
<1>3. Newest(e, P \cup {o})
  BY <1>1 DEF Newest
<1>4. Spaced(P \cup {o})
  BY <1>1 DEF Spaced
<1> QED BY <1>2, <1>3, <1>4 DEF GoesOn

\* The newest session goes on to the time ts.
LEMMA ExtendedNewest ==
  ASSUME NEW P, NEW Q, NEW st, NEW ts, GoesOn(st, P),
         \A z \in Q : \E p \in P : /\ p.id = z.id /\ p.start = z.start
                                   /\ p.id # st.session => z = p
                                   /\ p.id = st.session => z.end = ts,
         \A p \in P : \E z \in Q : z.id = p.id,
         \A z, y \in Q : z.id = y.id => z = y,
         NEW e, e.session = st.session
  PROVE  GoesOn(e, Q)
<1>0. Found(st, P) /\ Newest(st, P) /\ Spaced(P)
  BY DEF GoesOn
<1>1. ASSUME NEW s \in Q, s.id = st.session, NEW t \in Q, t # s
      PROVE  t.end + Gap < s.start
  <2>1. t.id # st.session
    BY <1>1
  <2>2. t \in P
    BY <2>1
  <2>3. PICK p \in P : p.id = s.id /\ p.start = s.start
    OBVIOUS
  <2>4. p # t
    BY <1>1, <2>1, <2>3
  <2> QED BY <1>0, <1>1, <2>2, <2>3, <2>4 DEF Newest
<1>2. Found(e, Q)
  BY <1>0 DEF Found
<1>3. Newest(e, Q)
  BY <1>1 DEF Newest
<1>4. Spaced(Q)
  <2> SUFFICES ASSUME NEW s \in Q, NEW t \in Q, s # t
               PROVE  s.end + Gap < t.start \/ t.end + Gap < s.start
    BY DEF Spaced
  <2>1. CASE s.id = st.session
    BY <1>1, <2>1
  <2>2. CASE t.id = st.session
    BY <1>1, <2>2
  <2>3. CASE s.id # st.session /\ t.id # st.session
    <3>1. s \in P /\ t \in P
      BY <2>3
    <3> QED BY <1>0, <3>1 DEF Spaced
  <2> QED BY <2>1, <2>2, <2>3
<1> QED BY <1>2, <1>3, <1>4 DEF GoesOn

\* What is known of the sessions of a visitor when the visitor is locked.
LEMMA NextKnown ==
  ASSUME SessInv, LocksInv, OwnInv, SepInv, NEW w \in Workers, Visited(w, NextRow(w).ip),
         NextRow(w).ip \notin blurred'
  PROVE  LET i == NextRow(w).ip
             st == StateOfNext(w)
             P == Of(TableOf(sessions, tx[w]), i)
         IN  /\ Spaced(P) /\ Newest(st, P)
             /\ st.session # 0 => Found(st, P)
             /\ st.session = 0 => P = {}
<1> DEFINE i == NextRow(w).ip
           st == StateOfNext(w)
           P == Of(TableOf(sessions, tx[w]), i)
<1>0. blurred' = IF i \notin DOMAIN tx[w].cache /\ Astray(i) THEN blurred \cup {i} ELSE blurred
  BY DEF Visited
<1>1. i \notin blurred /\ (i \in DOMAIN tx[w].cache \/ ~Astray(i))
  BY <1>0
<1>2. CASE i \in DOMAIN tx[w].cache
  <2>1. st = tx[w].cache[i]
    BY <1>2 DEF StateOfNext, StateFor
  <2>2. GoesOn(tx[w].cache[i], P)
    BY <1>1, <1>2 DEF SepInv
  <2>3. st.session # 0
    BY <1>2, <2>1 DEF SessInv, RefsOK, Named
  <2> QED BY <2>1, <2>2, <2>3 DEF GoesOn
<1>3. CASE i \notin DOMAIN tx[w].cache /\ i \in DOMAIN sstate
  <2>1. st = sstate[i] /\ P = Of(sessions, i)
    BY <1>3, TableAlone DEF StateOfNext, StateFor
  <2>2. Spaced(Of(sessions, i)) /\ Newest(sstate[i], Of(sessions, i))
    BY <1>1, <1>3 DEF SepInv
  <2>3. PICK s \in sessions : s.id = sstate[i].session
    BY <1>1, <1>3 DEF Astray
  <2>4. s.ip = i
    BY <1>3, <2>3 DEF OwnInv, Own, AllSessions
  <2>5. Found(sstate[i], Of(sessions, i))
    BY <2>3, <2>4 DEF Found, Of
  <2>6. st.session # 0
    BY <1>3, <2>1 DEF SessInv, RefsOK, Named
  <2> HIDE DEF i, st, P
  <2> QED BY <2>1, <2>2, <2>5, <2>6 DEF i, st, P
<1>4. CASE i \notin DOMAIN tx[w].cache /\ i \notin DOMAIN sstate
  <2>1. st.session = 0 /\ P = Of(sessions, i)
    BY <1>4, TableAlone DEF StateOfNext, StateFor, NoState
  <2>2. Of(sessions, i) = {}
    BY <1>1, <1>4 DEF Astray, Of
  <2>3. Spaced({}) /\ Newest(st, {})
    BY DEF Spaced, Newest
  <2> HIDE DEF i, st, P
  <2> QED BY <2>1, <2>2, <2>3 DEF i, st, P
<1> QED BY <1>2, <1>3, <1>4

\* The visits leave the others, and what is committed, as it is.
LEMMA VisitSep ==
  ASSUME SepInv, NEW w \in Workers, Only(w), UNCHANGED <<sessions, sstate>>, blurred \subseteq blurred',
         \A i \in DOMAIN tx'[w].cache \ blurred' :
           GoesOn(tx'[w].cache[i], Of(TableOf(sessions', tx'[w]), i))
  PROVE  SepInv'
<1>1. ASSUME NEW u \in Workers, NEW i \in DOMAIN tx'[u].cache \ blurred'
      PROVE  GoesOn(tx'[u].cache[i], Of(TableOf(sessions', tx'[u]), i))
  <2>1. CASE u = w
    BY <2>1
  <2>2. CASE u # w
    <3>1. tx'[u] = tx[u] /\ sessions' = sessions /\ i \notin blurred
      BY <2>2 DEF Only
    <3> QED BY <3>1 DEF SepInv
  <2> QED BY <2>1, <2>2
<1>2. /\ \A i : i \notin blurred' => Spaced(Of(sessions', i))
      /\ \A i \in DOMAIN sstate' \ blurred' : Newest(sstate'[i], Of(sessions', i))
  BY DEF SepInv
<1> QED BY <1>1, <1>2 DEF SepInv

LEMMA OpensSep ==
  ASSUME Shape, RowsInv, VisitsInv, SessInv, LocksInv, OwnInv, EndsInv, SepInv,
         NEW w \in Workers, VisitOpens(w)
  PROVE  SepInv'
<1> DEFINE T == TableOf(sessions, tx[w])
           X == TableOf(sessions', tx'[w])
           i == NextRow(w).ip
           o == Opened(w)
           ts == NextRow(w).line.ts
           n == nextSession
           e == [session |-> n, last |-> ts]
           c == tx[w].cache
           st == StateOfNext(w)
           P == Of(T, i)
<1>0. /\ Only(w) /\ UNCHANGED <<sessions, sstate>> /\ tx[w].visits # <<>>
      /\ tx'[w].cache = Put(c, i, e)
  BY Zenon, VisitFields, OpensFields
<1>a. Visited(w, i) /\ blurred \subseteq blurred'
  BY DEF VisitOpens, Visited, NextRow
<1>b. st.session = 0 \/ (ts >= st.last /\ ts - st.last > Gap)
  BY OpensFields
<1>1. (\A j : j # i => Of(X, j) = Of(T, j)) /\ P \cup {o} = Of(X, i)
      /\ \A s \in T : s.id \in Nat \ {0} /\ s.id < n
  BY OpensTable
<1>2. e.session = n /\ o.id = n /\ o.start = ts /\ o.end = ts /\ ts \in Nat
  BY <1>0, VisitRow DEF Opened
<1>3. \A j \in DOMAIN c \ blurred : GoesOn(c[j], Of(T, j))
  BY DEF SepInv
<1>4. \A s \in P : /\ s.start \in Nat /\ s.end \in Nat /\ s.start <= s.end
                   /\ s \in T
  BY TableIds DEF SessionOK, SessionSet, Of
<1>5. EndOK(st, P)
  BY NextEnds
<1>6. i \notin blurred' => /\ Spaced(P) /\ Newest(st, P)
                           /\ st.session # 0 => Found(st, P)
                           /\ st.session = 0 => P = {}
  BY <1>a, NextKnown
<1> HIDE DEF T, X, i, o, ts, n, e, c, st, P
<1>7. i \notin blurred' => GoesOn(e, Of(X, i))
  <2> SUFFICES ASSUME i \notin blurred' PROVE GoesOn(e, P \cup {o})
    BY <1>1
  <2>1. \A s \in P : s.id # o.id
    BY <1>1, <1>2, <1>4
  <2>2. P = {} \/ (Found(st, P) /\ o.start - st.last > Gap)
    BY <1>2, <1>6, <1>b
  <2> QED BY <1>2, <1>4, <1>5, <1>6, <2>1, <2>2, OpenedNewest
<1>8. ASSUME NEW j \in DOMAIN tx'[w].cache \ blurred' PROVE GoesOn(tx'[w].cache[j], Of(X, j))
  <2>1. \/ j = i /\ tx'[w].cache[j] = e
        \/ j \in DOMAIN c /\ j # i /\ tx'[w].cache[j] = c[j]
    BY <1>0, PutEach
  <2>2. CASE j = i /\ tx'[w].cache[j] = e
    BY <1>7, <2>2
  <2>3. CASE j \in DOMAIN c /\ j # i /\ tx'[w].cache[j] = c[j]
    BY <1>a, <1>1, <1>3, <2>3
  <2> QED BY <2>1, <2>2, <2>3
<1> QED BY <1>0, <1>a, <1>8, VisitSep DEF X

LEMMA ExtendsSep ==
  ASSUME Shape, RowsInv, VisitsInv, SessInv, LocksInv, OwnInv, EndsInv, SepInv,
         NEW w \in Workers, VisitExtends(w)
  PROVE  SepInv'
<1> DEFINE T == TableOf(sessions, tx[w])
           X == TableOf(sessions', tx'[w])
           i == NextRow(w).ip
           st == StateOfNext(w)
           x == st.session
           ts == NextRow(w).line.ts
           e == [session |-> x, last |-> ts]
           c == tx[w].cache
           P == Of(T, i)
           Q == Of(X, i)
<1>0. /\ Only(w) /\ UNCHANGED <<sessions, sstate>> /\ tx[w].visits # <<>>
      /\ tx'[w].cache = Put(c, i, e) /\ x # 0
  BY Zenon, VisitFields, ExtendsFields
<1>a. Visited(w, i) /\ blurred \subseteq blurred'
  BY Zenon DEF VisitExtends, Visited, NextRow
<1>1. /\ \A j : j # i => Of(X, j) = Of(T, j)
      /\ \A z \in Q : \E p \in P : /\ p.id = z.id /\ p.start = z.start
                                   /\ p.id # x => z = p
                                   /\ p.id = x => z.end = ts
      /\ \A p \in P : \E z \in Q : z.id = p.id
  BY ExtendsOf
<1>2. e.session = x
  OBVIOUS
<1>3. \A j \in DOMAIN c \ blurred : GoesOn(c[j], Of(T, j))
  BY DEF SepInv
<1>4. \A z, y \in Q : z.id = y.id => z = y
  <2> DEFINE D == sessions \cup tx[w].new
             f == tx[w].upd
             g == tx'[w].upd
  <2>1. \A q \in D : Updated(q, g).id = q.id
    <3> TAKE q \in D
    <3>1. q.id # x => Updated(q, g) = Updated(q, f)
      BY ExtendsTable
    <3>2. q.id = x => Updated(q, g).id = Updated(q, f).id
      BY ExtendsTable
    <3>3. Updated(q, f).id = q.id
      BY UpdatedOne
    <3> HIDE DEF x, f, g
    <3> QED BY <3>1, <3>2, <3>3
  <2>2. X = {Updated(q, g) : q \in D}
    BY VisitFields, ExtendsFields DEF TableOf
  <2>3. \A q, r \in D : q.id = r.id => q = r
    BY DEF SessInv, AllSessions
  <2> HIDE DEF X, D, g
  <2> QED BY <2>1, <2>2, <2>3 DEF Of
<1>6. i \notin blurred' => Spaced(P) /\ Newest(st, P) /\ Found(st, P)
  BY <1>0, <1>a, NextKnown
<1> HIDE DEF T, X, i, ts, e, c, P, Q
<1>7. i \notin blurred' => GoesOn(e, Q)
  <2> SUFFICES ASSUME i \notin blurred' PROVE GoesOn(e, Q)
    OBVIOUS
  <2>1. GoesOn(st, P)
    BY <1>6 DEF GoesOn
  <2> HIDE DEF st
  <2> QED BY <1>1, <1>2, <1>4, <2>1, ExtendedNewest
<1>8. ASSUME NEW j \in DOMAIN tx'[w].cache \ blurred' PROVE GoesOn(tx'[w].cache[j], Of(X, j))
  <2>1. \/ j = i /\ tx'[w].cache[j] = e
        \/ j \in DOMAIN c /\ j # i /\ tx'[w].cache[j] = c[j]
    BY <1>0, PutEach
  <2>2. CASE j = i /\ tx'[w].cache[j] = e
    BY <1>7, <2>2 DEF Q
  <2>3. CASE j \in DOMAIN c /\ j # i /\ tx'[w].cache[j] = c[j]
    BY <1>a, <1>1, <1>3, <2>3
  <2> QED BY <2>1, <2>2, <2>3
<1> QED BY <1>0, <1>a, <1>8, VisitSep DEF X

USE LinesAssumption

\* The session that a page view opens, and its page views.
LEMMA SessionRow ==
  ASSUME NEW R, IsFiniteSet(R), \A r \in R : RowOK(r), NEW r \in Views(R)
  PROVE  LET P == PagesFrom(r, R)
             s == SessionOf(r, R)
         IN  /\ LastOf(P) \in P /\ P \subseteq Views(R) /\ IsFiniteSet(P)
             /\ \A q \in P : RowOK(q) /\ q.ip = r.ip /\ ~Before(q, r) /\ ~Before(LastOf(P), q)
             /\ s.ip = r.ip /\ s.start = r.line.ts /\ s.end = LastOf(P).line.ts
             /\ s.pages = Cardinality(P)
<1> DEFINE P == PagesFrom(r, R)
           z == LastOf(P)
<1>1. IsFiniteSet(Views(R)) /\ Views(R) \in SUBSET R
  BY FS_Subset DEF Views
<1>2. RowOK(r) /\ r.line.ts \in Nat /\ r.n \in Nat
  BY <1>1 DEF RowOK
<1>3. ~Before(r, r)
  BY <1>2 DEF Before
<1>4. r \in P /\ P \in SUBSET Views(R) /\ \A q \in P : q.ip = r.ip /\ ~Before(q, r)
  BY <1>2, <1>3 DEF PagesFrom
<1>5. SessionOf(r, R) = [ip |-> r.ip, start |-> r.line.ts, end |-> z.line.ts,
                         entry |-> r.url, exit |-> z.url, pages |-> Cardinality(P)]
  BY DEF SessionOf
<1> HIDE DEF P
<1>6. IsFiniteSet(P) /\ P # {} /\ \A q \in P : RowOK(q)
  BY <1>1, <1>4, FS_Subset
<1>7. z \in P /\ \A q \in P : ~Before(z, q)
  BY <1>6, LastIs
<1> HIDE DEF z
<1> QED BY <1>4, <1>5, <1>6, <1>7 DEF P, z

\* A session that the rows make up begins more than the gap after the one before.
LEMMA RowsApart ==
  ASSUME NEW R, IsFiniteSet(R), \A r \in R : RowOK(r), NEW r \in Views(R), NEW q \in Views(R),
         Opens(q, R), r.ip = q.ip, Before(r, q)
  PROVE  SessionOf(r, R).end + Gap < SessionOf(q, R).start
<1> DEFINE P == PagesFrom(r, R)
           z == LastOf(P)
<1>1. /\ z \in P /\ P \subseteq Views(R) /\ RowOK(z) /\ z.ip = r.ip
      /\ SessionOf(r, R).end = z.line.ts
  BY SessionRow
<1>2. SessionOf(q, R).start = q.line.ts
  BY SessionRow
<1>3. Before(z, q)
  BY <1>1 DEF PagesFrom
<1>4. RowOK(q)
  BY DEF Views
<1>5. z.line.ts \in Nat /\ q.line.ts \in Nat /\ Gap \in Nat
  BY <1>1, <1>4, BucketsAssumption DEF RowOK
<1>6. ~(q.line.ts - z.line.ts <= Gap)
  BY <1>1, <1>3 DEF Opens
<1> HIDE DEF z
<1> QED BY <1>1, <1>2, <1>5, <1>6

LEMMA ResessionSpaced ==
  ASSUME RowsInv, SessInv, Resession, tx' = tx, NEW i
  PROVE  Spaced(Of(sessions', i))
<1> DEFINE Q == SessionsOf(rows)
           order == SetToSeq(Q)
           n == nextSession
           new(k) == NewSession(order[k], n + k - 1)
<1>1. IsFiniteSet(Q)
  BY SessionsOfRows DEF RowsInv, AllRows
<1>2. order \in Seq(Q)
  BY <1>1, Numbered
<1>3. sessions' = {new(k) : k \in DOMAIN order}
  BY DEF Resession, SetSessions, NewSession
<1>4. IsFiniteSet(rows) /\ (\A r \in rows : RowOK(r)) /\ \A r, q \in rows : r.n = q.n => r = q
  BY DEF RowsInv, AllRows
<1>5. \A k \in DOMAIN order : \E r \in Views(rows) : Opens(r, rows) /\ order[k] = SessionOf(r, rows)
  <2>1. \A k \in DOMAIN order : order[k] \in Q
    <3> HIDE DEF order, Q
    <3> QED BY <1>2
  <2> HIDE DEF order
  <2> QED BY <2>1 DEF SessionsOf
<1>6. \A k \in DOMAIN order : /\ new(k).start = order[k].start /\ new(k).end = order[k].end
                              /\ new(k).ip = order[k].ip
  BY DEF NewSession
<1>7. \A j, k \in DOMAIN order : order[j] = order[k] => new(j) = new(k)
  BY <1>1, Numbered
<1> HIDE DEF order, new, Q, n
<1> SUFFICES ASSUME NEW s \in sessions', NEW t \in sessions', s # t, s.ip = i, t.ip = i
             PROVE  s.end + Gap < t.start \/ t.end + Gap < s.start
  BY DEF Spaced, Of
<1>8. PICK j \in DOMAIN order : s = new(j)
  BY <1>3
<1>9. PICK k \in DOMAIN order : t = new(k)
  BY <1>3
<1>10. PICK r \in Views(rows) : Opens(r, rows) /\ order[j] = SessionOf(r, rows)
  BY <1>5
<1>11. PICK q \in Views(rows) : Opens(q, rows) /\ order[k] = SessionOf(q, rows)
  BY <1>5
<1>12. r # q
  BY <1>7, <1>8, <1>9, <1>10, <1>11
<1>13. SessionOf(r, rows).ip = r.ip /\ SessionOf(q, rows).ip = q.ip
  BY <1>4, SessionRow
<1>14. r.ip = q.ip
  BY <1>6, <1>8, <1>9, <1>10, <1>11, <1>13
<1>15. Before(r, q) \/ Before(q, r)
  <2>1. r \in rows /\ q \in rows
    BY DEF Views
  <2>2. r.n # q.n /\ RowOK(r) /\ RowOK(q)
    BY <1>4, <1>12, <2>1
  <2>3. r.n \in Nat /\ q.n \in Nat /\ r.line.ts \in Nat /\ q.line.ts \in Nat
    BY <2>2 DEF RowOK
  <2> QED BY <2>2, <2>3 DEF Before
<1>16. \/ SessionOf(r, rows).end + Gap < SessionOf(q, rows).start
       \/ SessionOf(q, rows).end + Gap < SessionOf(r, rows).start
  BY <1>4, <1>10, <1>11, <1>14, <1>15, RowsApart
<1> QED BY <1>6, <1>8, <1>9, <1>10, <1>11, <1>16

\* The entry of a visitor in session_state when it is computed.
LEMMA StateNewest ==
  ASSUME NEW S, IsFiniteSet(S), NEW n, \A s \in S : SessionOK(s, n),
         \A s, q \in S : s.id = q.id => s = q, NEW i \in DOMAIN StateOf(S)
  PROVE  /\ Found(StateOf(S)[i], Of(S, i))
         /\ Spaced(Of(S, i)) => Newest(StateOf(S)[i], Of(S, i))
<1> DEFINE m == Latest(S, i)
<1>1. i \in {s.ip : s \in S} /\ StateOf(S)[i].session = m.id
  BY DEF StateOf
<1>2. /\ m \in S /\ m.ip = i
      /\ \A t \in S : t.ip = i => t.end < m.end \/ (t.end = m.end /\ t.id <= m.id)
  BY <1>1, LatestIs DEF SessionOK
<1> HIDE DEF m
<1>3. Found(StateOf(S)[i], Of(S, i))
  BY <1>1, <1>2 DEF Found, Of
<1>4. ASSUME Spaced(Of(S, i)), NEW s \in S, s.ip = i, s.id = m.id, NEW t \in S, t.ip = i, t # s
      PROVE  t.end + Gap < s.start
  <2>1. s = m
    BY <1>2, <1>4
  <2>2. s.end + Gap < t.start \/ t.end + Gap < s.start
    BY <1>4 DEF Spaced, Of
  <2>3. t.end <= s.end /\ t.start <= t.end /\ s.end \in Nat /\ t.end \in Nat /\ t.start \in Nat
    BY <1>2, <1>4, <2>1 DEF SessionOK, SessionSet
  <2>4. Gap \in Nat
    BY BucketsAssumption
  <2> QED BY <2>2, <2>3, <2>4
<1>5. Spaced(Of(S, i)) => Newest(StateOf(S)[i], Of(S, i))
  BY <1>1, <1>4 DEF Newest, Of
<1> QED BY <1>3, <1>5

\* Steps that change no session, and forget or keep what a transaction says.
LEMMA PlainSep ==
  ASSUME SepInv, Forgets, UNCHANGED <<sessions, sstate>>, blurred \subseteq blurred'
  PROVE  SepInv'
<1>1. ASSUME NEW u \in Workers, NEW i \in DOMAIN tx'[u].cache \ blurred'
      PROVE  GoesOn(tx'[u].cache[i], Of(TableOf(sessions', tx'[u]), i))
  <2>1. CASE tx'[u].new = tx[u].new /\ tx'[u].cache = tx[u].cache /\ tx'[u].upd = tx[u].upd
    <3>1. TableOf(sessions', tx'[u]) = TableOf(sessions, tx[u])
      BY <2>1, TableSame
    <3> QED BY <1>1, <2>1, <3>1 DEF SepInv
  <2>2. CASE tx'[u].cache = <<>>
    BY <1>1, <2>2
  <2> QED BY <2>1, <2>2 DEF Forgets
<1>2. /\ \A i : i \notin blurred' => Spaced(Of(sessions', i))
      /\ \A i \in DOMAIN sstate' \ blurred' : Newest(sstate'[i], Of(sessions', i))
  BY DEF SepInv
<1> QED BY <1>1, <1>2 DEF SepInv

LEMMA SameState ==
  ASSUME StateInv, UNCHANGED <<sessions, sstate, lag>>, blurred \subseteq blurred',
         At("InsertState")' => At("InsertState")
  PROVE  StateInv'
<1>1. "state" \notin lag' => \A i : i \notin blurred' => Followed(i)'
  BY DEF StateInv, Followed
<1>2. At("InsertState")' => \A i \in DOMAIN sstate' \ blurred' : Found(sstate'[i], Of(sessions', i))
  BY DEF StateInv
<1> QED BY <1>1, <1>2 DEF StateInv

LEMMA CommitSep ==
  ASSUME SessInv, LocksInv, OwnInv, SepInv, NEW w \in Workers, Rewrites(w), blurred' = blurred
  PROVE  SepInv'
<1> DEFINE c == tx[w].cache
<1>0. Only(w) /\ Blank(tx'[w]) /\ sstate' = Over(c, sstate) /\ sessions' = TableOf(sessions, tx[w])
  BY BlankIdle, CommitTable DEF Rewrites
<1>1. \A i \in DOMAIN c \ blurred : GoesOn(c[i], Of(sessions', i))
  BY <1>0 DEF SepInv
<1>2. \A i : i \notin DOMAIN c => Of(sessions', i) = Of(sessions, i)
  BY CommitOthers
<1>3. ASSUME NEW i, i \notin blurred' PROVE Spaced(Of(sessions', i))
  <2>1. CASE i \in DOMAIN c
    BY <1>1, <1>3, <2>1 DEF GoesOn
  <2>2. CASE i \notin DOMAIN c
    BY <1>2, <1>3, <2>2 DEF SepInv
  <2> QED BY <2>1, <2>2
<1>4. ASSUME NEW i \in DOMAIN sstate' \ blurred' PROVE Newest(sstate'[i], Of(sessions', i))
  <2>1. \/ i \in DOMAIN c /\ sstate'[i] = c[i]
        \/ i \in DOMAIN sstate \ DOMAIN c /\ sstate'[i] = sstate[i]
    BY <1>0, OverEach
  <2>2. CASE i \in DOMAIN c /\ sstate'[i] = c[i]
    BY <1>1, <2>2 DEF GoesOn
  <2>3. CASE i \in DOMAIN sstate \ DOMAIN c /\ sstate'[i] = sstate[i]
    BY <1>2, <2>3 DEF SepInv
  <2> QED BY <2>1, <2>2, <2>3
<1>5. ASSUME NEW u \in Workers, NEW i \in DOMAIN tx'[u].cache \ blurred'
      PROVE  GoesOn(tx'[u].cache[i], Of(TableOf(sessions', tx'[u]), i))
  <2>1. CASE u = w
    BY <1>0, <2>1 DEF Blank
  <2>2. CASE u # w
    <3>1. tx'[u] = tx[u]
      BY <1>0, <2>2 DEF Only
    <3>2. i \in DOMAIN tx[u].cache /\ i \notin DOMAIN c
      BY <2>2, <3>1 DEF LocksInv
    <3>3. Of(TableOf(sessions', tx'[u]), i) = Of(TableOf(sessions, tx[u]), i)
      BY <2>2, <3>2, CommitOthers
    <3> QED BY <3>1, <3>2, <3>3 DEF SepInv
  <2> QED BY <2>1, <2>2
<1> QED BY <1>3, <1>4, <1>5 DEF SepInv

LEMMA CommitState ==
  ASSUME SessInv, LocksInv, OwnInv, SepInv, StateInv, NEW w \in Workers, Rewrites(w),
         UNCHANGED <<job, lag, blurred>>
  PROVE  StateInv'
<1> DEFINE c == tx[w].cache
<1>0. sstate' = Over(c, sstate) /\ sessions' = TableOf(sessions, tx[w])
  BY CommitTable DEF Rewrites
<1>1. \A i \in DOMAIN c \ blurred : Found(c[i], Of(sessions', i))
  BY <1>0 DEF SepInv, GoesOn
<1>2. \A i : i \notin DOMAIN c => Of(sessions', i) = Of(sessions, i)
  BY CommitOthers
<1>3. DOMAIN sstate' = DOMAIN c \cup DOMAIN sstate
  BY <1>0, OverIs
<1>4. \A i \in DOMAIN sstate' :
        \/ i \in DOMAIN c /\ sstate'[i] = c[i]
        \/ i \in DOMAIN sstate \ DOMAIN c /\ sstate'[i] = sstate[i]
  BY <1>0, OverEach
<1> HIDE DEF c
<1>5. ASSUME "state" \notin lag', NEW i, i \notin blurred' PROVE Followed(i)'
  <2>0. Followed(i)
    BY <1>5 DEF StateInv
  <2>1. CASE i \in DOMAIN c
    <3>1. i \in DOMAIN sstate' /\ sstate'[i] = c[i]
      BY <1>3, <1>4, <2>1
    <3> QED BY <1>1, <1>5, <2>1, <3>1 DEF Followed
  <2>2. CASE i \notin DOMAIN c /\ i \in DOMAIN sstate
    <3>1. i \in DOMAIN sstate' /\ sstate'[i] = sstate[i]
      BY <1>3, <1>4, <2>2
    <3> QED BY <1>2, <2>0, <2>2, <3>1 DEF Followed
  <2>3. CASE i \notin DOMAIN c /\ i \notin DOMAIN sstate
    BY <1>2, <1>3, <2>0, <2>3 DEF Followed
  <2> QED BY <2>1, <2>2, <2>3
<1>6. ASSUME At("InsertState")', NEW i \in DOMAIN sstate' \ blurred'
      PROVE  Found(sstate'[i], Of(sessions', i))
  <2>1. At("InsertState")
    BY <1>6 DEF At
  <2> QED BY <1>1, <1>2, <1>4, <2>1 DEF StateInv
<1> QED BY <1>5, <1>6 DEF StateInv

\* The visitors whose sessions an open transaction may write are given up on when a
\* statement of a job writes the session tables.
LEMMA NoCaches ==
  ASSUME LocksInv, tx' = tx, KeysHeld \subseteq blurred'
  PROVE  \A w \in Workers : DOMAIN tx'[w].cache \ blurred' = {}
BY DEF LocksInv, KeysHeld

LEMMA ResessionSep ==
  ASSUME RowsInv, SessInv, LocksInv, Resession, tx' = tx, ~At("InsertState")'
  PROVE  SepInv' /\ StateInv'
<1>0. /\ \A s \in sessions' : SessionOK(s, nextSession')
      /\ \A s, q \in sessions' : s.id = q.id => s = q
      /\ IsFiniteSet(sessions') /\ sstate' = StateOf(sessions')
  BY Resessions
<1>1. \A i : Spaced(Of(sessions', i))
  BY ResessionSpaced
<1>2. KeysHeld \subseteq blurred'
  BY DEF Resession, SetSessions
<1>3. \A w \in Workers : DOMAIN tx'[w].cache \ blurred' = {}
  BY <1>2, NoCaches
<1>4. \A i \in DOMAIN sstate' : Found(sstate'[i], Of(sessions', i)) /\ Newest(sstate'[i], Of(sessions', i))
  BY <1>0, <1>1, StateNewest
<1>5. SepInv'
  BY <1>1, <1>3, <1>4 DEF SepInv
<1>6. \A i : i \notin DOMAIN sstate' => Of(sessions', i) = {}
  BY <1>0 DEF StateOf, Of
<1>7. \A i : Followed(i)'
  BY <1>4, <1>6 DEF Followed
<1> QED BY <1>5, <1>7 DEF StateInv

\* What the others of the statements of the jobs do.
LEMMA StatementSep ==
  ASSUME SessInv, LocksInv, SepInv, StateInv, CleanInv, JobInv, tx' = tx, Statement, ~Resession,
         At("InsertState")' => DeleteState
  PROVE  SepInv' /\ StateInv'
<1>0. /\ \A i : i \notin blurred => Spaced(Of(sessions, i))
      /\ \A i \in DOMAIN sstate \ blurred : Newest(sstate[i], Of(sessions, i))
  BY DEF SepInv
<1>a. \A i : Of({}, i) = {}
  BY DEF Of
<1>1. CASE Rests
  <2>1. UNCHANGED <<sessions, sstate, blurred>> /\ ("state" \in lag => "state" \in lag')
    BY <1>1 DEF Rests
  <2>2. Forgets
    BY <2>1 DEF Forgets
  <2>3. SepInv'
    BY <2>1, <2>2, PlainSep
  <2>4. "state" \notin lag' => \A i : i \notin blurred' => Followed(i)'
    BY <2>1 DEF StateInv, Followed
  <2>5. At("InsertState")' => DOMAIN sstate' = {}
    <3> SUFFICES ASSUME DeleteState PROVE DOMAIN sstate' = {}
      OBVIOUS
    <3>1. sstate' = <<>>
      BY SessionWrites
    <3> QED BY <3>1
  <2> QED BY <2>3, <2>4, <2>5 DEF StateInv
<1>2. CASE DeleteOldSessions \/ DeleteState \/ InsertState \/ ClearSessions \/ ClearState
  <2>0. blurred' = blurred \cup KeysHeld
    BY <1>2, SessionWrites
  <2>1. \A w \in Workers : DOMAIN tx'[w].cache \ blurred' = {}
    BY <2>0, NoCaches
  <2>2. ASSUME \A i : i \notin blurred' => Spaced(Of(sessions', i)),
               \A i \in DOMAIN sstate' \ blurred' : Newest(sstate'[i], Of(sessions', i)),
               "state" \notin lag' => \A i : i \notin blurred' => Followed(i)',
               DOMAIN sstate' = {} \/ ~DeleteState
        PROVE  SepInv' /\ StateInv'
    <3>1. SepInv'
      BY <2>1, <2>2 DEF SepInv
    <3>2. StateInv'
      BY <2>2 DEF StateInv
    <3> QED BY <3>1, <3>2
  <2>3. CASE DeleteOldSessions
    <3>1. sessions' \subseteq sessions /\ sstate' = sstate /\ "state" \in lag' /\ At("DeleteOldSessions")
      BY <2>3, SessionWrites
    <3>2. \A i : Of(sessions', i) \subseteq Of(sessions, i)
      BY <3>1, OfSmaller
    <3>3. \A i : i \notin blurred' => Spaced(Of(sessions', i))
      BY <1>0, <2>0, <3>2, SpacedLess
    <3>4. \A i \in DOMAIN sstate' \ blurred' : Newest(sstate'[i], Of(sessions', i))
      BY <1>0, <2>0, <3>1, <3>2, SpacedLess
    <3>5. ~DeleteState
      BY <3>1, SessionWrites DEF At
    <3> QED BY <2>2, <3>1, <3>3, <3>4, <3>5
  <2>4. CASE DeleteState
    <3>1. sessions' = sessions /\ sstate' = <<>> /\ "state" \in lag'
      BY <2>4, SessionWrites
    <3>2. DOMAIN sstate' = {}
      BY <3>1
    <3> QED BY <1>0, <2>0, <2>2, <3>1, <3>2
  <2>5. CASE InsertState
    <3> DEFINE S == sessions
               g == StateOf(S)
    <3>1. sessions' = S /\ sstate' = Over(g, sstate) /\ At("InsertState")
      BY <2>5, SessionWrites
    <3>2. /\ IsFiniteSet(S) /\ \A s \in S : SessionOK(s, nextSession)
          /\ \A s, q \in S : s.id = q.id => s = q
      BY DEF SessInv, AllSessions
    <3>3. \A i \in DOMAIN g : /\ Found(g[i], Of(S, i))
                              /\ Spaced(Of(S, i)) => Newest(g[i], Of(S, i))
      <4> DEFINE n == nextSession
      <4> HIDE DEF n
      <4>1. \A s \in S : SessionOK(s, n)
        BY <3>2 DEF n
      <4> QED BY <3>2, <4>1, StateNewest
    <3>4. DOMAIN g = {s.ip : s \in S}
      BY DEF StateOf
    <3>5. \A i : i \notin DOMAIN g => Of(S, i) = {}
      BY <3>4 DEF Of
    <3>6. \A i \in DOMAIN sstate \ blurred : Found(sstate[i], Of(S, i))
      BY <3>1 DEF StateInv
    <3> HIDE DEF g
    <3>7. /\ DOMAIN sstate' = DOMAIN g \cup DOMAIN sstate
          /\ \A i \in DOMAIN sstate' :
               \/ i \in DOMAIN g /\ sstate'[i] = g[i]
               \/ i \in DOMAIN sstate \ DOMAIN g /\ sstate'[i] = sstate[i]
      <4>1. DOMAIN sstate' = DOMAIN g \cup DOMAIN sstate
        BY <3>1, OverIs
      <4>2. \A i \in DOMAIN sstate' :
               \/ i \in DOMAIN g /\ sstate'[i] = g[i]
               \/ i \in DOMAIN sstate \ DOMAIN g /\ sstate'[i] = sstate[i]
        BY <3>1, OverEach
      <4> QED BY <4>1, <4>2
    <3>8. \A i \in DOMAIN sstate' \ blurred' : Newest(sstate'[i], Of(sessions', i))
      BY <1>0, <2>0, <3>1, <3>3, <3>7
    <3>9. \A i : i \notin blurred' => Followed(i)'
      <4> TAKE i
      <4> HAVE i \notin blurred'
      <4>1. CASE i \in DOMAIN g
        BY <3>1, <3>3, <3>7, <4>1 DEF Followed
      <4>2. CASE i \notin DOMAIN g /\ i \in DOMAIN sstate
        BY <2>0, <3>1, <3>6, <3>7, <4>2 DEF Followed
      <4>3. CASE i \notin DOMAIN g /\ i \notin DOMAIN sstate
        BY <3>1, <3>5, <3>7, <4>3 DEF Followed
      <4> QED BY <4>1, <4>2, <4>3
    <3>10. ~DeleteState
      BY <3>1, SessionWrites DEF At
    <3> QED BY <1>0, <2>0, <2>2, <3>1, <3>8, <3>9, <3>10
  <2>6. CASE ClearSessions
    <3>1. sessions' = {} /\ "state" \in lag' /\ At("ClearSessions")
      BY <2>6, SessionWrites
    <3>2. Spaced({}) /\ \A e : Newest(e, {})
      BY DEF Spaced, Newest
    <3>3. ~DeleteState
      BY <3>1, SessionWrites DEF At
    <3> QED BY <1>a, <2>2, <3>1, <3>2, <3>3
  <2>7. CASE ClearState
    <3>1. sessions' = sessions /\ sstate' = <<>> /\ At("ClearState")
          /\ lag' = lag \ (IF overlap THEN {} ELSE {"state"})
      BY <2>7, SessionWrites
    <3>2. DOMAIN sstate' = {}
      BY <3>1
    <3>3. job.kind = "clear" /\ ToDo = 2
      <4>1. At("ClearState") /\ job' = Rest(Tail(job.todo)) /\ "ClearState" \in Clears
        BY <2>7 DEF ClearState, Advance, Clears
      <4> QED BY <4>1, ClearPlace DEF JobInv, Place
    <3>4. "state" \in lag /\ (overlap \/ sessions = {})
      BY <3>3 DEF CleanInv, JobInv, ClearInv
    <3>5. "state" \notin lag' => sessions' = {}
      BY <3>1, <3>4
    <3>6. "state" \notin lag' => \A i : Followed(i)'
      BY <1>a, <3>2, <3>5 DEF Followed
    <3> QED BY <1>0, <2>0, <2>2, <3>1, <3>2, <3>6
  <2> QED BY <1>2, <2>3, <2>4, <2>5, <2>6, <2>7
<1> QED BY <1>1, <1>2, SessionMoves

LEMMA StatementLeft == Statement => left' = left
<1>0. Advance => left' = left
  BY DEF Advance
<1>1. DeleteOldRows \/ Migrate => left' = left
  BY <1>0 DEF DeleteOldRows, Migrate
<1>2. DeleteRows \/ DeleteRange \/ DeleteOrphans \/ ClearDims => Advance
  BY Zenon DEF DeleteRows, DeleteRange, DeleteOrphans, ClearDims
<1>3. \/ DeleteOldBuckets \/ RebuildHour \/ RebuildDay
      \/ BackfillAggregates \/ AggregatesIfEmpty \/ ClearAggregates
      => Advance
  BY Zenon DEF DeleteOldBuckets, RebuildHour, RebuildDay, BackfillAggregates,
     AggregatesIfEmpty, ClearAggregates
<1>4. BackfillFirstSeen \/ FirstSeenIfEmpty \/ ClearFirstSeen => Advance
  BY Zenon DEF BackfillFirstSeen, FirstSeenIfEmpty, ClearFirstSeen
<1>5. \/ DeleteOldSessions \/ DeleteState \/ InsertState \/ ClearSessions \/ ClearState
      \/ BackfillSessions \/ SessionsIfEmpty
      => Advance
  BY Zenon DEF DeleteOldSessions, DeleteState, InsertState, ClearSessions, ClearState,
     BackfillSessions, SessionsIfEmpty
<1>6. \/ DeleteOldSessionDays \/ RebuildSessionDay \/ BackfillSessionAggs \/ SessionAggsIfEmpty
      \/ ClearSessionAggs
      => Advance
  BY Zenon DEF DeleteOldSessionDays, RebuildSessionDay, BackfillSessionAggs,
     SessionAggsIfEmpty, ClearSessionAggs
<1> QED BY <1>0, <1>1, <1>2, <1>3, <1>4, <1>5, <1>6 DEF Statement

LEMMA SepStep ==
  ASSUME IdsInv, RowsInv, VisitsInv, SessInv, LocksInv, OwnInv, EndsInv, JobInv, CleanInv,
         SepInv, StateInv, [Next]_vars
  PROVE  SepInv' /\ StateInv'
<1>0. Shape /\ (At("InsertState")' => (At("InsertState") /\ ~Statement) \/ DeleteState)
  BY CleanStep DEF IdsInv, JobInv
<1>1. ASSUME NEW w \in Workers, Begin(w) \/ Work(w) \/ Fail(w) PROVE SepInv' /\ StateInv'
  <2>0. job' = job /\ lag' = lag
    BY <1>1, WorkersLeave DEF Commit, Derived
  <2>a. At("InsertState")' => At("InsertState")
    BY <2>0 DEF At
  <2>1. CASE Begin(w) \/ DeadlockVictim(w) \/ Fail(w) \/ GetOrCreateDimID(w)
             \/ BulkInsertLogRows(w) \/ NoVisit(w)
    <3>1. Forgets /\ UNCHANGED <<sessions, sstate>>
      BY <1>0, <2>1, PlainForgets
    <3>2. blurred \subseteq blurred'
      <4>1. CASE NoVisit(w)
        BY <4>1 DEF NoVisit, Visited
      <4>2. CASE ~NoVisit(w)
        BY <1>0, <2>1, <4>2, BlankSteps, DimFields, InsertFields
      <4> QED BY <4>1, <4>2
    <3> QED BY <2>0, <2>a, <3>1, <3>2, PlainSep, SameState
  <2>2. CASE VisitOpens(w)
    <3>1. UNCHANGED <<sessions, sstate>> /\ blurred \subseteq blurred'
      BY <2>2 DEF VisitOpens, Visited
    <3> QED BY <1>0, <2>0, <2>2, <2>a, <3>1, OpensSep, SameState
  <2>3. CASE VisitExtends(w)
    <3>1. UNCHANGED <<sessions, sstate>> /\ blurred \subseteq blurred'
      BY <2>3 DEF VisitExtends, Visited
    <3> QED BY <1>0, <2>0, <2>3, <2>a, <3>1, ExtendsSep, SameState
  <2>4. CASE Commit(w)
    <3>1. Rewrites(w) /\ UNCHANGED <<job, lag, blurred>>
      BY <1>0, <2>4, CommitRewrites DEF Commit
    <3> QED BY <3>1, CommitSep, CommitState
  <2> QED BY <1>1, <2>1, <2>2, <2>3, <2>4 DEF Work
<1>2. CASE Statement
  <2>0. tx' = tx
    BY <1>0, <1>2, StatementSteps, MigrateSteps DEF Shape, Deletes, Removes
  <2>1. At("InsertState")' => DeleteState
    BY <1>0, <1>2
  <2>2. CASE Resession
    <3>1. ~DeleteState
      <4> SUFFICES ASSUME DeleteState PROVE FALSE
        OBVIOUS
      <4>1. "state" \in lag' /\ "state" \notin lag'
        BY <2>2, SessionWrites DEF Resession, SetSessions
      <4> QED BY <4>1
    <3> QED BY <2>0, <2>1, <2>2, <3>1, ResessionSep
  <2>3. CASE ~Resession
    BY <1>2, <2>0, <2>1, <2>3, StatementSep
  <2> QED BY <2>2, <2>3
<1>3. CASE Crash
  <2>1. UNCHANGED <<sessions, sstate, lag, blurred>> /\ ~Statement /\ \A w \in Workers : Blank(tx'[w])
    <3>1. UNCHANGED <<sessions, sstate, lag, blurred>> /\ \A w \in Workers : Blank(tx'[w])
      BY <1>3, BlankIdle DEF Crash, visitTables, history
    <3>2. left' # left
      <4>1. left' = [left EXCEPT !.faults = @ - 1] /\ left \in Lefts
        BY <1>0, <1>3 DEF Crash, Shape
      <4> QED BY <4>1 DEF Lefts
    <3>3. Statement => left' = left
      BY StatementLeft
    <3> QED BY <3>1, <3>2, <3>3
  <2>2. Forgets
    BY <2>1 DEF Forgets, Blank
  <2>3. At("InsertState")' => At("InsertState")
    <3>1. ~DeleteState
      BY <2>1 DEF Statement
    <3> QED BY <1>0, <3>1
  <2> QED BY <2>1, <2>2, <2>3, PlainSep, SameState
<1>4. CASE (\E k \in {"clean", "clear", "rebuild"} : BeginJob(k)) \/ StatementFails
  <2>1. UNCHANGED <<sessions, sstate, tx, lag, blurred>>
    BY <1>4 DEF BeginJob, StatementFails, visitTables, history
  <2>2. Forgets
    BY <2>1 DEF Forgets
  <2>3. At("InsertState")' => At("InsertState")
    <3>1. ~Statement
      <4>1. left' # left
        <5>1. CASE StatementFails
          <6>1. left' = [left EXCEPT !.faults = @ - 1] /\ left \in Lefts
            BY <1>0, <5>1 DEF StatementFails, Shape
          <6> QED BY <6>1 DEF Lefts
        <5>2. CASE \E k \in {"clean", "clear", "rebuild"} : BeginJob(k)
          <6>1. left' = [left EXCEPT !.jobs = @ - 1] /\ left \in Lefts
            BY <1>0, <5>2 DEF BeginJob, Shape
          <6> QED BY <6>1 DEF Lefts
        <5> QED BY <1>4, <5>1, <5>2
      <4> QED BY <4>1, StatementLeft
    <3>2. ~DeleteState
      BY <3>1 DEF Statement
    <3> QED BY <1>0, <3>2
  <2> QED BY <2>1, <2>2, <2>3, PlainSep, SameState
<1>5. CASE UNCHANGED vars
  <2>1. UNCHANGED <<sessions, sstate, tx, lag, blurred, job>>
    BY <1>5 DEF vars, visitTables, history
  <2>2. Forgets
    BY <2>1 DEF Forgets
  <2>3. At("InsertState")' => At("InsertState")
    BY <2>1 DEF At
  <2> QED BY <2>1, <2>2, <2>3, PlainSep, SameState
<1> QED BY <1>1, <1>2, <1>3, <1>4, <1>5 DEF Next

----------------------------
(* THE PAGE VIEWS THAT THE SESSIONS COUNT *)

\* The rows of a transaction whose visits it has looked at, and the page views of
\* a visitor in a time.
Done(t) == t.mine \ ToSet(t.visits)
Seen(R, i, a, b) == {r \in Views(R) : r.ip = i /\ r.line.ts \in a..b}
Base(s) == IF s \in sessions THEN s.pages ELSE 0
\* A session has at most the page views that it had and those that the transaction
\* has looked at.
Counted(t, s) ==
  LET z == Updated(s, t.upd)
  IN  z.pages <= Base(s) + Cardinality(Seen(Done(t), s.ip, s.start, z.end))
Recent(s) == s.start >= Cutoff \/ "pagesCut" \notin lag
PagesInv ==
  /\ "pages" \notin lag => \A s \in sessions : Recent(s) =>
       s.pages <= Cardinality(Seen(rows, s.ip, s.start, s.end))
  /\ \A w \in Workers : \A s \in sessions \cup tx[w].new : Counted(tx[w], s)
\* A transaction looks at each of its rows once.
NoRowTwice(v) == \A j, k \in DOMAIN v : v[j] = v[k] => j = k
VisitsOnce == \A w \in Workers : NoRowTwice(tx[w].visits)

LEMMA DoneFinite ==
  ASSUME RowsInv, NEW w \in Workers
  PROVE  IsFiniteSet(Done(tx[w])) /\ Done(tx[w]) \subseteq tx[w].mine
<1>1. IsFiniteSet(tx[w].mine)
  BY DEF RowsInv
<1>2. Done(tx[w]) \in SUBSET tx[w].mine
  BY DEF Done
<1> QED BY <1>1, <1>2, FS_Subset

LEMMA SeenMore ==
  ASSUME NEW R, NEW Q, IsFiniteSet(Q), R \subseteq Q, NEW i, NEW a \in Nat, NEW b \in Nat,
         NEW c \in Nat, b <= c, \A r \in R : RowOK(r)
  PROVE  /\ Seen(R, i, a, b) \subseteq Seen(Q, i, a, c) /\ IsFiniteSet(Seen(Q, i, a, c))
         /\ IsFiniteSet(Seen(R, i, a, b))
         /\ Cardinality(Seen(R, i, a, b)) \in Nat /\ Cardinality(Seen(Q, i, a, c)) \in Nat
         /\ Cardinality(Seen(R, i, a, b)) <= Cardinality(Seen(Q, i, a, c))
<1> USE LinesAssumption
<1>1. Seen(Q, i, a, c) \in SUBSET Q
  BY DEF Seen, Views
<1>2. IsFiniteSet(Seen(Q, i, a, c))
  BY <1>1, FS_Subset
<1>3. Seen(R, i, a, b) \in SUBSET Seen(Q, i, a, c)
  <2> SUFFICES ASSUME NEW r \in R, r.line.pv, r.ip = i, r.line.ts \in a..b
               PROVE  r \in Seen(Q, i, a, c)
    BY DEF Seen, Views
  <2>1. r.line.ts \in Nat
    BY DEF RowOK
  <2>2. r.line.ts \in a..c
    BY <2>1
  <2> QED BY <2>2 DEF Seen, Views
<1> HIDE DEF Seen
<1> QED BY <1>2, <1>3, FS_Subset, FS_CardinalityType

LEMMA InsertedOnce ==
  ASSUME Shape, RowsInv, NEW w \in Workers
  PROVE  NoRowTwice(Inserted(tx[w]))
<1> DEFINE t == tx[w]
           S == Taken(t)
           c == Cardinality(S)
           G(k) == CHOOSE i \in S : RankIn(S, i) = k
<1>1. S \in SUBSET Nat /\ IsFiniteSet(S)
  <2>1. S \subseteq 1..Len(t.batch) /\ Len(t.batch) \in Nat
    BY DEF Taken, Shape, TxShape
  <2>2. IsFiniteSet(S)
    BY NewRows
  <2> HIDE DEF S
  <2> QED BY <2>1, <2>2
<1>2. \A i, j \in S : RowAt(t, i) = RowAt(t, j) => i = j
  BY NewRows
<1> HIDE DEF S
<1>3. \A k \in 1..c : \E i \in S : RankIn(S, i) = k
  BY <1>1, Ranks
<1>4. \A k \in 1..c : G(k) \in S /\ RankIn(S, G(k)) = k
  BY <1>3
<1>5. Inserted(t) = [k \in 1..c |-> RowAt(t, G(k))]
  BY DEF Inserted, S
<1> HIDE DEF G, c
<1>6. \A j, k \in 1..c : RowAt(t, G(j)) = RowAt(t, G(k)) => j = k
  BY <1>2, <1>4
<1> QED BY <1>5, <1>6 DEF NoRowTwice

LEMMA OnceTail ==
  ASSUME NEW X, NEW v \in Seq(X), v # <<>>, NoRowTwice(v)
  PROVE  /\ NoRowTwice(Tail(v)) /\ Head(v) \in ToSet(v) /\ Head(v) \notin ToSet(Tail(v))
         /\ ToSet(Tail(v)) \subseteq ToSet(v)
         /\ \A r \in ToSet(v) : r = Head(v) \/ r \in ToSet(Tail(v))
<1> DEFINE n == Len(v)
<1>1. /\ n \in Nat \ {0} /\ DOMAIN v = 1..n /\ Head(v) = v[1]
      /\ DOMAIN Tail(v) = 1..(n - 1) /\ \A k \in 1..(n - 1) : Tail(v)[k] = v[k + 1]
  OBVIOUS
<1> DEFINE q == Tail(v)
           h == Head(v)
<1> HIDE DEF n, q, h
<1>2. \A k \in 1..(n - 1) : k + 1 \in 1..n /\ k + 1 # 1 /\ q[k] = v[k + 1]
  BY <1>1 DEF q
<1>3. \A k \in 1..n : k = 1 \/ (k - 1 \in 1..(n - 1) /\ (k - 1) + 1 = k)
  BY <1>1
<1>4. DOMAIN v = 1..n /\ DOMAIN q = 1..(n - 1) /\ h = v[1] /\ 1 \in 1..n
  BY <1>1 DEF q, h
<1>5. NoRowTwice(q)
  <2> SUFFICES ASSUME NEW j \in 1..(n - 1), NEW k \in 1..(n - 1), q[j] = q[k] PROVE j = k
    BY <1>4 DEF NoRowTwice
  <2>1. v[j + 1] = v[k + 1] /\ j + 1 \in DOMAIN v /\ k + 1 \in DOMAIN v
    BY <1>2, <1>4
  <2>2. j + 1 = k + 1
    BY <2>1 DEF NoRowTwice
  <2> QED BY <2>2
<1>6. h \in ToSet(v)
  BY <1>4 DEF ToSet
<1>7. h \notin ToSet(q)
  <2> SUFFICES ASSUME NEW k \in 1..(n - 1), q[k] = h PROVE FALSE
    BY <1>4 DEF ToSet
  <2>1. v[k + 1] = v[1] /\ k + 1 \in DOMAIN v /\ 1 \in DOMAIN v /\ k + 1 # 1
    BY <1>2, <1>4
  <2> QED BY <2>1 DEF NoRowTwice
<1>8. \A r \in ToSet(v) : r = h \/ r \in ToSet(q)
  <2> SUFFICES ASSUME NEW k \in 1..n, k # 1 PROVE v[k] \in ToSet(q)
    BY <1>4 DEF ToSet
  <2>1. k - 1 \in 1..(n - 1) /\ q[k - 1] = v[k]
    BY <1>2, <1>3
  <2> QED BY <1>4, <2>1 DEF ToSet
<1>9. ToSet(q) \subseteq ToSet(v)
  BY <1>2, <1>4 DEF ToSet
<1> QED BY <1>5, <1>6, <1>7, <1>8, <1>9 DEF q, h

LEMMA VisitsOnceStep ==
  ASSUME IdsInv, RowsInv, VisitsInv, VisitsOnce, [Next]_vars
  PROVE  VisitsOnce'
<1>0. Shape
  BY DEF IdsInv
<1>a. NoRowTwice(<<>>)
  BY DEF NoRowTwice
<1>1. ASSUME NEW w \in Workers, Begin(w) \/ Work(w) \/ Fail(w) PROVE VisitsOnce'
  <2>0. ASSUME NEW n, n = tx'[w], Only(w), NoRowTwice(n.visits) PROVE VisitsOnce'
    BY <2>0 DEF Only, VisitsOnce
  <2>1. CASE Begin(w) \/ DeadlockVictim(w) \/ Fail(w)
    BY <1>0, <1>a, <2>0, <2>1, BlankSteps DEF Blank
  <2>2. CASE GetOrCreateDimID(w)
    <3>1. Only(w) /\ tx'[w].visits = tx[w].visits
      BY <1>0, <2>2, DimFields
    <3> QED BY <2>0, <3>1 DEF VisitsOnce
  <2>3. CASE BulkInsertLogRows(w)
    <3>1. Only(w) /\ tx'[w].visits = Inserted(tx[w])
      BY <1>0, <2>3, InsertFields
    <3>2. NoRowTwice(Inserted(tx[w]))
      BY <1>0, InsertedOnce
    <3> QED BY <2>0, <3>1, <3>2
  <2>4. CASE NoVisit(w) \/ VisitOpens(w) \/ VisitExtends(w)
    <3>1. Only(w) /\ tx'[w].visits = Tail(tx[w].visits) /\ tx[w].visits # <<>>
      BY <1>0, <2>4, VisitFields
    <3>2. NoRowTwice(Tail(tx[w].visits))
      BY <3>1, OnceTail DEF VisitsInv, VisitsOnce
    <3> QED BY <2>0, <3>1, <3>2
  <2>5. CASE Commit(w)
    <3>1. Only(w) /\ tx'[w] = Idle
      BY <1>0, <2>5, CommitSteps
    <3> QED BY <1>a, <2>0, <3>1, BlankIdle DEF Blank
  <2> QED BY <1>1, <2>1, <2>2, <2>3, <2>4, <2>5 DEF Work
<1>2. CASE Crash
  <2>1. \A w \in Workers : tx'[w] = Idle
    BY <1>2 DEF Crash
  <2> QED BY <1>a, <2>1, BlankIdle DEF VisitsOnce, Blank
<1>3. CASE Statement
  <2>1. tx' = tx
    BY <1>0, <1>3, StatementSteps, MigrateSteps DEF Shape, Deletes, Removes
  <2> QED BY <2>1 DEF VisitsOnce
<1>4. CASE (\E k \in {"clean", "clear", "rebuild"} : BeginJob(k)) \/ StatementFails \/ UNCHANGED vars
  BY <1>4 DEF BeginJob, StatementFails, vars, VisitsOnce
<1> QED BY <1>1, <1>2, <1>3, <1>4 DEF Next

LEMMA DoneRows ==
  ASSUME RowsInv, NEW w \in Workers
  PROVE  IsFiniteSet(Done(tx[w])) /\ \A r \in Done(tx[w]) : RowOK(r)
<1>1. IsFiniteSet(Done(tx[w])) /\ Done(tx[w]) \subseteq tx[w].mine
  BY DoneFinite
<1>2. \A r \in tx[w].mine : RowOK(r)
  BY DEF RowsInv, AllRows
<1> QED BY <1>1, <1>2

\* What a transaction says of a session counts for as long as the session is there.
LEMMA CountedStill ==
  ASSUME NEW t, NEW n, n.upd = t.upd, NEW s, NEW S, NEW T, s \in S <=> s \in T,
         IsFiniteSet(Done(n)), Done(t) \subseteq Done(n), \A r \in Done(t) : RowOK(r),
         s.start \in Nat, s.pages \in Nat, Updated(s, t.upd).end \in Nat,
         Updated(s, t.upd).pages \in Nat,
         Updated(s, t.upd).pages <= (IF s \in S THEN s.pages ELSE 0)
           + Cardinality(Seen(Done(t), s.ip, s.start, Updated(s, t.upd).end))
  PROVE  Updated(s, n.upd).pages <= (IF s \in T THEN s.pages ELSE 0)
           + Cardinality(Seen(Done(n), s.ip, s.start, Updated(s, n.upd).end))
<1> DEFINE z == Updated(s, t.upd)
           A == Cardinality(Seen(Done(t), s.ip, s.start, z.end))
           B == Cardinality(Seen(Done(n), s.ip, s.start, z.end))
           b == IF s \in S THEN s.pages ELSE 0
           e == z.end
           D == Done(t)
           E == Done(n)
<1>1. A \in Nat /\ B \in Nat /\ A <= B
  <2> HIDE DEF z, D, E
  <2>1. z.end \in Nat /\ z.end <= z.end
    BY DEF z
  <2>2. D \subseteq E /\ IsFiniteSet(E) /\ \A r \in D : RowOK(r)
    BY DEF D, E
  <2>3. LET P == Seen(D, s.ip, s.start, z.end)
            Q == Seen(E, s.ip, s.start, z.end)
        IN  Cardinality(P) \in Nat /\ Cardinality(Q) \in Nat /\ Cardinality(P) <= Cardinality(Q)
    BY <2>1, <2>2, SeenMore
  <2> QED BY <2>3 DEF D, E
<1>2. b = IF s \in T THEN s.pages ELSE 0
  OBVIOUS
<1>3. b \in Nat /\ z.pages \in Nat /\ z.pages <= b + A
  OBVIOUS
<1>4. Updated(s, n.upd) = z
  OBVIOUS
<1> HIDE DEF z, A, B, b
<1>5. z.pages <= b + B
  BY <1>1, <1>3
<1> QED BY <1>2, <1>4, <1>5 DEF B

LEMMA PagesKept ==
  ASSUME RowsInv, RowsInv', SessInv, PagesInv, NEW w \in Workers, sessions' \subseteq sessions,
         tx'[w].upd = tx[w].upd, Done(tx[w]) \subseteq Done(tx'[w]),
         NEW s \in sessions' \cup tx[w].new
  PROVE  Counted(tx[w], s)'
<1> DEFINE t == tx[w]
           n == tx'[w]
           S == sessions
           T == sessions'
<1>0. s \in S \cup t.new
  OBVIOUS
<1>1. /\ s.start \in Nat /\ s.pages \in Nat /\ Updated(s, t.upd).end \in Nat
      /\ Updated(s, t.upd).pages \in Nat
  BY <1>0, UpdatedOne DEF SessionOK, SessionSet
<1>2. IsFiniteSet(Done(n))
  <2>1. IsFiniteSet(n.mine)
    BY DEF RowsInv
  <2>2. Done(n) \in SUBSET n.mine
    BY DEF Done
  <2> QED BY <2>1, <2>2, FS_Subset
<1>3. \A r \in Done(t) : RowOK(r)
  BY DoneRows
<1>4. Updated(s, t.upd).pages <= (IF s \in S THEN s.pages ELSE 0)
           + Cardinality(Seen(Done(t), s.ip, s.start, Updated(s, t.upd).end))
  BY <1>0 DEF PagesInv, Counted, Base
<1>5. s \in T \/ s \notin S
  <2>1. S \cap t.new = {}
    BY DEF SessInv
  <2> QED BY <2>1
<1>a. s \in S <=> s \in T
  BY <1>5
<1>6. n.upd = t.upd /\ Done(t) \subseteq Done(n)
  OBVIOUS
<1> HIDE DEF S, T, t, n
<1>7. Updated(s, n.upd).pages <= (IF s \in T THEN s.pages ELSE 0)
           + Cardinality(Seen(Done(n), s.ip, s.start, Updated(s, n.upd).end))
  BY <1>1, <1>2, <1>3, <1>4, <1>a, <1>6, CountedStill
<1> QED BY <1>7 DEF Counted, Base, Updated, Done, Seen, Views, S, T, n

\* A transaction adds nothing to a session that it does not name.
LEMMA UnnamedPages ==
  ASSUME NEW t, NEW s, IsFiniteSet(Done(t)), \A r \in Done(t) : RowOK(r),
         s.id \notin DOMAIN t.upd, s.start \in Nat, s.end \in Nat, s.pages \in Nat
  PROVE  Updated(s, t.upd) = s
         /\ s.pages <= s.pages + Cardinality(Seen(Done(t), s.ip, s.start, s.end))
<1> DEFINE D == Done(t)
           c == Cardinality(Seen(Done(t), s.ip, s.start, s.end))
<1>1. Updated(s, t.upd) = s
  BY DEF Updated
<1>2. c \in Nat
  <2> HIDE DEF D
  <2>1. IsFiniteSet(D) /\ D \subseteq D /\ \A r \in D : RowOK(r)
    BY DEF D
  <2>2. s.end <= s.end
    OBVIOUS
  <2>3. LET Q == Seen(D, s.ip, s.start, s.end) IN Cardinality(Q) \in Nat
    BY <2>1, <2>2, SeenMore
  <2> QED BY <2>3 DEF D
<1> HIDE DEF c
<1>3. s.pages <= s.pages + c
  BY <1>2
<1> QED BY <1>1, <1>3 DEF c

\* The visit of a row makes it one that has been looked at.
LEMMA VisitDone ==
  ASSUME Shape, RowsInv, VisitsInv, VisitsOnce, NEW w \in Workers,
         NoVisit(w) \/ VisitOpens(w) \/ VisitExtends(w)
  PROVE  /\ NextRow(w) \notin Done(tx[w]) /\ Done(tx'[w]) = Done(tx[w]) \cup {NextRow(w)}
         /\ RowOK(NextRow(w))
<1> DEFINE v == tx[w].visits
           m == tx[w].mine
           r == NextRow(w)
<1>1. v # <<>> /\ tx'[w].visits = Tail(v) /\ tx'[w].mine = m
  BY VisitFields
<1>2. r \in m /\ RowOK(r)
  BY <1>1, VisitRow
<1>3. /\ r \in ToSet(v) /\ r \notin ToSet(Tail(v)) /\ ToSet(Tail(v)) \subseteq ToSet(v)
      /\ \A q \in ToSet(v) : q = r \/ q \in ToSet(Tail(v))
  <2>1. v \in Seq(m) /\ NoRowTwice(v) /\ r = Head(v)
    BY DEF VisitsInv, VisitsOnce, NextRow
  <2> HIDE DEF v, m, r
  <2>2. Head(v) \in ToSet(v) /\ Head(v) \notin ToSet(Tail(v))
    BY <1>1, <2>1, OnceTail
  <2>3. ToSet(Tail(v)) \subseteq ToSet(v)
    BY <1>1, <2>1, OnceTail
  <2>4. \A q \in ToSet(v) : q = Head(v) \/ q \in ToSet(Tail(v))
    BY <1>1, <2>1, OnceTail
  <2> QED BY <2>1, <2>2, <2>3, <2>4
<1> DEFINE A == ToSet(v)
           B == ToSet(Tail(v))
<1>4. Done(tx[w]) = m \ A /\ Done(tx'[w]) = m \ B
  BY <1>1 DEF Done
<1> HIDE DEF v, m, r, A, B
<1>5. r \in A /\ r \notin B /\ B \subseteq A /\ \A q \in A : q = r \/ q \in B
  BY <1>3 DEF A, B
<1> QED BY <1>2, <1>4, <1>5 DEF r

\* The visits leave what is committed, and what the others say of it.
LEMMA VisitPages ==
  ASSUME RowsInv, RowsInv', SessInv, PagesInv, NEW w \in Workers, Only(w),
         UNCHANGED <<rows, sessions, lag>>,
         \A s \in sessions \cup tx'[w].new : Counted(tx[w], s)'
  PROVE  PagesInv'
<1>1. ASSUME NEW u \in Workers, NEW s \in sessions' \cup tx'[u].new PROVE Counted(tx[u], s)'
  <2>1. CASE u = w
    BY <2>1
  <2>2. CASE u # w
    <3>1. tx'[u] = tx[u]
      BY <2>2 DEF Only
    <3> QED BY <3>1, PagesKept
  <2> QED BY <2>1, <2>2
<1>2. "pages" \notin lag' => \A s \in sessions' : Recent(s)' =>
         s.pages <= Cardinality(Seen(rows', s.ip, s.start, s.end))
  BY DEF PagesInv, Recent
<1> QED BY <1>1, <1>2 DEF PagesInv

LEMMA SeenOne ==
  ASSUME NEW D, NEW E, NEW r, E = D \cup {r}, r \notin D, IsFiniteSet(D), RowOK(r), r.line.pv,
         \A q \in D : RowOK(q), NEW a \in Nat, NEW b \in Nat, b <= r.line.ts, a <= r.line.ts
  PROVE  LET A == Cardinality(Seen(D, r.ip, a, b))
             B == Cardinality(Seen(E, r.ip, a, r.line.ts))
         IN  A \in Nat /\ B \in Nat /\ A + 1 <= B
<1> DEFINE ts == r.line.ts
           i == r.ip
           P == Seen(D, i, a, b)
           Q == Seen(D, i, a, ts)
           M == Seen(E, i, a, ts)
<1>1. ts \in Nat
  BY DEF RowOK
<1>2. b <= ts /\ a <= ts
  OBVIOUS
<1>3. IsFiniteSet(D) /\ D \subseteq D /\ \A q \in D : RowOK(q)
  OBVIOUS
<1>4. M = Q \cup {r} /\ r \notin Q
  <2>1. r.line.ts \in a..ts
    BY <1>1, <1>2
  <2> QED BY <2>1 DEF Seen, Views
<1> HIDE DEF ts, i
<1>5. /\ IsFiniteSet(Q) /\ Cardinality(P) \in Nat /\ Cardinality(Q) \in Nat
      /\ Cardinality(P) <= Cardinality(Q)
  <2>1. b <= ts
    BY <1>2
  <2> QED BY <1>1, <1>3, <2>1, SeenMore
<1> HIDE DEF P, Q, M
<1>6. Cardinality(M) = Cardinality(Q) + 1
  BY <1>4, <1>5, FS_AddElement
<1>7. Cardinality(P) \in Nat /\ Cardinality(M) \in Nat /\ Cardinality(P) + 1 <= Cardinality(M)
  BY <1>5, <1>6
<1> QED BY <1>7 DEF P, M, ts, i

LEMMA OpensPages ==
  ASSUME Shape, RowsInv, RowsInv', VisitsInv, VisitsOnce, SessInv, PagesInv, NEW w \in Workers,
         VisitOpens(w)
  PROVE  PagesInv'
<1> DEFINE t == tx[w]
           n == tx'[w]
           o == Opened(w)
           r == NextRow(w)
<1>0. /\ Only(w) /\ UNCHANGED <<rows, sessions, lag>> /\ n.new = t.new \cup {o}
      /\ n.upd = t.upd /\ t.visits # <<>> /\ r.line.pv
  BY VisitFields, OpensFields
<1>1. r \notin Done(t) /\ Done(n) = Done(t) \cup {r} /\ RowOK(r)
  BY VisitDone
<1>2. /\ o.id = nextSession /\ o.ip = r.ip /\ o.start = r.line.ts /\ o.end = r.line.ts
      /\ o.pages = 1 /\ r.line.ts \in Nat
  BY <1>0, VisitRow DEF Opened
<1>3. Updated(o, t.upd) = o
  BY <1>2, SessNames DEF Updated
<1>4. o \notin sessions
  <2>1. \A s \in sessions : s.id \in Nat /\ s.id < nextSession
    BY DEF SessInv, AllSessions, SessionOK, SessionSet
  <2>2. nextSession \in Nat
    BY SessNames
  <2> QED BY <1>2, <2>1, <2>2
<1>5. IsFiniteSet(Done(t)) /\ \A q \in Done(t) : RowOK(q)
  BY DoneRows
<1>6. ASSUME NEW s, s = o PROVE Counted(tx[w], s)'
  <2> DEFINE D == Done(t)
             E == Done(n)
             ts == r.line.ts
             B == Cardinality(Seen(E, r.ip, ts, ts))
  <2>1. E = D \cup {r} /\ r \notin D /\ IsFiniteSet(D) /\ \A q \in D : RowOK(q)
    BY <1>1, <1>5
  <2>2. ts \in Nat /\ ts <= r.line.ts
    BY <1>2
  <2> HIDE DEF D, E, r
  <2>3. LET A == Cardinality(Seen(D, r.ip, ts, ts))
            C == Cardinality(Seen(E, r.ip, ts, r.line.ts))
        IN  A \in Nat /\ C \in Nat /\ A + 1 <= C
    BY <1>0, <1>1, <2>1, <2>2, SeenOne
  <2>4. B \in Nat /\ 1 <= 0 + B
    BY <2>3
  <2> HIDE DEF o, ts, B
  <2>5. Updated(o, n.upd) = o /\ o \notin sessions'
    BY <1>0, <1>3, <1>4
  <2>6. o.pages <= 0 + Cardinality(Seen(Done(n), o.ip, o.start, o.end))
    BY <1>2, <2>4 DEF B, E, ts
  <2> HIDE DEF n
  <2>7. /\ Updated(s, n.upd) = s /\ s \notin sessions'
        /\ s.pages <= 0 + Cardinality(Seen(Done(n), s.ip, s.start, s.end))
    BY <1>6, <2>5, <2>6
  <2> QED BY <2>7 DEF Counted, Base, n, Updated, Done, Seen, Views
<1>7. ASSUME NEW s \in sessions \cup n.new PROVE Counted(tx[w], s)'
  <2>1. CASE s = o
    BY <1>6, <2>1
  <2>2. CASE s # o
    <3>1. s \in sessions' \cup t.new
      BY <1>0, <2>2
    <3>2. /\ sessions' \subseteq sessions /\ tx'[w].upd = tx[w].upd
          /\ Done(tx[w]) \subseteq Done(tx'[w])
      BY <1>0, <1>1
    <3> QED BY <3>1, <3>2, PagesKept
  <2> QED BY <2>1, <2>2
<1> QED BY <1>0, <1>7, VisitPages

LEMMA ExtendsPages ==
  ASSUME Shape, RowsInv, RowsInv', VisitsInv, VisitsOnce, SessInv, LocksInv, OwnInv, EndsInv, PagesInv,
         NEW w \in Workers, VisitExtends(w)
  PROVE  PagesInv'
<1> DEFINE t == tx[w]
           n == tx'[w]
           r == NextRow(w)
           st == StateOfNext(w)
           x == st.session
           ts == r.line.ts
           D == Done(t)
           E == Done(n)
<1>0. /\ Only(w) /\ UNCHANGED <<rows, sessions, lag>> /\ n.new = t.new
      /\ t.visits # <<>> /\ r.line.pv /\ ts >= st.last
  BY VisitFields, ExtendsFields
<1>1. r \notin D /\ E = D \cup {r} /\ RowOK(r) /\ ts \in Nat
  BY <1>0, VisitDone, VisitRow
<1>2. IsFiniteSet(D) /\ \A q \in D : RowOK(q)
  BY DoneRows
<1>3. EndOK(st, Of(TableOf(sessions, t), r.ip))
  BY NextEnds
<1>4. ASSUME NEW q \in sessions \cup n.new PROVE Counted(tx[w], q)'
  <2> DEFINE p == Updated(q, t.upd)
             z == Updated(q, n.upd)
             b == IF q \in sessions THEN q.pages ELSE 0
  <2>0. q \in sessions \cup t.new
    BY <1>0
  <2>1. /\ q.start \in Nat /\ p.end \in Nat /\ p.pages \in Nat /\ q.pages \in Nat
        /\ p.start <= p.end /\ p.start = q.start /\ p.id = q.id /\ p.ip = q.ip
        /\ p \in TableOf(sessions, t)
    <3>1. SessionOK(q, nextSession) /\ SessionOK(p, nextSession)
          /\ p.start = q.start /\ p.id = q.id /\ p.ip = q.ip
      BY <2>0, UpdatedOne
    <3>2. p \in TableOf(sessions, t)
      BY <2>0 DEF TableOf
    <3> HIDE DEF p
    <3> QED BY <3>1, <3>2 DEF SessionOK, SessionSet
  <2>2. p.pages <= b + Cardinality(Seen(D, q.ip, q.start, p.end))
    BY <2>0 DEF PagesInv, Counted, Base
  <2>3. b \in Nat
    BY <2>1
  <2>4. q.id # x => z = p
    BY <2>0, ExtendsTable
  <2>5. q.id = x => z.end = ts /\ z.pages = p.pages + 1 /\ q.ip = r.ip
    BY <2>0, ExtendsTable
  <2>6. q.id = x => p.end = st.last
    BY <1>3, <2>0, <2>1, <2>5 DEF EndOK, Of
  <2> HIDE DEF p, z, x, st, ts, r
  <2>7. CASE q.id = x
    <3>1. p.end <= ts /\ q.start <= ts
      BY <1>0, <1>1, <2>1, <2>6, <2>7
    <3> HIDE DEF D, E
    <3>2. LET A == Cardinality(Seen(D, r.ip, q.start, p.end))
              B == Cardinality(Seen(E, r.ip, q.start, r.line.ts))
          IN  A \in Nat /\ B \in Nat /\ A + 1 <= B
      BY <1>0, <1>1, <1>2, <2>1, <3>1, SeenOne DEF ts
    <3> DEFINE A == Cardinality(Seen(D, q.ip, q.start, p.end))
               B == Cardinality(Seen(E, q.ip, q.start, z.end))
    <3>3. A \in Nat /\ B \in Nat /\ A + 1 <= B
      BY <2>5, <2>7, <3>2 DEF ts
    <3>4. p.pages <= b + A
      BY <2>2
    <3> HIDE DEF A, B, b
    <3>5. z.pages <= b + B
      BY <2>1, <2>3, <2>5, <2>7, <3>3, <3>4
    <3> QED BY <1>0, <3>5 DEF Counted, Base, Updated, Done, Seen, Views, B, E, z, n, b
  <2>8. CASE q.id # x
    <3> HIDE DEF D, E
    <3> DEFINE A == Cardinality(Seen(D, q.ip, q.start, p.end))
               B == Cardinality(Seen(E, q.ip, q.start, p.end))
    <3>1. A \in Nat /\ B \in Nat /\ A <= B
      <4>1. D \subseteq E /\ IsFiniteSet(E)
        BY <1>1, <1>2, FS_AddElement
      <4>2. p.end <= p.end
        BY <2>1
      <4> QED BY <1>2, <2>1, <4>1, <4>2, SeenMore
    <3>2. p.pages <= b + A
      BY <2>2
    <3> HIDE DEF A, B, b
    <3>3. p.pages <= b + B
      BY <2>1, <2>3, <3>1, <3>2
    <3>4. z.pages <= b + Cardinality(Seen(E, q.ip, q.start, z.end))
      BY <2>4, <2>8, <3>3 DEF B
    <3> QED BY <1>0, <3>4 DEF Counted, Base, Updated, Done, Seen, Views, E, z, n, b
  <2> QED BY <2>7, <2>8
<1> QED BY <1>0, <1>4, VisitPages

\* The page views of two sets of rows.
LEMMA SeenSum ==
  ASSUME NEW R, NEW M, IsFiniteSet(R), IsFiniteSet(M), R \cap M = {},
         \A r \in R \cup M : RowOK(r), NEW i, NEW a \in Nat, NEW b \in Nat, NEW c \in Nat, b <= c
  PROVE  LET A == Cardinality(Seen(R, i, a, b))
             B == Cardinality(Seen(M, i, a, c))
             C == Cardinality(Seen(R \cup M, i, a, c))
         IN  A \in Nat /\ B \in Nat /\ C \in Nat /\ A + B <= C
<1> DEFINE P == Seen(R, i, a, b)
           Q == Seen(R, i, a, c)
           N == Seen(M, i, a, c)
           U == Seen(R \cup M, i, a, c)
<1>0. IsFiniteSet(R) /\ R \subseteq R /\ \A r \in R : RowOK(r)
  OBVIOUS
<1>1. /\ IsFiniteSet(Q) /\ Cardinality(P) \in Nat /\ Cardinality(Q) \in Nat
      /\ Cardinality(P) <= Cardinality(Q)
  BY <1>0, SeenMore
<1>2. IsFiniteSet(N) /\ N \subseteq M
  <2>1. N \in SUBSET M
    BY DEF Seen, Views
  <2> QED BY <2>1, FS_Subset
<1>3. U = Q \cup N
  BY DEF Seen, Views
<1>4. Q \cap N = {}
  <2>1. Q \subseteq R
    BY DEF Seen, Views
  <2> QED BY <1>2, <2>1
<1> HIDE DEF P, Q, N, U
<1>5. Cardinality(U) = Cardinality(Q) + Cardinality(N) - Cardinality(Q \cap N)
  BY <1>1, <1>2, <1>3, FS_Union
<1>6. Cardinality(Q \cap N) = 0
  BY <1>4, FS_EmptySet
<1>7. Cardinality(N) \in Nat
  BY <1>2, FS_CardinalityType
<1>8. Cardinality(U) \in Nat /\ Cardinality(P) + Cardinality(N) <= Cardinality(U)
  BY <1>1, <1>5, <1>6, <1>7
<1> QED BY <1>1, <1>7, <1>8 DEF P, N, U

\* What a commit writes anew is of no visitor that another transaction names.
LEMMA CommitUnnamed ==
  ASSUME SessInv, LocksInv, OwnInv, NEW w \in Workers, Rewrites(w), NEW u \in Workers \ {w},
         NEW s \in sessions', s \notin sessions
  PROVE  s.id \notin DOMAIN tx[u].upd
<1> SUFFICES ASSUME s.id \in DOMAIN tx[u].upd PROVE FALSE
  OBVIOUS
<1>1. OwnInv' /\ tx'[u] = tx[u]
  BY CommitOwn DEF Rewrites, Only
<1>2. s \in AllSessions'
  BY DEF AllSessions
<1>3. s.ip \in DOMAIN tx[u].cache
  BY <1>1, <1>2 DEF OwnInv, UpdOwn
<1>4. s.ip \notin DOMAIN tx[w].cache
  BY <1>3 DEF LocksInv
<1>5. Of(sessions', s.ip) = Of(sessions, s.ip)
  BY <1>4, CommitOthers
<1> QED BY <1>5 DEF Of

LEMMA CommitPages ==
  ASSUME RowsInv, RowsInv', SessInv, LocksInv, OwnInv, EndsInv, PagesInv, NEW w \in Workers,
         Rewrites(w), rows' = rows \cup tx[w].mine, tx[w].visits = <<>>, lag' = lag
  PROVE  PagesInv'
<1> DEFINE t == tx[w]
<1>0. SessInv' /\ Only(w) /\ Blank(tx'[w])
  BY CommitSessions, BlankIdle DEF Rewrites
<1>1. ASSUME "pages" \notin lag', NEW z \in sessions', Recent(z)'
      PROVE  z.pages <= Cardinality(Seen(rows', z.ip, z.start, z.end))
  <2>1. PICK q \in sessions \cup t.new : z = Updated(q, t.upd)
    BY DEF Rewrites
  <2>2. /\ z.ip = q.ip /\ z.start = q.start /\ SessionOK(q, nextSession) /\ SessionOK(z, nextSession)
    BY <2>1, UpdatedOne
  <2>3. q.end <= z.end
    BY <2>1 DEF EndsInv
  <2>4. Done(t) = t.mine
    BY DEF Done, ToSet
  <2> DEFINE b == IF q \in sessions THEN q.pages ELSE 0
             A == Cardinality(Seen(rows, q.ip, q.start, q.end))
             B == Cardinality(Seen(t.mine, q.ip, q.start, z.end))
             C == Cardinality(Seen(rows \cup t.mine, q.ip, q.start, z.end))
  <2>5. z.pages <= b + B
    BY <2>1, <2>4 DEF PagesInv, Counted, Base
  <2>6. /\ q.start \in Nat /\ q.end \in Nat /\ z.end \in Nat /\ z.pages \in Nat /\ q.pages \in Nat
    BY <2>2 DEF SessionOK, SessionSet
  <2>7. A \in Nat /\ B \in Nat /\ C \in Nat /\ A + B <= C
    <3>1. IsFiniteSet(rows) /\ IsFiniteSet(t.mine) /\ rows \cap t.mine = {}
      BY DEF RowsInv
    <3>2. \A r \in rows \cup t.mine : RowOK(r)
      BY DEF RowsInv, AllRows
    <3> QED BY <2>3, <2>6, <3>1, <3>2, SeenSum
  <2>8. b <= A
    <3>1. CASE q \in sessions
      <4>1. Recent(q)
        BY <1>1, <2>2 DEF Recent
      <4> QED BY <1>1, <3>1, <4>1 DEF PagesInv
    <3>2. CASE q \notin sessions
      <4>1. b = 0
        BY <3>2
      <4> HIDE DEF A, b
      <4> QED BY <2>7, <4>1
    <3> QED BY <3>1, <3>2
  <2>9. b \in Nat
    BY <2>6
  <2> HIDE DEF A, B, C, b
  <2>10. z.pages <= C
    BY <2>5, <2>6, <2>7, <2>8, <2>9
  <2> QED BY <2>2, <2>10 DEF C
<1>2. ASSUME NEW u \in Workers, NEW s \in sessions' \cup tx'[u].new PROVE Counted(tx[u], s)'
  <2>0. IsFiniteSet(Done(tx'[u])) /\ \A r \in Done(tx'[u]) : RowOK(r)
    <3>1. IsFiniteSet(tx'[u].mine) /\ \A r \in tx'[u].mine : RowOK(r)
      BY DEF RowsInv, AllRows, RowOK
    <3>2. Done(tx'[u]) \in SUBSET tx'[u].mine
      BY DEF Done
    <3> QED BY <3>1, <3>2, FS_Subset
  <2>1. ASSUME s \in sessions', s.id \notin DOMAIN tx'[u].upd PROVE Counted(tx[u], s)'
    <3>1. s.start \in Nat /\ s.end \in Nat /\ s.pages \in Nat
      BY <1>0, <2>1 DEF SessInv, AllSessions, SessionOK, SessionSet
    <3> DEFINE n == tx'[u]
    <3>2. IsFiniteSet(Done(n)) /\ (\A r \in Done(n) : RowOK(r)) /\ s.id \notin DOMAIN n.upd
      BY <2>0, <2>1
    <3> HIDE DEF n
    <3>3. Updated(s, n.upd) = s
          /\ s.pages <= s.pages + Cardinality(Seen(Done(n), s.ip, s.start, s.end))
      BY <3>1, <3>2, UnnamedPages
    <3> QED BY <2>1, <3>3 DEF Counted, Base, n, Updated, Done, Seen, Views
  <2>2. CASE u = w
    <3>1. s \in sessions' /\ s.id \notin DOMAIN tx'[u].upd
      BY <1>0, <2>2 DEF Blank
    <3> QED BY <2>1, <3>1
  <2>3. CASE u # w
    <3>1. tx'[u] = tx[u]
      BY <1>0, <2>3 DEF Only
    <3>2. CASE s \in sessions' /\ s \notin sessions
      <4>1. s.id \notin DOMAIN tx[u].upd
        BY <2>3, <3>2, CommitUnnamed
      <4> QED BY <2>1, <3>1, <3>2, <4>1
    <3>3. CASE ~(s \in sessions' /\ s \notin sessions)
      <4> DEFINE n == tx[u]
                 S == sessions
                 T == sessions'
      <4>1. s \in S \cup n.new
        BY <3>1, <3>3
      <4>2. s \in S <=> s \in T
        <5>1. S \cap n.new = {} /\ T \cap n.new = {}
          BY <1>0, <3>1 DEF SessInv
        <5> QED BY <3>1, <3>3, <5>1
      <4>3. /\ s.start \in Nat /\ s.pages \in Nat /\ Updated(s, n.upd).end \in Nat
            /\ Updated(s, n.upd).pages \in Nat
        BY <4>1, UpdatedOne DEF SessionOK, SessionSet
      <4>4. Updated(s, n.upd).pages <= (IF s \in S THEN s.pages ELSE 0)
               + Cardinality(Seen(Done(n), s.ip, s.start, Updated(s, n.upd).end))
        BY <4>1 DEF PagesInv, Counted, Base
      <4>5. IsFiniteSet(Done(n)) /\ Done(n) \subseteq Done(n) /\ n.upd = n.upd
            /\ \A r \in Done(n) : RowOK(r)
        BY DoneRows
      <4> HIDE DEF n, S, T
      <4>6. Updated(s, n.upd).pages <= (IF s \in T THEN s.pages ELSE 0)
               + Cardinality(Seen(Done(n), s.ip, s.start, Updated(s, n.upd).end))
        BY <4>2, <4>3, <4>4, <4>5, CountedStill
      <4> QED BY <3>1, <4>6 DEF Counted, Base, Updated, Done, Seen, Views, T, n
    <3> QED BY <3>2, <3>3
  <2> QED BY <2>2, <2>3
<1> QED BY <1>1, <1>2 DEF PagesInv

\* Nothing becomes of the rows but that: what a statement does to them.
LEMMA RowsBehind ==
  ASSUME Statement
  PROVE  \/ rows' = rows
         \/ Migrate /\ Rests
         \/ Rests /\ "pages" \in lag'
         \/ Rests /\ "pagesCut" \in lag' /\ rows' = rows \ {r \in rows : r.line.ts < Cutoff}
<1>0. \/ Rests
      \/ ~(DeleteOldRows \/ DeleteRows \/ DeleteRange \/ Migrate)
  BY DEF DeleteOldRows, DeleteRows, DeleteRange, Migrate, RemoveRows, visitTables, Rests
<1>1. CASE DeleteOldRows
  BY <1>0, <1>1 DEF DeleteOldRows, RemoveRows
<1>2. CASE DeleteRows \/ DeleteRange
  BY <1>0, <1>2 DEF DeleteRows, DeleteRange, RemoveRows
<1>3. CASE Migrate
  BY <1>0, <1>3
<1>4. CASE \/ DeleteOrphans \/ ClearDims \/ DeleteOldBuckets \/ RebuildHour \/ RebuildDay
           \/ BackfillAggregates \/ AggregatesIfEmpty \/ ClearAggregates
  BY <1>4 DEF DeleteOrphans, ClearDims, RemoveIds, DeleteOldBuckets, RebuildHour, RebuildDay,
     BackfillAggregates, AggregatesIfEmpty, ClearAggregates, Recount, SetCounts
<1>5. CASE BackfillFirstSeen \/ FirstSeenIfEmpty \/ ClearFirstSeen
  BY <1>5 DEF BackfillFirstSeen, FirstSeenIfEmpty, ClearFirstSeen, SetFirstSeen
<1>6. CASE DeleteOldSessions \/ DeleteState \/ InsertState \/ ClearSessions \/ ClearState
           \/ BackfillSessions \/ SessionsIfEmpty
  BY <1>6 DEF DeleteOldSessions, DeleteState, InsertState, ClearSessions, ClearState,
     BackfillSessions, SessionsIfEmpty, Resession, SetSessions
<1>7. CASE DeleteOldSessionDays \/ RebuildSessionDay \/ BackfillSessionAggs \/ SessionAggsIfEmpty
           \/ ClearSessionAggs
  BY <1>7 DEF DeleteOldSessionDays, RebuildSessionDay, BackfillSessionAggs,
     SessionAggsIfEmpty, ClearSessionAggs, RecountSessions, SetSessionAggs
<1> QED BY <1>1, <1>2, <1>3, <1>4, <1>5, <1>6, <1>7 DEF Statement

\* The sessions of a rebuild count the page views they are made of.
LEMMA RowPages ==
  ASSUME NEW R, IsFiniteSet(R), \A r \in R : RowOK(r), NEW r \in Views(R)
  PROVE  LET s == SessionOf(r, R)
         IN  s.pages <= Cardinality(Seen(R, s.ip, s.start, s.end))
<1> DEFINE P == PagesFrom(r, R)
           s == SessionOf(r, R)
           z == LastOf(P)
           Q == Seen(R, s.ip, s.start, s.end)
<1>1. /\ z \in P /\ P \subseteq Views(R) /\ IsFiniteSet(P)
      /\ \A q \in P : RowOK(q) /\ q.ip = r.ip /\ ~Before(q, r) /\ ~Before(z, q)
      /\ s.ip = r.ip /\ s.start = r.line.ts /\ s.end = z.line.ts /\ s.pages = Cardinality(P)
  BY SessionRow
<1>2. RowOK(r)
  BY DEF Views
<1>3. r.line.ts \in Nat /\ z.line.ts \in Nat
  BY <1>1, <1>2 DEF RowOK
<1>4. IsFiniteSet(Q)
  <2>1. Q \in SUBSET R
    BY DEF Seen, Views
  <2> HIDE DEF Q
  <2> QED BY <2>1, FS_Subset
<1> HIDE DEF P, s, z
<1>5. ASSUME NEW q \in P PROVE q \in Q
  <2>1. q.line.ts \in Nat /\ ~Before(q, r) /\ ~Before(z, q) /\ q.ip = r.ip /\ q \in Views(R)
    BY <1>1 DEF RowOK
  <2>2. ~(q.line.ts < r.line.ts) /\ ~(z.line.ts < q.line.ts)
    BY <2>1 DEF Before
  <2>3. q.line.ts \in s.start..s.end
    BY <1>1, <1>3, <2>1, <2>2
  <2> QED BY <1>1, <2>1, <2>3 DEF Seen
<1>6. P \in SUBSET Q
  BY <1>5
<1> HIDE DEF Q
<1>7. Cardinality(P) <= Cardinality(Q)
  BY <1>4, <1>6, FS_Subset
<1> QED BY <1>1, <1>7 DEF Q, s

LEMMA ResessionPages ==
  ASSUME RowsInv, SessInv, SessInv', PagesInv, Resession, tx' = tx, rows' = rows
  PROVE  PagesInv'
<1> DEFINE Q == SessionsOf(rows)
           order == SetToSeq(Q)
           n == nextSession
           new(k) == NewSession(order[k], n + k - 1)
<1>0. IsFiniteSet(rows) /\ \A r \in rows : RowOK(r)
  BY DEF RowsInv, AllRows
<1>1. IsFiniteSet(Q)
  BY <1>0, SessionsOfRows
<1>2. order \in Seq(Q)
  BY <1>1, Numbered
<1>3. sessions' = {new(k) : k \in DOMAIN order}
  BY DEF Resession, SetSessions, NewSession
<1>4. \A k \in DOMAIN order : order[k] \in Q
  <2> HIDE DEF order, Q
  <2> QED BY <1>2
<1>5. \A s \in Q : s.pages <= Cardinality(Seen(rows, s.ip, s.start, s.end))
  <2> SUFFICES ASSUME NEW r \in Views(rows)
               PROVE  LET s == SessionOf(r, rows)
                      IN  s.pages <= Cardinality(Seen(rows, s.ip, s.start, s.end))
    BY DEF SessionsOf
  <2> QED BY <1>0, RowPages
<1>6. \A k \in DOMAIN order : /\ new(k).start = order[k].start /\ new(k).end = order[k].end
                              /\ new(k).ip = order[k].ip /\ new(k).pages = order[k].pages
  BY DEF NewSession
<1> HIDE DEF order, new, Q
<1>7. \A s \in sessions' : s.pages <= Cardinality(Seen(rows, s.ip, s.start, s.end))
  BY <1>3, <1>4, <1>5, <1>6
<1>8. ASSUME NEW w \in Workers, NEW s \in sessions' \cup tx[w].new PROVE Counted(tx[w], s)'
  <2> DEFINE t == tx[w]
             S == sessions
             T == sessions'
  <2>0. IsFiniteSet(Done(t)) /\ \A r \in Done(t) : RowOK(r)
    BY DoneRows
  <2>1. CASE s \in sessions'
    <3>1. s.start \in Nat /\ s.end \in Nat /\ s.pages \in Nat /\ s.id >= n /\ s.id \in Nat
      BY <2>1, Resessions DEF SessionOK, SessionSet
    <3>2. s.id \notin DOMAIN t.upd
      <4>1. \A x \in DOMAIN t.upd : x \in Nat /\ x < n
        BY SessNames
      <4>2. n \in Nat
        BY SessNames
      <4> QED BY <3>1, <4>1, <4>2
    <3> HIDE DEF t
    <3>3. Updated(s, t.upd) = s
          /\ s.pages <= s.pages + Cardinality(Seen(Done(t), s.ip, s.start, s.end))
      BY <2>0, <3>1, <3>2, UnnamedPages
    <3> QED BY <2>1, <3>3 DEF Counted, Base, t, Updated, Done, Seen, Views
  <2>2. CASE s \notin sessions'
    <3>1. s \in S \cup t.new
      BY <2>2
    <3>2. s \notin S /\ s \notin T
      <4>1. S \cap t.new = {}
        BY DEF SessInv
      <4> QED BY <2>2, <4>1
    <3>3. /\ s.start \in Nat /\ s.pages \in Nat /\ Updated(s, t.upd).end \in Nat
          /\ Updated(s, t.upd).pages \in Nat
      BY <3>1, UpdatedOne DEF SessionOK, SessionSet
    <3>4. Updated(s, t.upd).pages <= (IF s \in S THEN s.pages ELSE 0)
               + Cardinality(Seen(Done(t), s.ip, s.start, Updated(s, t.upd).end))
      BY <3>1 DEF PagesInv, Counted, Base
    <3> HIDE DEF t, S, T
    <3>5. Updated(s, t.upd).pages <= (IF s \in T THEN s.pages ELSE 0)
               + Cardinality(Seen(Done(t), s.ip, s.start, Updated(s, t.upd).end))
      BY <3>2, <3>4
    <3> QED BY <3>5 DEF Counted, Base, Updated, Done, Seen, Views, T, t
  <2> QED BY <2>1, <2>2
<1> QED BY <1>7, <1>8 DEF PagesInv

\* Steps that open, change and commit no session.
LEMMA StillPages ==
  ASSUME RowsInv, RowsInv', SessInv, PagesInv, sessions' \subseteq sessions,
         \A u \in Workers :
           \/ /\ tx'[u].new = tx[u].new /\ tx'[u].upd = tx[u].upd
              /\ Done(tx[u]) \subseteq Done(tx'[u])
           \/ Blank(tx'[u]),
         "pages" \notin lag' => \A s \in sessions' : Recent(s)' =>
           s.pages <= Cardinality(Seen(rows', s.ip, s.start, s.end))
  PROVE  PagesInv'
<1>1. ASSUME NEW u \in Workers, NEW s \in sessions' \cup tx'[u].new PROVE Counted(tx[u], s)'
  <2>1. CASE /\ tx'[u].new = tx[u].new /\ tx'[u].upd = tx[u].upd
             /\ Done(tx[u]) \subseteq Done(tx'[u])
    <3>1. s \in sessions' \cup tx[u].new
      BY <2>1
    <3> QED BY <2>1, <3>1, PagesKept
  <2>2. CASE Blank(tx'[u])
    <3> DEFINE n == tx'[u]
    <3>1. s \in sessions' /\ s.id \notin DOMAIN n.upd /\ n.mine = {}
      BY <2>2 DEF Blank
    <3>2. s.start \in Nat /\ s.end \in Nat /\ s.pages \in Nat
      BY <3>1 DEF SessInv, AllSessions, SessionOK, SessionSet
    <3>3. Done(n) = {}
      BY <3>1 DEF Done
    <3>4. IsFiniteSet(Done(n)) /\ \A r \in Done(n) : RowOK(r)
      BY <3>3, FS_EmptySet
    <3> HIDE DEF n
    <3>5. Updated(s, n.upd) = s
          /\ s.pages <= s.pages + Cardinality(Seen(Done(n), s.ip, s.start, s.end))
      BY <3>1, <3>2, <3>4, UnnamedPages
    <3> QED BY <3>1, <3>5 DEF Counted, Base, n, Updated, Done, Seen, Views
  <2> QED BY <2>1, <2>2
<1> QED BY <1>1 DEF PagesInv

LEMMA StatementPages ==
  ASSUME Shape, RowsInv, RowsInv', SessInv, PagesInv, Statement, ~Resession, tx' = tx
  PROVE  PagesInv'
<1>0. sessions' \subseteq sessions
  BY SessionMoves, SessionWrites DEF Rests
<1>1. ASSUME "pages" \notin lag', NEW s \in sessions', Recent(s)'
      PROVE  s.pages <= Cardinality(Seen(rows', s.ip, s.start, s.end))
  <2>0. "pages" \notin lag /\ Recent(s) => s.pages <= Cardinality(Seen(rows, s.ip, s.start, s.end))
    BY <1>0 DEF PagesInv
  <2>1. s.start \in Nat /\ s.end \in Nat /\ s.pages \in Nat
    BY <1>0 DEF SessInv, AllSessions, SessionOK, SessionSet
  <2>2. CASE Rests
    <3>1. "pages" \notin lag /\ Recent(s)
      BY <1>1, <2>2 DEF Rests, Recent
    <3>2. CASE rows' = rows
      BY <2>0, <3>1, <3>2
    <3>3. CASE Migrate
      <4>1. rows = {}
        BY <3>3, MigrateSteps
      <4>2. IsFiniteSet(rows') /\ rows \subseteq rows' /\ \A r \in rows : RowOK(r)
        BY <4>1 DEF RowsInv
      <4> DEFINE R == rows
                 Q == rows'
      <4> HIDE DEF R, Q
      <4>3. IsFiniteSet(Q) /\ R \subseteq Q /\ \A r \in R : RowOK(r)
        BY <4>2 DEF R, Q
      <4>4. s.end <= s.end
        BY <2>1
      <4> DEFINE A == Cardinality(Seen(R, s.ip, s.start, s.end))
                 B == Cardinality(Seen(Q, s.ip, s.start, s.end))
      <4>5. A \in Nat /\ B \in Nat /\ A <= B
        BY <2>1, <4>3, <4>4, SeenMore
      <4>6. s.pages <= A
        BY <2>0, <3>1 DEF R
      <4> HIDE DEF A, B
      <4>7. s.pages <= B
        BY <2>1, <4>5, <4>6
      <4> QED BY <4>7 DEF B, Q
    <3>4. CASE "pagesCut" \in lag' /\ rows' = rows \ {r \in rows : r.line.ts < Cutoff}
      <4>1. s.start >= Cutoff
        BY <1>1, <3>4 DEF Recent
      <4>2. \A r \in rows : r.line.ts \in Nat
        BY DEF RowsInv, AllRows, RowOK
      <4>3. \A r \in rows : r.line.ts \in s.start..s.end => ~(r.line.ts < Cutoff)
        BY <2>1, <4>1, <4>2
      <4>4. Seen(rows', s.ip, s.start, s.end) = Seen(rows, s.ip, s.start, s.end)
        BY <3>4, <4>3 DEF Seen, Views
      <4> QED BY <2>0, <3>1, <4>4
    <3> QED BY <1>1, <3>2, <3>3, <3>4, RowsBehind
  <2>3. CASE ~Rests
    <3>0. rows' = rows
      BY <2>3, RowsBehind
    <3>1. DeleteOldSessions \/ DeleteState \/ InsertState \/ ClearSessions \/ ClearState
      BY <2>3, SessionMoves
    <3>2. CASE DeleteOldSessions
      <4>1. sessions' = {z \in sessions : z.start >= Cutoff}
            /\ lag' = (lag \cup {"sessCut", "state"}) \ {"pagesCut"}
        BY <3>2, SessionWrites
      <4>2. "pages" \notin lag /\ Recent(s)
        BY <1>1, <4>1 DEF Recent
      <4> QED BY <2>0, <3>0, <4>2
    <3>3. CASE DeleteState \/ InsertState \/ ClearState
      <4>1. \/ lag' = lag \cup {"state"} \/ lag' = lag \ {"state"}
            \/ lag' = lag \ (IF overlap THEN {} ELSE {"state"})
        BY <3>3, SessionWrites
      <4>2. "pages" \notin lag /\ ("pagesCut" \notin lag' => "pagesCut" \notin lag)
        BY <1>1, <4>1
      <4>3. Recent(s)
        BY <1>1, <4>2 DEF Recent
      <4> QED BY <2>0, <3>0, <4>2, <4>3
    <3>4. CASE ClearSessions
      <4>1. sessions' = {}
        BY <3>4, SessionWrites
      <4> QED BY <4>1
    <3> QED BY <3>1, <3>2, <3>3, <3>4
  <2> QED BY <2>2, <2>3
<1> QED BY <1>0, <1>1, StillPages

LEMMA PagesStep ==
  ASSUME IdsInv, RowsInv, RowsInv', VisitsInv, SessInv, SessInv', LocksInv, OwnInv, EndsInv,
         VisitsOnce, PagesInv, [Next]_vars
  PROVE  PagesInv'
<1>0. Shape
  BY DEF IdsInv
<1>a. ASSUME UNCHANGED <<rows, sessions, lag>>,
             \A u \in Workers :
               \/ /\ tx'[u].new = tx[u].new /\ tx'[u].upd = tx[u].upd
                  /\ Done(tx[u]) \subseteq Done(tx'[u])
               \/ Blank(tx'[u])
      PROVE  PagesInv'
  <2>1. "pages" \notin lag' => \A s \in sessions' : Recent(s)' =>
           s.pages <= Cardinality(Seen(rows', s.ip, s.start, s.end))
    BY <1>a DEF PagesInv, Recent
  <2>2. sessions' \subseteq sessions
    BY <1>a
  <2> QED BY <1>a, <2>1, <2>2, StillPages
<1>1. ASSUME NEW w \in Workers, Begin(w) \/ Work(w) \/ Fail(w) PROVE PagesInv'
  <2>0. ASSUME Only(w), UNCHANGED <<rows, sessions, lag>>,
               \/ /\ tx'[w].new = tx[w].new /\ tx'[w].upd = tx[w].upd
                  /\ Done(tx[w]) \subseteq Done(tx'[w])
               \/ Blank(tx'[w])
        PROVE  PagesInv'
    <3>1. ASSUME NEW u \in Workers
          PROVE  \/ /\ tx'[u].new = tx[u].new /\ tx'[u].upd = tx[u].upd
                    /\ Done(tx[u]) \subseteq Done(tx'[u])
                 \/ Blank(tx'[u])
      <4>1. CASE u = w
        BY <2>0, <4>1
      <4>2. CASE u # w
        <5>1. tx'[u] = tx[u]
          BY <2>0, <4>2 DEF Only
        <5> QED BY <5>1
      <4> QED BY <4>1, <4>2
    <3> QED BY <1>a, <2>0, <3>1
  <2>1. CASE Begin(w) \/ DeadlockVictim(w) \/ Fail(w)
    BY <1>0, <2>0, <2>1, BlankSteps
  <2>2. CASE GetOrCreateDimID(w)
    <3>1. /\ Only(w) /\ UNCHANGED <<rows, sessions, lag>> /\ tx'[w].visits = tx[w].visits
          /\ tx'[w].mine = tx[w].mine /\ tx'[w].new = tx[w].new /\ tx'[w].upd = tx[w].upd
      BY <1>0, <2>2, DimFields
    <3>2. Done(tx[w]) \subseteq Done(tx'[w])
      BY <3>1 DEF Done
    <3> QED BY <2>0, <3>1, <3>2
  <2>3. CASE BulkInsertLogRows(w)
    <3>1. /\ Only(w) /\ UNCHANGED <<rows, sessions, lag>> /\ tx[w].phase = "rows"
          /\ tx'[w].new = tx[w].new /\ tx'[w].upd = tx[w].upd
      BY <1>0, <2>3, InsertFields
    <3>2. Done(tx[w]) \subseteq Done(tx'[w])
      BY <3>1 DEF Done, LocksInv, Blank
    <3> QED BY <2>0, <3>1, <3>2
  <2>4. CASE NoVisit(w)
    <3>1. Only(w) /\ UNCHANGED <<rows, sessions, lag>>
      BY <1>0, <2>4, VisitFields
    <3>2. tx'[w].new = tx[w].new /\ tx'[w].upd = tx[w].upd
      BY <1>0, <2>4, NoVisitFields
    <3>3. Done(tx[w]) \subseteq Done(tx'[w])
      BY <1>0, <2>4, VisitDone
    <3> QED BY <2>0, <3>1, <3>2, <3>3
  <2>5. CASE VisitOpens(w)
    BY <1>0, <2>5, OpensPages
  <2>6. CASE VisitExtends(w)
    BY <1>0, <2>6, ExtendsPages
  <2>7. CASE Commit(w)
    <3>1. Rewrites(w) /\ rows' = rows \cup tx[w].mine /\ tx[w].visits = <<>> /\ lag' = lag
      BY <1>0, <2>7, CommitRewrites DEF Commit
    <3> QED BY <3>1, CommitPages
  <2> QED BY <1>1, <2>1, <2>2, <2>3, <2>4, <2>5, <2>6, <2>7 DEF Work
<1>2. CASE Statement
  <2>1. tx' = tx
    BY <1>0, <1>2, StatementSteps, MigrateSteps DEF Shape, Deletes, Removes
  <2>2. CASE Resession
    <3>1. rows' = rows
      BY <2>2 DEF Resession, SetSessions
    <3> QED BY <2>1, <2>2, <3>1, ResessionPages
  <2>3. CASE ~Resession
    BY <1>0, <1>2, <2>1, <2>3, StatementPages
  <2> QED BY <2>2, <2>3
<1>3. CASE Crash
  <2>1. UNCHANGED <<rows, sessions, lag>> /\ \A w \in Workers : Blank(tx'[w])
    BY <1>3, BlankIdle DEF Crash, visitTables, history
  <2> QED BY <1>a, <2>1
<1>4. CASE (\E k \in {"clean", "clear", "rebuild"} : BeginJob(k)) \/ StatementFails \/ UNCHANGED vars
  <2>1. UNCHANGED <<rows, sessions, lag, tx>>
    BY <1>4 DEF BeginJob, StatementFails, vars, visitTables, history
  <2> QED BY <1>a, <2>1
<1> QED BY <1>1, <1>2, <1>3, <1>4 DEF Next

----------------------------
(* THE SESSIONS ARE SOUND *)

\* What session_state, and a transaction, say of a visitor is a session and a time.
IsEntry(e) == e = [session |-> e.session, last |-> e.last]
EntriesInv ==
  /\ \A i \in DOMAIN sstate : IsEntry(sstate[i])
  /\ \A w \in Workers : \A i \in DOMAIN tx[w].cache : IsEntry(tx[w].cache[i])

LEMMA EntryNew == \A x, y : IsEntry([session |-> x, last |-> y])
BY DEF IsEntry

LEMMA ForgetsEntries ==
  ASSUME EntriesInv, Forgets, \A i \in DOMAIN sstate' : IsEntry(sstate'[i])
  PROVE  EntriesInv'
<1>1. ASSUME NEW u \in Workers, NEW i \in DOMAIN tx'[u].cache PROVE IsEntry(tx'[u].cache[i])
  <2>1. CASE tx'[u].cache = tx[u].cache
    BY <1>1, <2>1 DEF EntriesInv
  <2>2. CASE tx'[u].cache = <<>>
    BY <1>1, <2>2
  <2> QED BY <2>1, <2>2 DEF Forgets
<1> QED BY <1>1 DEF EntriesInv

LEMMA VisitEntries ==
  ASSUME EntriesInv, NEW w \in Workers, Only(w), sstate' = sstate, NEW i, NEW e, IsEntry(e),
         tx'[w].cache = Put(tx[w].cache, i, e)
  PROVE  EntriesInv'
<1>1. ASSUME NEW u \in Workers, NEW j \in DOMAIN tx'[u].cache PROVE IsEntry(tx'[u].cache[j])
  <2>1. CASE u = w
    <3>1. \/ tx'[w].cache[j] = e
          \/ j \in DOMAIN tx[w].cache /\ tx'[w].cache[j] = tx[w].cache[j]
      BY <2>1, PutEach
    <3> QED BY <2>1, <3>1 DEF EntriesInv
  <2>2. CASE u # w
    <3>1. tx'[u] = tx[u]
      BY <2>2 DEF Only
    <3> QED BY <3>1 DEF EntriesInv
  <2> QED BY <2>1, <2>2
<1> QED BY <1>1 DEF EntriesInv

LEMMA EntriesStep ==
  ASSUME IdsInv, EntriesInv, [Next]_vars
  PROVE  EntriesInv'
<1>0. Shape /\ \A i \in DOMAIN sstate : IsEntry(sstate[i])
  BY DEF IdsInv, EntriesInv
<1>a. \A i \in DOMAIN StateOf(sessions) : IsEntry(StateOf(sessions)[i])
  BY EntryNew DEF StateOf
<1>1. ASSUME NEW w \in Workers, Begin(w) \/ Work(w) \/ Fail(w) PROVE EntriesInv'
  <2>1. CASE Begin(w) \/ DeadlockVictim(w) \/ Fail(w) \/ GetOrCreateDimID(w)
             \/ BulkInsertLogRows(w) \/ NoVisit(w)
    <3>1. Forgets /\ sstate' = sstate
      BY <1>0, <2>1, PlainForgets
    <3> QED BY <1>0, <3>1, ForgetsEntries
  <2>2. CASE VisitOpens(w)
    <3>1. /\ Only(w) /\ sstate' = sstate
          /\ tx'[w].cache = Put(tx[w].cache, NextRow(w).ip,
                                [session |-> nextSession, last |-> NextRow(w).line.ts])
      BY <1>0, <2>2, VisitFields, OpensFields
    <3> QED BY <3>1, EntryNew, VisitEntries
  <2>3. CASE VisitExtends(w)
    <3>1. /\ Only(w) /\ sstate' = sstate
          /\ tx'[w].cache = Put(tx[w].cache, NextRow(w).ip,
                                [session |-> StateOfNext(w).session, last |-> NextRow(w).line.ts])
      BY <1>0, <2>3, VisitFields, ExtendsFields
    <3> QED BY <3>1, EntryNew, VisitEntries
  <2>4. CASE Commit(w)
    <3>1. Only(w) /\ Blank(tx'[w]) /\ sstate' = Over(tx[w].cache, sstate)
      BY <1>0, <2>4, CommitRewrites, BlankIdle DEF Rewrites
    <3>2. ASSUME NEW i \in DOMAIN sstate' PROVE IsEntry(sstate'[i])
      <4>1. \/ i \in DOMAIN tx[w].cache /\ sstate'[i] = tx[w].cache[i]
            \/ i \in DOMAIN sstate /\ sstate'[i] = sstate[i]
        BY <3>1, <3>2, OverEach
      <4> QED BY <4>1 DEF EntriesInv
    <3>3. ASSUME NEW u \in Workers, NEW i \in DOMAIN tx'[u].cache PROVE IsEntry(tx'[u].cache[i])
      <4>1. CASE u = w
        BY <3>1, <3>3, <4>1 DEF Blank
      <4>2. CASE u # w
        <5>1. tx'[u] = tx[u]
          BY <3>1, <4>2 DEF Only
        <5> QED BY <3>3, <5>1 DEF EntriesInv
      <4> QED BY <4>1, <4>2
    <3> QED BY <3>2, <3>3 DEF EntriesInv
  <2> QED BY <1>1, <2>1, <2>2, <2>3, <2>4 DEF Work
<1>2. CASE Statement
  <2>0. tx' = tx
    BY <1>0, <1>2, StatementSteps, MigrateSteps DEF Shape, Deletes, Removes
  <2>1. \/ sstate' \in {sstate, <<>>}
        \/ sstate' = Over(StateOf(sessions), sstate)
        \/ \E S : sstate' = StateOf(S)
    BY <1>2, SessionMoves, SessionWrites DEF Rests, Resession, SetSessions
  <2>2. \A i \in DOMAIN sstate' : IsEntry(sstate'[i])
    <3>1. CASE sstate' \in {sstate, <<>>}
      BY <1>0, <3>1
    <3>2. CASE sstate' = Over(StateOf(sessions), sstate)
      <4> SUFFICES ASSUME NEW i \in DOMAIN sstate' PROVE IsEntry(sstate'[i])
        OBVIOUS
      <4>1. \/ i \in DOMAIN StateOf(sessions) /\ sstate'[i] = StateOf(sessions)[i]
            \/ i \in DOMAIN sstate /\ sstate'[i] = sstate[i]
        BY <3>2, OverEach
      <4> QED BY <1>0, <1>a, <4>1
    <3>3. CASE \E S : sstate' = StateOf(S)
      BY <3>3, EntryNew DEF StateOf
    <3> QED BY <2>1, <3>1, <3>2, <3>3
  <2> QED BY <2>0, <2>2 DEF EntriesInv
<1>3. CASE Crash
  <2>1. sessions' = sessions /\ sstate' = sstate /\ \A w \in Workers : Blank(tx'[w])
    BY <1>3, BlankIdle DEF Crash, visitTables
  <2>2. Forgets
    BY <2>1 DEF Forgets, Blank
  <2> QED BY <1>0, <2>1, <2>2, ForgetsEntries
<1>4. CASE (\E k \in {"clean", "clear", "rebuild"} : BeginJob(k)) \/ StatementFails \/ UNCHANGED vars
  <2>1. UNCHANGED <<sstate, tx>>
    BY <1>4 DEF BeginJob, StatementFails, vars, visitTables
  <2> QED BY <2>1 DEF EntriesInv
<1> QED BY <1>1, <1>2, <1>3, <1>4 DEF Next

\* The entry of a visitor whose newest session it names.
LEMMA EntryOfState ==
  ASSUME NEW S, IsFiniteSet(S), \A s \in S : s \in SessionSet /\ s.start <= s.end,
         NEW i, NEW e, IsEntry(e), Found(e, Of(S, i)), Newest(e, Of(S, i)), EndOK(e, Of(S, i))
  PROVE  e = StateOf(S)[i]
<1> DEFINE m == Latest(S, i)
<1>1. PICK s \in S : s.ip = i /\ s.id = e.session
  BY DEF Found, Of
<1>2. m \in S /\ m.ip = i /\ (s.end < m.end \/ (s.end = m.end /\ s.id <= m.id))
  BY <1>1, LatestIs
<1>3. m # s => m.end + Gap < s.start
  BY <1>1, <1>2 DEF Newest, Of
<1>4. s.end = e.last
  BY <1>1 DEF EndOK, Of
<1>5. StateOf(S)[i] = [session |-> m.id, last |-> m.end]
  BY <1>1 DEF StateOf
<1> HIDE DEF m
<1>6. m = s
  <2> SUFFICES ASSUME m # s PROVE FALSE
    OBVIOUS
  <2>1. m.end \in Nat /\ s.start \in Nat /\ s.end \in Nat /\ s.start <= s.end /\ Gap \in Nat
    BY <1>2, BucketsAssumption DEF SessionSet
  <2> QED BY <1>2, <1>3, <2>1
<1> QED BY <1>1, <1>4, <1>5, <1>6 DEF IsEntry

\* All that the soundness of the sessions rests on.
SessionsInv ==
  /\ TablesInv /\ LocksInv /\ OwnInv /\ EndsInv /\ CleanInv /\ SepInv /\ StateInv
  /\ VisitsOnce /\ PagesInv /\ EntriesInv

LEMMA SessionsInvSound ==
  ASSUME SessionsInv
  PROVE  SessionsSound
<1> USE DEF SessionsInv
<1>1. PagesAreViews
  <2> SUFFICES ASSUME "pages" \notin lag, "pagesCut" \notin lag, NEW s \in sessions
               PROVE  s.pages <= Cardinality({r \in Views(rows) :
                         r.ip = s.ip /\ r.line.ts \in s.start..s.end})
    BY DEF PagesAreViews
  <2>1. s.pages <= Cardinality(Seen(rows, s.ip, s.start, s.end))
    BY DEF PagesInv, Recent
  <2> QED BY <2>1 DEF Seen
<1>2. SessionsSeparated
  BY DEF SessionsSeparated, SepInv, Spaced, Of
<1>3. StateFollowsSessions
  <2> SUFFICES ASSUME "state" \notin lag
               PROVE  /\ DOMAIN sstate \cup blurred = {s.ip : s \in sessions} \cup blurred
                      /\ \A i \in DOMAIN sstate \ blurred : sstate[i] = StateOf(sessions)[i]
    BY DEF StateFollowsSessions
  <2>1. ASSUME NEW i, i \notin blurred
        PROVE  i \in DOMAIN sstate <=> \E s \in sessions : s.ip = i
    <3>1. Followed(i)
      BY <2>1 DEF StateInv
    <3> QED BY <3>1 DEF Followed, Found, Of
  <2>2. DOMAIN sstate \cup blurred = {s.ip : s \in sessions} \cup blurred
    BY <2>1
  <2>3. ASSUME NEW i \in DOMAIN sstate \ blurred PROVE sstate[i] = StateOf(sessions)[i]
    <3> DEFINE S == sessions
               e == sstate[i]
    <3>1. Followed(i)
      BY <2>3 DEF StateInv
    <3>2. Found(e, Of(S, i))
      BY <2>3, <3>1 DEF Followed
    <3>3. Newest(e, Of(S, i)) /\ EndOK(e, Of(S, i)) /\ IsEntry(e)
      BY <2>3 DEF SepInv, EndsInv, EntriesInv
    <3>4. IsFiniteSet(S) /\ \A s \in S : s \in SessionSet /\ s.start <= s.end
      BY DEF TablesInv, SessInv, AllSessions, SessionOK
    <3> HIDE DEF e, S
    <3>5. e = StateOf(S)[i]
      BY <3>2, <3>3, <3>4, EntryOfState
    <3> QED BY <3>5 DEF e, S
  <2> QED BY <2>2, <2>3
<1> QED BY <1>1, <1>2, <1>3 DEF SessionsSound

LEMMA InitSessions == Init => SessionsInv
<1> SUFFICES ASSUME Init PROVE SessionsInv
  OBVIOUS
<1>1. TablesInv /\ CleanInv /\ ~At("InsertState")
  BY InitTables, InitClean
<1>2. /\ rows = {} /\ sessions = {} /\ sstate = <<>>
      /\ \A w \in Workers : Blank(tx[w])
  BY BlankIdle DEF Init
<1>3. LocksInv /\ OwnInv /\ EndsInv /\ EntriesInv
  <2>1. LocksInv
    BY <1>2 DEF LocksInv, Blank
  <2>2. OwnInv
    BY <1>2 DEF OwnInv, Own, UpdOwn, Blank
  <2>3. EndsInv
    BY <1>2 DEF EndsInv, Blank
  <2>4. EntriesInv
    BY <1>2 DEF EntriesInv, Blank
  <2> QED BY <2>1, <2>2, <2>3, <2>4
<1>4. SepInv /\ StateInv
  <2>1. \A i : Of(sessions, i) = {}
    BY <1>2 DEF Of
  <2>2. SepInv
    BY <1>2, <2>1 DEF SepInv, Spaced, Blank
  <2>3. StateInv
    BY <1>1, <1>2, <2>1 DEF StateInv, Followed
  <2> QED BY <2>2, <2>3
<1>5. VisitsOnce /\ PagesInv
  BY <1>2 DEF VisitsOnce, NoRowTwice, PagesInv, Blank
<1> QED BY <1>1, <1>3, <1>4, <1>5 DEF SessionsInv

LEMMA SessionsStep == SessionsInv /\ [Next]_vars => SessionsInv'
<1> SUFFICES ASSUME SessionsInv, [Next]_vars PROVE SessionsInv'
  OBVIOUS
<1> USE DEF SessionsInv
<1>1. TablesInv'
  BY TablesStep
<1>2. RowsInv' /\ SessInv'
  BY <1>1 DEF TablesInv
<1>3. LocksInv'
  BY LocksStep DEF TablesInv
<1>4. OwnInv'
  BY OwnStep DEF TablesInv
<1>5. EndsInv'
  BY EndsStep DEF TablesInv
<1>6. CleanInv'
  BY CleanStep DEF TablesInv, JobInv
<1>7. SepInv' /\ StateInv'
  BY SepStep DEF TablesInv
<1>8. VisitsOnce'
  BY VisitsOnceStep DEF TablesInv
<1>9. PagesInv'
  BY <1>2, PagesStep DEF TablesInv
<1>10. EntriesInv'
  BY EntriesStep DEF TablesInv
<1> QED BY <1>1, <1>3, <1>4, <1>5, <1>6, <1>7, <1>8, <1>9, <1>10

(* The sessions, which transactions open and extend visit by visit while others do and *)
(* while jobs rewrite them, stay sound (batchInsertLogsForWebsiteOnce with the rows of *)
(* session_state it locks, CleanOldLogs, ClearLogsForWebsite, the rebuild): two of a *)
(* visitor lie more than the gap apart, none counts a page view twice or one that is *)
(* not stored, and session_state names the last one and its end. *)
THEOREM SessionsAreSound == Spec => []SessionsSound
<1>1. SessionsInv => SessionsSound
  BY SessionsInvSound
<1> QED BY InitSessions, SessionsStep, <1>1, PTL DEF Spec
=============================================================================
