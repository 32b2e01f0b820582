--------------------------- MODULE StoreContract ---------------------------
(***************************************************************************)
(* What the log table of a website and its counters per day promise to the   *)
(* scan and to the pushes that insert at once: every batch is stored in one   *)
(* step or not at all, a line with a fingerprint once, and what is stored is  *)
(* counted in the same step.  LogStore implements it.                       *)
(***************************************************************************)
EXTENDS DerivedTables

CONSTANTS Batches, Days

VARIABLES
  stored,   \* the rows, as pairs of a line and its id
  dropped,  \* lines that maintenance removed
  daily     \* the counters of each day

vars == <<stored, dropped, daily>>

LinesOf(R) == {r.line : r \in R}
StoredOnce == \A r, q \in stored : r.line = q.line /\ r.line.fp => r = q

Init == stored = {} /\ dropped = {} /\ daily = [d \in Days |-> Zero]

\* The lines of the batch without a fingerprint, and those that are not stored.
Insert(b, S) ==
  /\ stored' = stored \cup S
  /\ LinesOf(S) \subseteq ToSet(b)
  /\ \A r \in S : r.line.fp => r.line \notin LinesOf(stored)
                              /\ \A q \in S : q.line = r.line => q = r
  /\ \A l \in ToSet(b) :
       IF l.fp THEN l \in LinesOf(stored \cup S) \cup dropped
       ELSE Cardinality({r \in S : r.line = l}) = Cardinality({i \in DOMAIN b : b[i] = l})
  /\ daily' = [d \in Days |-> Plus(daily[d], Tally(InDay(S, d)))]
  /\ UNCHANGED dropped

\* Retention, clearing, the range of a reparse.
Delete ==
  /\ stored' \subseteq stored
  /\ dropped' = dropped \cup LinesOf(stored \ stored')
  /\ UNCHANGED daily

\* A maintenance statement on the counters.
Recount ==
  /\ daily' \in [Days -> {daily[d] : d \in Days} \cup {Zero}
                          \cup {Tally(InDay(stored, d)) : d \in Days}]
  /\ \A d \in Days : daily'[d] \in {daily[d], Zero, Tally(InDay(stored, d))}
  /\ UNCHANGED <<stored, dropped>>

\* The rows of a database of an earlier version, which have no fingerprints.
Import ==
  /\ stored = {} /\ \A r \in stored' : ~r.line.fp
  /\ UNCHANGED <<dropped, daily>>

Next ==
  \/ \E b \in Batches : Insert(b, stored' \ stored)
  \/ Delete \/ Recount \/ Import

Spec == Init /\ [][Next]_vars
=============================================================================
