--------------------------- MODULE AgentPushProofs ---------------------------
(* Proofs about AgentPush, for any paths and lines, sizes of the buffers,    *)
(* handlers, faults and crashes: types; that what the agent lets go of is      *)
(* stored; that every line the offset has passed is accounted for; and that    *)
(* what is buffered are whole lines.                                         *)
EXTENDS AgentPush, FiniteSetTheorems, TLAPS

----------------------------------------------------------------------------
(* COUNTING                                                                 *)

\* The elements of a set of integers up to one of them.
UpTo(K, k) == {j \in K : j <= k}

\* The place of an element in the order of a finite set.
LEMMA PlaceType ==
  ASSUME NEW K \in SUBSET Int, IsFiniteSet(K), NEW k \in K
  PROVE  IsFiniteSet(UpTo(K, k)) /\ Cardinality(UpTo(K, k)) \in 1..Cardinality(K)
<1>1. UpTo(K, k) \in SUBSET K /\ k \in UpTo(K, k)
  BY DEF UpTo
<1>2. IsFiniteSet(UpTo(K, k)) /\ Cardinality(UpTo(K, k)) <= Cardinality(K)
  BY <1>1, FS_Subset
<1>3. Cardinality(UpTo(K, k)) \in Nat /\ Cardinality(K) \in Nat
  BY <1>2, FS_CardinalityType
<1>4. Cardinality(UpTo(K, k)) # 0
  BY <1>1, <1>2, FS_EmptySet
<1> QED BY <1>2, <1>3, <1>4

\* It is that of no other.
LEMMA PlaceOwn ==
  ASSUME NEW K \in SUBSET Int, IsFiniteSet(K), NEW a \in K, NEW b \in K,
         Cardinality(UpTo(K, a)) = Cardinality(UpTo(K, b))
  PROVE  a = b
<1>1. ASSUME NEW x \in K, NEW y \in K, x < y
      PROVE  Cardinality(UpTo(K, x)) # Cardinality(UpTo(K, y))
  <2>1. ASSUME NEW z \in K, z <= x
        PROVE  z <= y
    <3>1. x \in Int /\ y \in Int /\ z \in Int
      OBVIOUS
    <3> QED BY <1>1, <2>1, <3>1
  <2>2. UpTo(K, x) \in SUBSET UpTo(K, y)
    BY <2>1 DEF UpTo
  <2>3. y \in UpTo(K, y) /\ y \notin UpTo(K, x)
    BY <1>1 DEF UpTo
  <2>4. IsFiniteSet(UpTo(K, y))
    BY PlaceType
  <2> QED BY <2>2, <2>3, <2>4, FS_Subset
<1>2. ~(a < b) /\ ~(b < a)
  BY <1>1
<1> QED BY <1>2

\* Each place is some element's.
LEMMA PlaceTaken ==
  ASSUME NEW K \in SUBSET Int, IsFiniteSet(K), NEW i \in 1..Cardinality(K)
  PROVE  \E k \in K : Cardinality(UpTo(K, k)) = i
<1> DEFINE place == [k \in K |-> Cardinality(UpTo(K, k))]
<1>1. Cardinality(K) \in Nat
  BY FS_CardinalityType
<1>2. place \in [K -> 1..Cardinality(K)]
  BY PlaceType
<1>3. \A a, b \in K : place[a] = place[b] => a = b
  BY PlaceOwn
<1>4. place \in Injection(K, 1..Cardinality(K))
  BY <1>2, <1>3 DEF Injection, IsInjective
<1>5. IsFiniteSet(1..Cardinality(K)) /\ Cardinality(1..Cardinality(K)) = Cardinality(K)
  BY <1>1, FS_Interval
<1>6. place \in Surjection(K, 1..Cardinality(K))
  BY <1>4, <1>5, FS_Injection
<1> QED BY <1>6 DEF Surjection

USE TextsAssumption, SizesAssumption

----------------------------------------------------------------------------
(* ONE READ                                                                 *)

\* The lines written are numbered, and the offset is not past the file it is about.
Shape ==
  \A p \in Paths :
    /\ base[p] + (size[p] + 1) \div 2 <= MaxLines
    /\ readBase[p] <= base[p]
    /\ readBase[p] = base[p] => offset[p] <= size[p]

\* The variables that are about a path.
LEMMA PathTypes ==
  ASSUME TypeOK, NEW p \in Paths
  PROVE  /\ base[p] \in Nat /\ size[p] \in Nat /\ offset[p] \in Nat
         /\ partial[p] \in 0..MaxLines /\ readBase[p] \in Nat
         /\ pending \in Seq(Items) /\ Len(pending) \in Nat
  BY DEF TypeOK

LEMMA PendingItems ==
  ASSUME TypeOK
  PROVE  /\ DOMAIN pending = 1..Len(pending)
         /\ \A i \in DOMAIN pending : pending[i] \in Items
  BY DEF TypeOK

\* The texts of the items.
LEMMA TextType ==
  ASSUME NEW item \in Items
  PROVE  TextOf(item) \in STRING /\ LineOf(item) \in Line
<1>1. item.path \in Paths /\ item.tail \in 1..MaxLines
  BY DEF Items
<1>2. Text[item.path] \in Seq(STRING) /\ Len(Text[item.path]) = MaxLines
  BY <1>1
<1> HIDE TextsAssumption
<1>3. Text[item.path][item.tail] \in STRING
  BY <1>1, <1>2
<1> QED BY <1>1, <1>3 DEF TextOf, LineOf, Line

LEMMA TypeParts ==
  ASSUME TypeOK
  PROVE  /\ base \in [Paths -> Nat] /\ size \in [Paths -> Nat]
         /\ offset \in [Paths -> Nat] /\ readBase \in [Paths -> Nat]
  BY DEF TypeOK

\* Where a read starts.
LEMMA SkipRange ==
  ASSUME TypeOK, Shape, NEW p \in Paths
  PROVE  /\ Start(p) \in Nat /\ Cut(p) \in Nat /\ Skip(p) \in Nat
         /\ Start(p) <= size[p] /\ Cut(p) <= size[p] /\ Skip(p) <= size[p]
         /\ Start(p) <= Skip(p)
         /\ Skip(p) = Start(p) => Cut(p) = Start(p)
         /\ Skip(p) # Start(p) => Skip(p) % 2 = 0
<1>1. Start(p) \in Nat /\ Start(p) <= size[p]
  BY PathTypes DEF Start, Shrunk
<1>2. CASE Cut(p) = Start(p)
  BY <1>1, <1>2, PathTypes DEF Skip
<1>3. CASE Cut(p) # Start(p)
  <2>1. /\ Start(p) = 0 /\ Cut(p) = size[p] - InitialTail /\ size[p] > InitialTail
         /\ InitialTail >= 2
    BY <1>3 DEF Cut, FirstRead
  <2>2. Cut(p) \in Nat /\ Cut(p) <= size[p] - 2 /\ Cut(p) > 0
    BY <2>1, PathTypes
  <2>3. Skip(p) = 2 * (Cut(p) \div 2 + 1)
    BY <1>3 DEF Skip
  <2> QED BY <2>1, <2>2, <2>3, PathTypes
<1> QED BY <1>2, <1>3

\* The lines that end in the present file.
LEMMA EndsRange ==
  ASSUME TypeOK, Shape, NEW p \in Paths, NEW k \in Ends(p)
  PROVE  /\ k \in Nat /\ k >= 1 /\ 2 * k <= size[p] /\ k <= size[p] \div 2
         /\ 2 * k - 1 >= Skip(p)
         /\ base[p] + k \in 1..MaxLines
<1>1. k \in Int /\ Skip(p) \div 2 + 1 <= k /\ k <= size[p] \div 2
  BY SkipRange, PathTypes DEF Ends
<1>2. base[p] + (size[p] + 1) \div 2 <= MaxLines
  BY DEF Shape
<1>3. k >= 1 /\ 2 * k <= size[p] /\ 2 * k - 1 >= Skip(p)
  BY <1>1, SkipRange, PathTypes
<1> QED BY <1>1, <1>2, <1>3, PathTypes

LEMMA ItemType ==
  ASSUME TypeOK, Shape, NEW p \in Paths, NEW k \in Ends(p)
  PROVE  ItemAt(p, k) \in Items
<1>1. Seed(p) \in 0..MaxLines
  BY PathTypes DEF Seed
<1> QED BY <1>1, EndsRange DEF ItemAt, Items

LEMMA KeptFinite ==
  ASSUME TypeOK, Shape, NEW p \in Paths, NEW last
  PROVE  /\ Kept(p, last) \subseteq Ends(p)
         /\ Kept(p, last) \in SUBSET Int /\ IsFiniteSet(Kept(p, last))
         /\ Cardinality(Kept(p, last)) \in Nat
<1>1. Skip(p) \div 2 + 1 \in Int /\ size[p] \div 2 \in Int
  BY SkipRange, PathTypes
<1>2. IsFiniteSet(Ends(p)) /\ Ends(p) \in SUBSET Int
  BY <1>1, FS_Interval DEF Ends
<1>3. Kept(p, last) \subseteq Ends(p)
  BY DEF Kept
<1>4. IsFiniteSet(Kept(p, last))
  BY <1>2, <1>3, FS_Subset
<1> QED BY <1>2, <1>3, <1>4, FS_CardinalityType

\* The last line of a read: as many lines are kept up to it as there is room for.
LEMMA LastRange ==
  ASSUME TypeOK, Shape, NEW p \in Paths, Len(pending) < MaxPending
  PROVE  /\ LastOf(p) \in 0..(size[p] \div 2)
         /\ Room(p) \in 1..Remaining
         /\ Cardinality(Kept(p, LastOf(p))) <= Room(p)
         /\ Stopped(p) => LastOf(p) \in Ends(p)
         /\ ~Stopped(p) => LastOf(p) = size[p] \div 2
<1> DEFINE all == Kept(p, size[p] \div 2)
<1>1. Room(p) \in 1..Remaining
  BY PathTypes DEF Room, Remaining, Least
<1>2. IsFiniteSet(all) /\ all \in SUBSET Int /\ all \subseteq Ends(p) /\ Cardinality(all) \in Nat
  BY KeptFinite
<1>3. CASE Cardinality(all) < Room(p)
  <2>1. LastOf(p) = size[p] \div 2 /\ ~Stopped(p)
    BY <1>1, <1>2, <1>3 DEF LastOf, Stopped, Remaining
  <2> QED BY <1>1, <1>2, <1>3, <2>1, PathTypes
<1>4. CASE Cardinality(all) >= Room(p)
  <2>1. Room(p) \in 1..Cardinality(all)
    BY <1>1, <1>2, <1>4
  <2>2. PICK k \in all : Cardinality(UpTo(all, k)) = Room(p)
    BY <1>2, <2>1, PlaceTaken
  <2>3. UpTo(all, k) = Kept(p, k)
    BY <2>2, <1>2, EndsRange DEF UpTo, Kept
  <2>4. k \in Ends(p) /\ k \in UpTo(all, k) /\ Cardinality(Kept(p, k)) = Room(p)
    <3>1. k \in Ends(p) /\ k \in Int
      BY <1>2
    <3>2. k \in UpTo(all, k)
      BY <3>1 DEF UpTo
    <3> QED BY <2>2, <2>3, <3>1, <3>2
  <2>5. LastOf(p) = CHOOSE j \in Ends(p) : j \in Kept(p, j) /\ Cardinality(Kept(p, j)) = Room(p)
    BY <1>1, <1>2, <1>4 DEF LastOf
  <2>6. LastOf(p) \in Ends(p) /\ Cardinality(Kept(p, LastOf(p))) = Room(p)
    BY <2>3, <2>4, <2>5
  <2>7. LastOf(p) \in 0..(size[p] \div 2)
    BY <2>6, EndsRange, PathTypes
  <2>8. Stopped(p)
    BY <1>4 DEF Stopped
  <2> QED BY <1>1, <2>6, <2>7, <2>8
<1> QED BY <1>1, <1>2, <1>3, <1>4

\* The lines of a read are those kept, each once.
LEMMA LinesType ==
  ASSUME TypeOK, Shape, NEW p \in Paths
  PROVE  /\ LinesRead(p) \in Seq(Items)
         /\ Len(LinesRead(p)) = Cardinality(Kept(p, LastOf(p)))
         /\ \A k \in Kept(p, LastOf(p)) : \E i \in DOMAIN LinesRead(p) :
              LinesRead(p)[i] = ItemAt(p, k)
         /\ \A i \in DOMAIN LinesRead(p) : \E k \in Kept(p, LastOf(p)) :
              LinesRead(p)[i] = ItemAt(p, k)
<1> DEFINE kept == Kept(p, LastOf(p))
           n == Cardinality(kept)
           nth(i) == CHOOSE k \in kept : Cardinality(UpTo(kept, k)) = i
<1>1. IsFiniteSet(kept) /\ kept \in SUBSET Int /\ kept \subseteq Ends(p) /\ n \in Nat
  BY KeptFinite
<1>2. LinesRead(p) = [i \in 1..n |-> ItemAt(p, nth(i))]
  BY DEF LinesRead, UpTo
<1>3. ASSUME NEW i \in 1..n
      PROVE  nth(i) \in kept /\ Cardinality(UpTo(kept, nth(i))) = i
  <2>1. \E k \in kept : Cardinality(UpTo(kept, k)) = i
    BY <1>1, PlaceTaken
  <2> QED BY <2>1
<1>4. ASSUME NEW k \in kept
      PROVE  Cardinality(UpTo(kept, k)) \in 1..n /\ nth(Cardinality(UpTo(kept, k))) = k
  <2>1. Cardinality(UpTo(kept, k)) \in 1..n
    BY <1>1, PlaceType
  <2> QED BY <1>1, <1>3, <2>1, PlaceOwn
<1> HIDE DEF nth, n, kept
<1>5. \A i \in 1..n : ItemAt(p, nth(i)) \in Items
  BY <1>1, <1>3, ItemType
<1>6. LinesRead(p) \in Seq(Items) /\ Len(LinesRead(p)) = n /\ DOMAIN LinesRead(p) = 1..n
  BY <1>1, <1>2, <1>5
<1>7. \A k \in kept : \E i \in 1..n : LinesRead(p)[i] = ItemAt(p, k)
  BY <1>2, <1>4
<1>8. \A i \in 1..n : \E k \in kept : LinesRead(p)[i] = ItemAt(p, k)
  BY <1>2, <1>3
<1> QED BY <1>6, <1>7, <1>8 DEF kept, n

\* Where a read ends, and the half line it keeps.
LEMMA EndRange ==
  ASSUME TypeOK, Shape, NEW p \in Paths, Len(pending) < MaxPending
  PROVE  /\ EndOf(p) \in Nat /\ EndOf(p) <= size[p] /\ size[p] <= 2 * MaxLines
         /\ PartialOf(p) \in 0..MaxLines
         /\ EndOf(p) % 2 = 1 => ~Stopped(p) /\ EndOf(p) = size[p]
<1>1. 2 * LastOf(p) \in Nat /\ 2 * LastOf(p) <= size[p]
  BY LastRange, PathTypes
<1>2. size[p] <= 2 * MaxLines
  BY PathTypes DEF Shape
<1>3. size[p] % 2 # 0 => base[p] + size[p] \div 2 + 1 \in 0..MaxLines
  BY PathTypes DEF Shape
<1>4. PartialOf(p) \in 0..MaxLines
  BY <1>3 DEF PartialOf
<1>5. EndOf(p) \in Nat /\ EndOf(p) <= size[p]
  BY <1>1, PathTypes DEF EndOf
<1>6. EndOf(p) % 2 = 1 => ~Stopped(p) /\ EndOf(p) = size[p]
  <2>1. LastOf(p) \in Int
    BY LastRange, PathTypes
  <2>2. (2 * LastOf(p)) % 2 # 1
    BY <2>1
  <2> QED BY <2>2 DEF EndOf
<1> QED BY <1>2, <1>4, <1>5, <1>6

\* The lines in front of a cell of the present file.
LEMMA UptoLines ==
  ASSUME TypeOK, Shape, NEW p \in Paths, NEW c \in Nat, c <= (size[p] + 1) \div 2
  PROVE  \A k \in 1..c : <<p, base[p] + k>> \in Line
<1> SUFFICES ASSUME NEW k \in 1..c
             PROVE  base[p] + k \in 1..MaxLines
  BY DEF Line
<1> QED BY PathTypes DEF Shape

----------------------------------------------------------------------------
(* TYPE CORRECTNESS                                                         *)

AgentType == TypeOK /\ Shape

LEMMA FreeType == Free \in Requests /\ [Free EXCEPT !.status = "failed"] \in Requests
<1>1. << >> \in Seq(Items) /\ {} \in SUBSET STRING
  OBVIOUS
<1> QED BY <1>1 DEF Free, Requests

LEMMA InitType == Init => AgentType
<1> SUFFICES ASSUME Init
             PROVE  TypeOK /\ Shape
  BY DEF AgentType
<1>1. pending \in Seq(Items) /\ Len(pending) <= MaxPending
  BY DEF Init
<1>3. push \in Pushes
  BY DEF Init, NewPush, Pushes, FailureCap
<1>5. req \in [Handlers -> Requests]
  BY FreeType DEF Init
<1>6. /\ base \in [Paths -> 0..MaxLines] /\ size \in [Paths -> 0..2 * MaxLines]
      /\ offset \in [Paths -> 0..2 * MaxLines] /\ partial \in [Paths -> 0..MaxLines]
      /\ readBase \in [Paths -> 0..MaxLines]
  <2>1. 0 \in 0..MaxLines /\ 0 \in 0..2 * MaxLines
    OBVIOUS
  <2> QED BY <2>1 DEF Init
<1>7. TypeOK
  BY <1>1, <1>3, <1>5, <1>6 DEF Init, TypeOK
<1>8. Shape
  BY DEF Init, Shape
<1> QED BY <1>7, <1>8

LEMMA FaultType ==
  ASSUME TypeOK, Fault \/ Crash
  PROVE  spent' \in [faults: 0..MaxFaults, crashes: 0..MaxCrashes]
  BY DEF TypeOK, Fault, Crash

LEMMA FileKeepType ==
  ASSUME AgentType, NEW p \in Paths, Write(p) \/ Rotate(p)
  PROVE  AgentType'
<1> USE DEF AgentType
<1>1. CASE Write(p)
  <2>1. PICK half \in {1, 2} : half <= 2 - (size[p] % 2) /\ size' = [size EXCEPT ![p] = @ + half]
    BY <1>1 DEF Write
  <2>2. base[p] + (size[p] + half + 1) \div 2 <= MaxLines
    <3>1. base[p] + size[p] \div 2 < MaxLines
      BY <1>1 DEF Write
    <3>2. CASE half = 1
      <4>1. (size[p] + 1 + 1) \div 2 = size[p] \div 2 + 1
        BY PathTypes
      <4> QED BY <3>1, <3>2, <4>1, PathTypes
    <3>3. CASE half = 2
      <4>1. size[p] % 2 = 0
        BY <2>1, <3>3, PathTypes
      <4>2. ASSUME NEW n \in Nat, n % 2 = 0
            PROVE  (n + 2 + 1) \div 2 = n \div 2 + 1
        BY <4>2
      <4>3. (size[p] + 2 + 1) \div 2 = size[p] \div 2 + 1
        BY <4>1, <4>2, PathTypes
      <4> QED BY <3>1, <3>3, <4>3, PathTypes
    <3> QED BY <3>2, <3>3
  <2>3. size[p] + half \in 0..2 * MaxLines
    BY <2>2, PathTypes
  <2>4. TypeOK'
    BY <1>1, <2>1, <2>3 DEF TypeOK, Write, readVars, serverVars
  <2>5. ASSUME NEW q \in Paths
        PROVE  /\ base'[q] + (size'[q] + 1) \div 2 <= MaxLines
               /\ readBase'[q] <= base'[q]
               /\ readBase'[q] = base'[q] => offset'[q] <= size'[q]
    <3>1. base' = base /\ readBase' = readBase /\ offset' = offset
      BY <1>1 DEF Write, readVars
    <3>2. size'[q] = IF q = p THEN size[p] + half ELSE size[q]
      BY <2>1, TypeParts
    <3>3. CASE q = p
      BY <2>1, <2>2, <3>1, <3>2, <3>3, PathTypes DEF Shape
    <3>4. CASE q # p
      BY <3>1, <3>2, <3>4 DEF Shape
    <3> QED BY <3>3, <3>4
  <2>6. Shape'
    BY <2>5 DEF Shape
  <2> QED BY <2>4, <2>6
<1>2. CASE Rotate(p)
  <2>1. base[p] + size[p] \div 2 \in 0..MaxLines /\ size[p] \div 2 >= 1
    BY <1>2, PathTypes DEF Rotate, Shape
  <2>2. From(p, IF readBase[p] = base[p] THEN offset[p] \div 2 + 1 ELSE 1) \subseteq Line
    <3> DEFINE first == IF readBase[p] = base[p] THEN offset[p] \div 2 + 1 ELSE 1
    <3>1. first \in Nat \ {0}
      BY PathTypes
    <3>2. \A k \in first..(size[p] \div 2) : base[p] + k \in 1..MaxLines
      BY <2>1, <3>1, PathTypes
    <3> QED BY <3>2 DEF From, Line
  <2>3. TypeOK'
    <3>1. base' \in [Paths -> 0..MaxLines]
      BY <1>2, <2>1 DEF TypeOK, Rotate
    <3>2. size' \in [Paths -> 0..2 * MaxLines]
      <4>1. 0 \in 0..2 * MaxLines
        OBVIOUS
      <4> QED BY <1>2, <4>1 DEF TypeOK, Rotate
    <3>3. missed' \subseteq Line
      BY <1>2, <2>2 DEF TypeOK, Rotate
    <3> QED BY <1>2, <3>1, <3>2, <3>3 DEF TypeOK, Rotate, readVars, serverVars
  <2>4. ASSUME NEW q \in Paths
        PROVE  /\ base'[q] + (size'[q] + 1) \div 2 <= MaxLines
               /\ readBase'[q] <= base'[q]
               /\ readBase'[q] = base'[q] => offset'[q] <= size'[q]
    <3>1. CASE q = p
      <4>1. base'[p] = base[p] + size[p] \div 2 /\ size'[p] = 0
            /\ readBase' = readBase /\ offset' = offset
        BY <1>2, TypeParts DEF Rotate, readVars
      <4>2. readBase[p] <= base[p]
        BY DEF Shape
      <4> QED BY <2>1, <3>1, <4>1, <4>2, PathTypes
    <3>2. CASE q # p
      BY <1>2, <3>2 DEF Rotate, TypeOK, Shape, readVars
    <3> QED BY <3>1, <3>2
  <2>5. Shape'
    BY <2>4 DEF Shape
  <2> QED BY <2>3, <2>5
<1> QED BY <1>1, <1>2

\* The offset of a path is moved in its present file.
LEMMA MovedShape ==
  ASSUME TypeOK, Shape, NEW p \in Paths, NEW cell \in Nat, cell <= size[p],
         base' = base, size' = size, offset' = [offset EXCEPT ![p] = cell],
         readBase' = [readBase EXCEPT ![p] = base[p]]
  PROVE  Shape' /\ offset' \in [Paths -> 0..2 * MaxLines]
                /\ readBase' \in [Paths -> 0..MaxLines]
<1>1. ASSUME NEW q \in Paths
      PROVE  /\ base'[q] + (size'[q] + 1) \div 2 <= MaxLines
             /\ readBase'[q] <= base'[q]
             /\ readBase'[q] = base'[q] => offset'[q] <= size'[q]
  <2>1. /\ offset'[q] = IF q = p THEN cell ELSE offset[q]
        /\ readBase'[q] = IF q = p THEN base[p] ELSE readBase[q]
    BY TypeParts
  <2>2. CASE q = p
    BY <2>1, <2>2, PathTypes DEF Shape
  <2>3. CASE q # p
    BY <2>1, <2>3 DEF Shape
  <2> QED BY <2>2, <2>3
<1>2. cell \in 0..2 * MaxLines
  <2>1. size[p] \in 0..2 * MaxLines
    BY DEF TypeOK
  <2> QED BY <2>1
<1>3. offset' \in [Paths -> 0..2 * MaxLines] /\ readBase' \in [Paths -> 0..MaxLines]
  BY <1>2 DEF TypeOK
<1> QED BY <1>1, <1>3 DEF Shape

LEMMA PassedType ==
  ASSUME TypeOK, Shape, NEW p \in Paths
  PROVE  Passed(p) \subseteq Line
<1>1. (Skip(p) + 1) \div 2 \in Nat /\ (Skip(p) + 1) \div 2 <= (size[p] + 1) \div 2
  BY SkipRange, PathTypes
<1> QED BY <1>1, UptoLines DEF Passed, Upto

LEMMA PollType ==
  ASSUME AgentType, NEW p \in Paths, Poll(p) \/ PollEmpty(p) \/ PollFails(p)
  PROVE  AgentType'
<1> USE DEF AgentType
<1>1. CASE Poll(p)
  <2>1. /\ EndOf(p) \in Nat /\ EndOf(p) <= size[p]
        /\ PartialOf(p) \in 0..MaxLines /\ Passed(p) \subseteq Line
    BY <1>1, EndRange, PassedType DEF Poll
  <2>2. pending' \in Seq(Items) /\ Len(pending') <= MaxPending
    <3>1. /\ LinesRead(p) \in Seq(Items) /\ Len(LinesRead(p)) <= Remaining
          /\ Len(LinesRead(p)) \in Nat
      BY <1>1, LinesType, LastRange, KeptFinite, PathTypes DEF Poll, Remaining
    <3> QED BY <1>1, <3>1, PathTypes DEF Poll, Remaining
  <2>3. push' \in Pushes
    BY <1>1 DEF Poll, TypeOK, Pushes
  <2>4. Shape' /\ offset' \in [Paths -> 0..2 * MaxLines] /\ readBase' \in [Paths -> 0..MaxLines]
    BY <1>1, <2>1, MovedShape DEF Poll, fileVars
  <2>5. partial' \in [Paths -> 0..MaxLines] /\ missed' \subseteq Line
    BY <1>1, <2>1 DEF TypeOK, Poll
  <2> QED BY <1>1, <2>2, <2>3, <2>4, <2>5 DEF TypeOK, Poll, fileVars, serverVars
<1>2. CASE PollEmpty(p)
  <2>1. 0 <= size[p] /\ 0 \in Nat /\ 0 \in 0..MaxLines
    BY PathTypes
  <2>2. Shape' /\ offset' \in [Paths -> 0..2 * MaxLines] /\ readBase' \in [Paths -> 0..MaxLines]
    BY <1>2, <2>1, MovedShape DEF PollEmpty, fileVars
  <2>3. partial' \in [Paths -> 0..MaxLines]
    BY <1>2, <2>1 DEF TypeOK, PollEmpty
  <2> QED BY <1>2, <2>2, <2>3 DEF TypeOK, PollEmpty, fileVars, serverVars
<1>3. CASE PollFails(p)
  <2> DEFINE first == IF GoesOn(p) THEN Start(p) \div 2 + 1 ELSE 1
  <2>1. PICK cell \in {Cut(p)} \cup Skip(p)..EndOf(p) :
          /\ offset' = [offset EXCEPT ![p] = cell]
          /\ missed' = missed \cup {<<p, base[p] + k>> : k \in first..((cell + 1) \div 2)}
    BY <1>3 DEF PollFails
  <2>2. cell \in Nat /\ cell <= size[p]
    BY <1>3, <2>1, SkipRange, EndRange, PathTypes DEF PollFails
  <2>3. first \in Nat \ {0}
    BY SkipRange
  <2>4. {<<p, base[p] + k>> : k \in first..((cell + 1) \div 2)} \subseteq Line
    <3>1. (cell + 1) \div 2 \in Nat /\ (cell + 1) \div 2 <= (size[p] + 1) \div 2
      BY <2>2, PathTypes
    <3>2. \A k \in first..((cell + 1) \div 2) : k \in 1..((cell + 1) \div 2)
      BY <2>3, <3>1
    <3> QED BY <3>1, <3>2, UptoLines
  <2>5. Shape' /\ offset' \in [Paths -> 0..2 * MaxLines] /\ readBase' \in [Paths -> 0..MaxLines]
    BY <1>3, <2>1, <2>2, MovedShape DEF PollFails, fileVars
  <2>6. partial' \in [Paths -> 0..MaxLines] /\ missed' \subseteq Line
    <3>1. 0 \in 0..MaxLines
      OBVIOUS
    <3> QED BY <1>3, <2>1, <2>4, <3>1 DEF TypeOK, PollFails
  <2>7. spent' \in [faults: 0..MaxFaults, crashes: 0..MaxCrashes]
    BY <1>3, FaultType DEF PollFails
  <2> QED BY <1>3, <2>5, <2>6, <2>7 DEF TypeOK, PollFails, fileVars, serverVars
<1> QED BY <1>1, <1>2, <1>3

LEMMA FailedType ==
  ASSUME AgentType, Failed \/ Forgotten, UNCHANGED fileVars
  PROVE  /\ AgentType => Shape'
         /\ offset' \in [Paths -> 0..2 * MaxLines] /\ partial' \in [Paths -> 0..MaxLines]
         /\ readBase' \in [Paths -> 0..MaxLines]
         /\ pending' \in Seq(Items) /\ Len(pending') <= MaxPending
         /\ push' \in Pushes /\ missed' \subseteq Line
<1> USE DEF AgentType
<1>1. CASE Forgotten
  <2>1. \A i \in DOMAIN pending : LineOf(pending[i]) \in Line
    BY PendingItems, TextType
  <2>2. NewPush \in Pushes
    BY DEF NewPush, Pushes, FailureCap
  <2>3. Shape'
    BY <1>1 DEF Forgotten, Shape, TypeOK, fileVars
  <2> QED BY <1>1, <2>1, <2>2, <2>3 DEF Forgotten, TypeOK
<1>2. CASE Failed /\ ~Forgotten
  <2> DEFINE failures == Least(push.failures + 1, FailureCap)
             delay == computeBackoff(failures)
  <2>1. /\ push' = [at |-> "idle", call |-> NoCall, failures |-> failures,
                    waiting |-> TRUE, reachedMax |-> delay >= BackoffMax]
        /\ UNCHANGED <<readVars, pending, missed>>
    BY <1>2 DEF Failed
  <2>2. failures \in 0..FailureCap
    BY DEF TypeOK, Pushes, Least, FailureCap
  <2>3. (delay >= BackoffMax) \in BOOLEAN
    OBVIOUS
  <2> HIDE DEF failures, delay
  <2>4. push' \in Pushes
    BY <2>1, <2>2, <2>3 DEF Pushes
  <2>5. Shape'
    BY <2>1 DEF Shape, fileVars, readVars
  <2> QED BY <2>1, <2>4, <2>5 DEF TypeOK, readVars
<1> QED BY <1>1, <1>2

LEMMA PushType ==
  ASSUME AgentType,
         \/ Flush \/ SendFails \/ Timeout \/ Refused \/ Accepted \/ Elapse \/ AgentCrash
         \/ \E h \in Handlers : Send(h)
  PROVE  AgentType'
<1> USE DEF AgentType
<1>1. CASE Flush \/ Elapse
  <2>1. push' \in Pushes
    BY <1>1 DEF Flush, Elapse, TypeOK, Pushes
  <2> QED BY <1>1, <2>1 DEF Flush, Elapse, TypeOK, Shape, fileVars, readVars, serverVars
<1>2. ASSUME NEW h \in Handlers, Send(h)
      PROVE  AgentType'
  <2>1. push' \in Pushes
    BY <1>2 DEF Send, TypeOK, Pushes
  <2>2. req' \in [Handlers -> Requests]
    BY <1>2 DEF Send, TypeOK, Requests
  <2> QED BY <1>2, <2>1, <2>2 DEF Send, TypeOK, Shape, fileVars, readVars
<1>3. CASE SendFails \/ Timeout
  BY <1>3, FailedType, FaultType DEF SendFails, Timeout, TypeOK, fileVars, serverVars
<1>4. Free \in Requests
  BY FreeType
<1>5. CASE Refused
  <2>1. req' \in [Handlers -> Requests]
    BY <1>4, <1>5 DEF Refused, TypeOK
  <2> QED BY <1>5, <2>1, FailedType DEF Refused, TypeOK, fileVars
<1>6. CASE Accepted
  <2>1. req' \in [Handlers -> Requests]
    BY <1>4, <1>6 DEF Accepted, TypeOK
  <2>2. {pending[i] : i \in DOMAIN pending} \subseteq Items
    BY PendingItems
  <2>3. NewPush \in Pushes
    BY DEF NewPush, Pushes, FailureCap
  <2> QED BY <1>6, <2>1, <2>2, <2>3 DEF Accepted, TypeOK, Shape, fileVars, readVars
<1>7. CASE AgentCrash
  BY <1>7, FailedType, FaultType DEF AgentCrash, TypeOK, fileVars, serverVars
<1> QED BY <1>1, <1>2, <1>3, <1>5, <1>6, <1>7

LEMMA ServerType ==
  ASSUME AgentType,
         \/ Expire \/ ServerCrash
         \/ \E h \in Handlers : HandlerStep(h) \/ InsertFails(h) \/ Unheard(h)
  PROVE  AgentType'
<1> USE DEF AgentType
<1>1. Free \in Requests /\ [Free EXCEPT !.status = "failed"] \in Requests
  BY FreeType
<1>2. ASSUME req' \in [Handlers -> Requests],
             UNCHANGED <<fileVars, readVars, pending, push, acked, missed>>,
             spent' \in [faults: 0..MaxFaults, crashes: 0..MaxCrashes]
      PROVE  AgentType'
  BY <1>2 DEF TypeOK, Shape, fileVars, readVars
<1>3. spent \in [faults: 0..MaxFaults, crashes: 0..MaxCrashes]
  BY DEF TypeOK
<1>4. CASE Expire
  BY <1>2, <1>3, <1>4 DEF Expire, TypeOK
<1>5. CASE ServerCrash
  BY <1>1, <1>2, <1>5, FaultType DEF ServerCrash
<1>6. ASSUME NEW h \in Handlers, HandlerStep(h) \/ InsertFails(h) \/ Unheard(h)
      PROVE  AgentType'
  <2>1. CASE TakeLine(h)
    <3> DEFINE item == Head(req[h].todo)
    <3>1. item \in Items /\ Tail(req[h].todo) \in Seq(Items)
      BY <2>1 DEF TakeLine, TypeOK, Requests
    <3>2. TextOf(item) \in STRING
      BY <3>1, TextType
    <3>3. req' \in [Handlers -> Requests]
      BY <2>1, <3>1, <3>2 DEF TakeLine, TypeOK, Requests
    <3> QED BY <1>2, <1>3, <2>1, <3>3 DEF TakeLine
  <2>2. CASE EndOfLines(h) \/ Insert(h)
    <3>1. ASSUME NEW r \in Requests, {} \in SUBSET STRING
          PROVE  [r EXCEPT !.status = "lines", !.batch = {}] \in Requests
      BY <3>1 DEF Requests
    <3>2. req[h] \in Requests /\ {} \in SUBSET STRING
      BY DEF TypeOK
    <3>3. [req[h] EXCEPT !.status = IF req[h].batch = {} THEN "ok" ELSE "insert"] \in Requests
      BY <3>2 DEF Requests
    <3>4. [req[h] EXCEPT !.status = "lines", !.batch = {}] \in Requests
      BY <3>1, <3>2
    <3>5. req' \in [Handlers -> Requests]
      BY <2>2, <3>3, <3>4 DEF EndOfLines, Insert, TypeOK
    <3> QED BY <1>2, <1>3, <2>2, <3>5 DEF EndOfLines, Insert
  <2>3. CASE InsertFails(h)
    <3>1. req' \in [Handlers -> Requests]
      BY <1>1, <2>3 DEF InsertFails, TypeOK
    <3> QED BY <1>2, <2>3, <3>1, FaultType DEF InsertFails
  <2>4. CASE Unheard(h)
    <3>1. req' \in [Handlers -> Requests]
      BY <1>1, <2>4 DEF Unheard, TypeOK
    <3> QED BY <1>2, <1>3, <2>4, <3>1 DEF Unheard
  <2> QED BY <1>6, <2>1, <2>2, <2>3, <2>4 DEF HandlerStep
<1> QED BY <1>4, <1>5, <1>6

LEMMA StepType == AgentType /\ [Next]_vars => AgentType'
<1> SUFFICES ASSUME AgentType, [Next]_vars
             PROVE  AgentType'
  OBVIOUS
<1>1. CASE UNCHANGED vars
  BY <1>1 DEF AgentType, TypeOK, Shape, vars, fileVars, readVars, serverVars
<1>2. CASE Next
  BY <1>2, FileKeepType, PollType, PushType, ServerType DEF Next, AgentStep
<1> QED BY <1>1, <1>2

(* Every variable of the agent and of the handlers keeps its type: the buffer  *)
(* is never longer than its limit, no half line is kept that was not written,  *)
(* and the offset is not past the file it is about.                          *)
THEOREM TypeCorrect == Spec => [](TypeOK /\ Shape)
<1>1. AgentType => TypeOK /\ Shape
  BY DEF AgentType
<1> QED BY <1>1, InitType, StepType, PTL DEF Spec

----------------------------------------------------------------------------
(* WHAT IS ACKNOWLEDGED IS STORED                                           *)

Stored == rows \cup dropped \cup Handled
Among(seq, item) == \E j \in DOMAIN seq : seq[j] = item

\* A text is marked seen only when it is in a batch.
SeenStored == seen \subseteq Stored

\* An answered request holds no batch, and one answered 200 has read all its lines.
DoneEmpty ==
  \A h \in Handlers :
    /\ req[h].status \in {"free", "ok", "failed"} => req[h].batch = {}
    /\ req[h].status = "ok" => req[h].todo = << >>

\* The request the agent waits for: unless it failed, each line of the buffer
\* is stored or still to be read.
Waited ==
  push.at = "wait" =>
    /\ push.call \in Handlers
    /\ req[push.call].status # "failed" =>
         \A i \in DOMAIN pending :
           Parses(pending[i]) => \/ TextOf(pending[i]) \in Stored
                                 \/ Among(req[push.call].todo, pending[i])

StoredInv == SeenStored /\ DoneEmpty /\ Waited /\ AckedStored

LEMMA StoredInit == Init => StoredInv
  BY DEF Init, StoredInv, SeenStored, DoneEmpty, Waited, AckedStored, Free, NewPush

\* A step of the agent alone, which then waits for no answer or for the same.
LEMMA AgentKeeps ==
  ASSUME StoredInv, UNCHANGED <<serverVars, acked>>,
         \/ push'.at # "wait"
         \/ pending' = pending /\ push'.at = push.at /\ push'.call = push.call
  PROVE  StoredInv'
<1>1. Stored' = Stored /\ seen' = seen /\ req' = req
  BY DEF Stored, Handled, serverVars
<1>2. SeenStored' /\ DoneEmpty'
  BY <1>1 DEF StoredInv, SeenStored, DoneEmpty
<1>3. AckedStored'
  BY <1>1 DEF StoredInv, AckedStored, Stored
<1>4. Waited'
  BY <1>1 DEF StoredInv, Waited
<1> QED BY <1>2, <1>3, <1>4 DEF StoredInv

\* A step of one request: what the others hold stays.
LEMMA OneRequest ==
  ASSUME AgentType, NEW h \in Handlers, NEW r, req' = [req EXCEPT ![h] = r]
  PROVE  /\ req'[h] = r
         /\ \A g \in Handlers \ {h} : req'[g] = req[g]
         /\ \A text \in Handled : text \in Handled' \cup req[h].batch
         /\ r.batch \subseteq Handled'
<1>1. req'[h] = r /\ \A g \in Handlers \ {h} : req'[g] = req[g]
  BY DEF AgentType, TypeOK
<1> QED BY <1>1 DEF Handled

\* A step of the server alone: no text is lost, and the request the agent waits
\* for fails or has each of its lines stored or still to be read.
LEMMA ServerKeeps ==
  ASSUME StoredInv, UNCHANGED <<push, pending, acked>>,
         Stored \subseteq Stored', SeenStored', DoneEmpty',
         push.at = "wait" =>
           \/ req'[push.call].status = "failed"
           \/ /\ req[push.call].status # "failed"
              /\ \A item : Among(req[push.call].todo, item) /\ Parses(item) =>
                   TextOf(item) \in Stored' \/ Among(req'[push.call].todo, item)
  PROVE  StoredInv'
<1>1. AckedStored'
  BY DEF StoredInv, AckedStored, Stored, Parses, Whole, TextOf
<1>2. Waited'
  <2> SUFFICES ASSUME push.at = "wait", req'[push.call].status # "failed",
                      NEW i \in DOMAIN pending, Parses(pending[i])
               PROVE  \/ TextOf(pending[i]) \in Stored'
                      \/ Among(req'[push.call].todo, pending[i])
    BY DEF StoredInv, Waited, Parses, Whole, TextOf, Among
  <2> QED BY DEF StoredInv, Waited
<1> QED BY <1>1, <1>2 DEF StoredInv

LEMMA TakeLineStored ==
  ASSUME AgentType, StoredInv, NEW h \in Handlers, TakeLine(h)
  PROVE  StoredInv'
<1> DEFINE item == Head(req[h].todo)
           fresh == Parses(item) /\ TextOf(item) \notin seen
           batch == IF fresh THEN req[h].batch \cup {TextOf(item)} ELSE req[h].batch
           status == IF Cardinality(batch) >= ParseBatchSize THEN "insert" ELSE "lines"
           r == [todo |-> Tail(req[h].todo), batch |-> batch, status |-> status]
<1>1. /\ req' = [req EXCEPT ![h] = r]
      /\ seen' = IF fresh THEN seen \cup {TextOf(item)} ELSE seen
      /\ rows' = rows /\ dropped' = dropped
      /\ push' = push /\ pending' = pending /\ acked' = acked
      /\ req[h].status = "lines" /\ req[h].todo # << >>
  BY DEF TakeLine
<1>2. req[h].todo \in Seq(Items)
  BY DEF AgentType, TypeOK, Requests
<1>3. status \in {"insert", "lines"}
  OBVIOUS
<1>4. /\ req[h].batch \subseteq batch
      /\ Parses(item) => TextOf(item) \in batch \/ TextOf(item) \in seen
      /\ seen' \subseteq seen \cup batch
  BY <1>1
<1> HIDE DEF fresh, batch, status
<1>5. /\ req'[h] = r
      /\ \A g \in Handlers \ {h} : req'[g] = req[g]
      /\ \A text \in Handled : text \in Handled' \cup req[h].batch
      /\ r.batch \subseteq Handled'
  BY <1>1, OneRequest
<1>6. batch \subseteq Handled' /\ Stored \subseteq Stored'
  BY <1>1, <1>4, <1>5 DEF Stored
<1>7. SeenStored'
  BY <1>4, <1>6 DEF StoredInv, SeenStored, Stored
<1>8. DoneEmpty'
  BY <1>3, <1>5 DEF StoredInv, DoneEmpty
<1>9. ASSUME NEW x, Among(req[h].todo, x), Parses(x)
      PROVE  TextOf(x) \in Stored' \/ Among(req'[h].todo, x)
  <2>1. PICK j \in 1..Len(req[h].todo) : req[h].todo[j] = x
    BY <1>2, <1>9 DEF Among
  <2>2. CASE j = 1
    <3>1. x = item
      BY <1>1, <1>2, <2>1, <2>2
    <3>2. TextOf(x) \in batch \cup seen
      BY <1>4, <1>9, <3>1
    <3> QED BY <1>6, <3>2 DEF StoredInv, SeenStored, Stored
  <2>3. CASE j # 1
    <3>1. j - 1 \in DOMAIN Tail(req[h].todo) /\ Tail(req[h].todo)[j - 1] = x
      BY <1>1, <1>2, <2>1, <2>3
    <3> QED BY <1>5, <3>1 DEF Among
  <2> QED BY <2>2, <2>3
<1>10. push.at = "wait" =>
           \/ req'[push.call].status = "failed"
           \/ /\ req[push.call].status # "failed"
              /\ \A x : Among(req[push.call].todo, x) /\ Parses(x) =>
                   TextOf(x) \in Stored' \/ Among(req'[push.call].todo, x)
  <2> SUFFICES ASSUME push.at = "wait", push.call \in Handlers
               PROVE  \/ req'[push.call].status = "failed"
                      \/ /\ req[push.call].status # "failed"
                         /\ \A x : Among(req[push.call].todo, x) /\ Parses(x) =>
                              TextOf(x) \in Stored' \/ Among(req'[push.call].todo, x)
    BY DEF StoredInv, Waited
  <2>1. CASE push.call = h
    BY <1>1, <1>9, <2>1
  <2>2. CASE push.call # h
    BY <1>5, <2>2
  <2> QED BY <2>1, <2>2
<1> QED BY <1>1, <1>6, <1>7, <1>8, <1>10, ServerKeeps

\* The other steps of a request take no line.
LEMMA RequestStored ==
  ASSUME AgentType, StoredInv, NEW h \in Handlers,
         EndOfLines(h) \/ Insert(h) \/ InsertFails(h) \/ Unheard(h)
  PROVE  StoredInv'
<1>1. req[h] \in Requests
  BY DEF AgentType, TypeOK
<1>2. /\ req' \in [Handlers -> Requests]
      /\ \A g \in Handlers \ {h} : req'[g] = req[g]
      /\ seen' = seen /\ push' = push /\ pending' = pending /\ acked' = acked
  <2>1. req' \in [Handlers -> Requests]
    BY ServerType DEF AgentType, TypeOK, HandlerStep
  <2> QED BY <2>1 DEF AgentType, TypeOK, EndOfLines, Insert, InsertFails, Unheard
<1>3. /\ req[h].batch \subseteq rows' \cup dropped' \cup req'[h].batch
      /\ rows \subseteq rows' /\ dropped \subseteq dropped'
      /\ req'[h].status \in {"free", "ok", "failed"} => req'[h].batch = {}
      /\ req'[h].status = "ok" => req'[h].todo = << >>
      /\ \/ req'[h].status = "failed"
         \/ req[h].status # "failed" /\ req'[h].todo = req[h].todo
         \/ push.call # h
  <2>1. CASE EndOfLines(h)
    <3>1. /\ req'[h].status = IF req[h].batch = {} THEN "ok" ELSE "insert"
          /\ req'[h].batch = req[h].batch /\ req'[h].todo = req[h].todo
      BY <1>1, <2>1 DEF EndOfLines, AgentType, TypeOK, Requests
    <3> QED BY <2>1, <3>1 DEF EndOfLines
  <2>2. CASE Insert(h)
    <3>1. req'[h].status = "lines" /\ req'[h].batch = {} /\ req'[h].todo = req[h].todo
      BY <1>1, <2>2 DEF Insert, AgentType, TypeOK, Requests
    <3> QED BY <2>2, <3>1 DEF Insert
  <2>3. CASE InsertFails(h)
    <3>1. req'[h].status = "failed" /\ req'[h].batch = {}
      BY <2>3 DEF InsertFails, AgentType, TypeOK, Free
    <3> QED BY <2>3, <3>1 DEF InsertFails
  <2>4. CASE Unheard(h)
    <3>1. req'[h] = Free /\ req[h].batch = {}
      BY <2>4 DEF Unheard, AgentType, TypeOK, StoredInv, DoneEmpty
    <3> QED BY <2>4, <3>1 DEF Unheard, Free
  <2> QED BY <2>1, <2>2, <2>3, <2>4
<1>4. Stored \subseteq Stored'
  BY <1>2, <1>3 DEF Stored, Handled
<1>5. SeenStored'
  BY <1>2, <1>4 DEF StoredInv, SeenStored
<1>6. DoneEmpty'
  BY <1>2, <1>3 DEF StoredInv, DoneEmpty
<1>7. ASSUME push.at = "wait"
      PROVE  \/ req'[push.call].status = "failed"
             \/ /\ req[push.call].status # "failed"
                /\ req'[push.call].todo = req[push.call].todo
             \/ req'[push.call] = req[push.call]
  BY <1>2, <1>3, <1>7 DEF StoredInv, Waited
<1>8. push.at = "wait" =>
           \/ req'[push.call].status = "failed"
           \/ /\ req[push.call].status # "failed"
              /\ \A x : Among(req[push.call].todo, x) /\ Parses(x) =>
                   TextOf(x) \in Stored' \/ Among(req'[push.call].todo, x)
  BY <1>7
<1> QED BY <1>2, <1>4, <1>5, <1>6, <1>8, ServerKeeps

LEMMA SendStored ==
  ASSUME AgentType, StoredInv, NEW h \in Handlers, Send(h)
  PROVE  StoredInv'
<1>1. /\ req[h] = Free
      /\ req' = [req EXCEPT ![h] = [todo |-> pending, batch |-> {}, status |-> "lines"]]
      /\ push'.call = h
      /\ UNCHANGED <<pending, seen, rows, dropped, acked>>
  BY DEF Send, AgentType, TypeOK, Pushes
<1>2. /\ req'[h] = [todo |-> pending, batch |-> {}, status |-> "lines"]
      /\ \A g \in Handlers \ {h} : req'[g] = req[g]
  BY <1>1 DEF AgentType, TypeOK
<1>3. Handled' = Handled
  BY <1>1, <1>2 DEF Handled, Free
<1>4. Stored' = Stored /\ AckedStored'
  BY <1>1, <1>3 DEF Stored, StoredInv, AckedStored
<1>5. SeenStored' /\ DoneEmpty'
  BY <1>1, <1>2, <1>4 DEF StoredInv, SeenStored, DoneEmpty
<1>6. Waited'
  BY <1>1, <1>2 DEF Waited, Among
<1> QED BY <1>4, <1>5, <1>6 DEF StoredInv

\* An answer is read: its request held no batch.
LEMMA AnswerStored ==
  ASSUME AgentType, StoredInv, Refused \/ Accepted
  PROVE  StoredInv'
<1>1. /\ push.at = "wait" /\ push.call \in Handlers
      /\ req[push.call].status \in {"ok", "failed"}
      /\ req' = [req EXCEPT ![push.call] = Free]
      /\ UNCHANGED <<seen, rows, dropped>>
  BY DEF Refused, Accepted, StoredInv, Waited
<1>2. push'.at # "wait"
  BY DEF Refused, Failed, Forgotten, NewPush, Accepted
<1>3. /\ req'[push.call] = Free /\ req[push.call].batch = {}
      /\ \A g \in Handlers \ {push.call} : req'[g] = req[g]
  BY <1>1 DEF AgentType, TypeOK, StoredInv, DoneEmpty
<1>4. Handled' = Handled
  BY <1>1, <1>3 DEF Handled, Free
<1>5. Stored' = Stored /\ SeenStored'
  BY <1>1, <1>4 DEF Stored, StoredInv, SeenStored
<1>6. DoneEmpty' /\ Waited'
  BY <1>1, <1>2, <1>3 DEF StoredInv, DoneEmpty, Waited, Free
<1>7. AckedStored'
  <2>1. CASE Refused
    BY <1>5, <2>1 DEF Refused, StoredInv, AckedStored, Stored
  <2>2. CASE Accepted
    <3>1. acked' = acked \cup {pending[i] : i \in DOMAIN pending}
      BY <2>2 DEF Accepted
    <3>2. ASSUME NEW i \in DOMAIN pending, Parses(pending[i])
          PROVE  TextOf(pending[i]) \in Stored
      <4>1. req[push.call].status = "ok" /\ req[push.call].todo = << >>
        BY <1>1, <2>2 DEF Accepted, StoredInv, DoneEmpty
      <4>2. ~Among(req[push.call].todo, pending[i])
        BY <4>1 DEF Among
      <4> QED BY <1>1, <3>2, <4>1, <4>2 DEF StoredInv, Waited
    <3> QED BY <1>5, <3>1, <3>2 DEF StoredInv, AckedStored, Stored
  <2> QED BY <2>1, <2>2
<1> QED BY <1>5, <1>6, <1>7 DEF StoredInv

LEMMA ServerStored ==
  ASSUME AgentType, StoredInv, Expire \/ ServerCrash
  PROVE  StoredInv'
<1>1. CASE Expire
  <2>1. UNCHANGED <<push, pending, acked, req, rows, dropped>> /\ seen' \subseteq seen
    BY <1>1 DEF Expire
  <2>2. Stored' = Stored
    BY <2>1 DEF Stored, Handled
  <2> QED BY <2>1, <2>2, ServerKeeps DEF StoredInv, SeenStored, DoneEmpty, Waited
<1>2. CASE ServerCrash
  <2>1. /\ UNCHANGED <<push, pending, acked, rows>>
        /\ seen' = {} /\ dropped' = dropped \cup Handled
        /\ \A h \in Handlers : req'[h] = IF h = push.call
                                          THEN [Free EXCEPT !.status = "failed"] ELSE Free
    BY <1>2 DEF ServerCrash, Handled
  <2>2. Stored \subseteq Stored' /\ SeenStored'
    BY <2>1 DEF Stored, SeenStored
  <2>3. DoneEmpty'
    BY <2>1 DEF DoneEmpty, Free
  <2>4. push.at = "wait" => req'[push.call].status = "failed"
    BY <2>1 DEF StoredInv, Waited, Free
  <2> QED BY <2>1, <2>2, <2>3, <2>4, ServerKeeps
<1> QED BY <1>1, <1>2

\* The steps of the agent, and of its files, that send nothing and read no answer.
LEMMA AgentStored ==
  ASSUME AgentType, StoredInv,
         \/ Flush \/ Elapse \/ SendFails \/ Timeout \/ AgentCrash
         \/ \E p \in Paths : \/ Write(p) \/ Rotate(p)
                             \/ Poll(p) \/ PollEmpty(p) \/ PollFails(p)
  PROVE  StoredInv'
<1>1. push \in Pushes
  BY DEF AgentType, TypeOK
<1>2. CASE SendFails \/ Timeout \/ AgentCrash
  BY <1>2, AgentKeeps DEF SendFails, Timeout, AgentCrash, Failed, Forgotten, NewPush
<1>3. CASE Flush
  <2>1. push'.at = "push"
    BY <1>1, <1>3 DEF Flush, Pushes
  <2> QED BY <1>3, <2>1, AgentKeeps DEF Flush
<1>4. CASE Elapse
  <2>1. push'.at = push.at /\ push'.call = push.call
    BY <1>1, <1>4 DEF Elapse, Pushes
  <2> QED BY <1>4, <2>1, AgentKeeps DEF Elapse
<1>5. ASSUME NEW p \in Paths, Write(p) \/ Rotate(p) \/ Poll(p) \/ PollEmpty(p) \/ PollFails(p)
      PROVE  StoredInv'
  <2>1. CASE Poll(p)
    <3>1. push'.at \in {"idle", "push"}
      BY <1>1, <2>1 DEF Poll, Pushes
    <3> QED BY <2>1, <3>1, AgentKeeps DEF Poll
  <2>2. CASE Write(p) \/ Rotate(p) \/ PollEmpty(p) \/ PollFails(p)
    BY <2>2, AgentKeeps DEF Write, Rotate, PollEmpty, PollFails
  <2> QED BY <1>5, <2>1, <2>2
<1> QED BY <1>2, <1>3, <1>4, <1>5

LEMMA StoredStep == AgentType /\ StoredInv /\ [Next]_vars => StoredInv'
<1> SUFFICES ASSUME AgentType, StoredInv, [Next]_vars
             PROVE  StoredInv'
  OBVIOUS
<1>1. CASE UNCHANGED vars
  BY <1>1, AgentKeeps DEF vars
<1>2. CASE Next
  BY <1>2, TakeLineStored, RequestStored, SendStored, AnswerStored, ServerStored, AgentStored
     DEF Next, AgentStep, HandlerStep
<1> QED BY <1>1, <1>2

(* What the agent lets go of is stored, or held by a request that is handled, *)
(* or was in a batch whose insert failed, whatever is lost, repeated or       *)
(* handled twice at once (main.go:428, 468; log_parser_scan_file.go:571-607).  *)
THEOREM AcknowledgedStored == Spec => []AckedStored
<1>1. Init => AgentType /\ StoredInv
  BY InitType, StoredInit
<1>2. AgentType /\ StoredInv /\ [Next]_vars => (AgentType /\ StoredInv)'
  BY StepType, StoredStep
<1>3. StoredInv => AckedStored
  BY DEF StoredInv
<1> QED BY <1>1, <1>2, <1>3, PTL DEF Spec

----------------------------------------------------------------------------
(* WHAT A READ RETURNS                                                      *)

\* Where the offset goes on in the file it is about.
LEMMA GoesOnAt ==
  ASSUME TypeOK, Shape, NEW p \in Paths
  PROVE  readBase[p] = base[p] =>
           ~Shrunk(p) /\ Start(p) = offset[p] /\ Seed(p) = partial[p]
  BY PathTypes DEF Shape, Shrunk, Start, Seed

\* A line between the start and the end of a read is returned or too long.
LEMMA ReadReturns ==
  ASSUME TypeOK, Shape, NEW p \in Paths, Len(pending) < MaxPending,
         NEW j \in Nat, Skip(p) \div 2 + 1 <= j, j <= EndOf(p) \div 2
  PROVE  \/ Text[p][base[p] + j] \in Overlong
         \/ \E i \in DOMAIN LinesRead(p) : LineOf(LinesRead(p)[i]) = <<p, base[p] + j>>
<1>1. j \in Ends(p) /\ j <= LastOf(p)
  <2>1. LastOf(p) \in Nat /\ LastOf(p) <= size[p] \div 2
    BY LastRange, PathTypes
  <2>2. CASE Stopped(p)
    <3>1. EndOf(p) \div 2 = LastOf(p)
      BY <2>1, <2>2 DEF EndOf
    <3> QED BY <2>1, <3>1, SkipRange, PathTypes DEF Ends
  <2>3. CASE ~Stopped(p)
    <3>1. EndOf(p) \div 2 = size[p] \div 2 /\ LastOf(p) = size[p] \div 2
      BY <2>3, LastRange DEF EndOf
    <3> QED BY <3>1, SkipRange, PathTypes DEF Ends
  <2> QED BY <2>2, <2>3
<1>2. CASE TooLong(ItemAt(p, j))
  BY <1>2 DEF TooLong, TextOf, ItemAt
<1>3. CASE ~TooLong(ItemAt(p, j))
  <2>1. j \in Kept(p, LastOf(p))
    BY <1>1, <1>3 DEF Kept
  <2>2. LineOf(ItemAt(p, j)) = <<p, base[p] + j>>
    BY DEF LineOf, ItemAt
  <2> QED BY <2>1, <2>2, LinesType
<1> QED BY <1>2, <1>3

----------------------------------------------------------------------------
(* EVERY LINE THE OFFSET HAS PASSED IS ACCOUNTED FOR                        *)

Accounted(p, k) ==
  \/ \E i \in DOMAIN pending : LineOf(pending[i]) = <<p, k>>
  \/ \E item \in acked : LineOf(item) = <<p, k>>
  \/ Text[p][k] \in Overlong
  \/ <<p, k>> \in missed

LEMMA ReadInit == Init => ReadAccounted
<1> SUFFICES ASSUME Init, NEW p \in Paths, NEW k \in 1..MaxLines
             PROVE  ~Read(p, k)
  BY DEF ReadAccounted
<1>1. base[p] = 0 /\ offset[p] = 0
  BY DEF Init
<1> QED BY <1>1 DEF Read

\* A step that reads nothing and whose agent forgets nothing.
LEMMA ReadKeeps ==
  ASSUME ReadAccounted, UNCHANGED <<base, offset, readBase>>,
         acked \subseteq acked', missed \subseteq missed',
         \/ pending' = pending
         \/ {pending[i] : i \in DOMAIN pending} \subseteq acked'
  PROVE  ReadAccounted'
<1> SUFFICES ASSUME NEW p \in Paths, NEW k \in 1..MaxLines, Read(p, k)'
             PROVE  Accounted(p, k)'
  BY DEF ReadAccounted, Accounted
<1>1. Accounted(p, k)
  BY DEF Read, ReadAccounted, Accounted
<1> QED BY <1>1 DEF Accounted

LEMMA RotateRead ==
  ASSUME AgentType, ReadAccounted, NEW p \in Paths, Rotate(p)
  PROVE  ReadAccounted'
<1> USE DEF AgentType
<1> SUFFICES ASSUME NEW q \in Paths, NEW k \in 1..MaxLines, Read(q, k)'
             PROVE  Accounted(q, k)'
  BY DEF ReadAccounted, Accounted
<1>1. /\ base' = [base EXCEPT ![p] = @ + size[p] \div 2]
      /\ UNCHANGED <<offset, readBase, pending, acked>> /\ missed \subseteq missed'
      /\ size[p] > 0 /\ size[p] % 2 = 0
  BY DEF Rotate, readVars
<1>2. Read(q, k) => Accounted(q, k)'
  BY <1>1 DEF ReadAccounted, Accounted
<1>3. CASE q # p
  BY <1>1, <1>2, <1>3, TypeParts DEF Read
<1>4. CASE q = p /\ ~Read(p, k)
  <2> DEFINE first == IF readBase[p] = base[p] THEN offset[p] \div 2 + 1 ELSE 1
             j == k - base[p]
  <2>1. base'[p] = base[p] + size[p] \div 2 /\ readBase'[p] = readBase[p]
    BY <1>1, TypeParts
  <2>2. readBase[p] <= base[p] /\ size[p] \div 2 >= 1
    BY <1>1, PathTypes DEF Shape
  <2>3. k <= base'[p]
    BY <1>4, <2>1, <2>2, PathTypes DEF Read
  <2>4. j \in first..(size[p] \div 2)
    BY <1>4, <2>1, <2>3, PathTypes DEF Read
  <2>5. base[p] + j = k
    BY PathTypes
  <2>6. <<p, k>> \in From(p, first)
    BY <2>4, <2>5 DEF From
  <2>7. missed' = missed \cup From(p, first)
    BY DEF Rotate
  <2> QED BY <1>4, <2>6, <2>7 DEF Accounted
<1> QED BY <1>2, <1>3, <1>4

LEMMA PollRead ==
  ASSUME AgentType, ReadAccounted, NEW p \in Paths, Poll(p)
  PROVE  ReadAccounted'
<1> USE DEF AgentType
<1> SUFFICES ASSUME NEW q \in Paths, NEW k \in 1..MaxLines, Read(q, k)'
             PROVE  Accounted(q, k)'
  BY DEF ReadAccounted, Accounted
<1>1. /\ base' = base /\ acked' = acked /\ missed' = missed \cup Passed(p)
      /\ pending' = pending \o LinesRead(p) /\ Len(pending) < MaxPending
      /\ offset' = [offset EXCEPT ![p] = EndOf(p)]
      /\ readBase' = [readBase EXCEPT ![p] = base[p]]
  BY DEF Poll, fileVars
<1>2. pending \in Seq(Items) /\ LinesRead(p) \in Seq(Items)
  BY PathTypes, LinesType
<1>3. /\ \A i \in DOMAIN pending : i \in DOMAIN pending' /\ pending'[i] = pending[i]
      /\ \A i \in DOMAIN LinesRead(p) : \E m \in DOMAIN pending' : pending'[m] = LinesRead(p)[i]
  <2>1. \A i \in DOMAIN pending : i \in DOMAIN pending' /\ pending'[i] = pending[i]
    BY <1>1, <1>2
  <2>2. \A i \in DOMAIN LinesRead(p) :
          Len(pending) + i \in DOMAIN pending' /\ pending'[Len(pending) + i] = LinesRead(p)[i]
    BY <1>1, <1>2
  <2> QED BY <2>1, <2>2
<1>4. Read(q, k) => Accounted(q, k)'
  BY <1>1, <1>3 DEF ReadAccounted, Accounted
<1>5. CASE q # p
  BY <1>1, <1>4, <1>5, TypeParts DEF Read
<1>6. CASE q = p /\ ~Read(p, k)
  <2> DEFINE j == k - base[p]
  <2>1. EndOf(p) \in Nat /\ offset'[p] = EndOf(p) /\ base[p] + j = k
    BY <1>1, EndRange, TypeParts, PathTypes
  <2>2. j \in Nat /\ j >= 1 /\ j <= EndOf(p) \div 2
    BY <1>1, <1>6, <2>1, PathTypes DEF Read
  <2>3. CASE Skip(p) \div 2 + 1 <= j
    <3>1. \/ Text[p][base[p] + j] \in Overlong
          \/ \E i \in DOMAIN LinesRead(p) : LineOf(LinesRead(p)[i]) = <<p, base[p] + j>>
      BY <1>1, <2>2, <2>3, ReadReturns
    <3> QED BY <1>3, <1>6, <2>1, <3>1 DEF Accounted
  <2>4. CASE ~(Skip(p) \div 2 + 1 <= j)
    <3>1. ~GoesOn(p)
      BY <1>6, <2>2, <2>4, GoesOnAt, PathTypes DEF GoesOn, Read
    <3>2. j \in 1..((Skip(p) + 1) \div 2)
      BY <2>2, <2>4, SkipRange
    <3>3. <<p, base[p] + j>> \in Passed(p)
      BY <3>1, <3>2 DEF Passed, Upto
    <3> QED BY <1>1, <1>6, <2>1, <3>3 DEF Accounted
  <2> QED BY <2>3, <2>4
<1> QED BY <1>4, <1>5, <1>6

LEMMA PollEmptyRead ==
  ASSUME AgentType, ReadAccounted, NEW p \in Paths, PollEmpty(p)
  PROVE  ReadAccounted'
<1> USE DEF AgentType
<1> SUFFICES ASSUME NEW q \in Paths, NEW k \in 1..MaxLines, Read(q, k)'
             PROVE  Accounted(q, k)'
  BY DEF ReadAccounted, Accounted
<1>1. /\ UNCHANGED <<base, pending, acked, missed>>
      /\ offset' = [offset EXCEPT ![p] = 0]
      /\ readBase' = [readBase EXCEPT ![p] = base[p]]
  BY DEF PollEmpty, fileVars
<1>2. /\ offset'[q] = IF q = p THEN 0 ELSE offset[q]
      /\ readBase'[q] = IF q = p THEN base[p] ELSE readBase[q]
  BY <1>1, TypeParts
<1>3. Read(q, k)
  BY <1>1, <1>2, PathTypes DEF Read
<1> QED BY <1>1, <1>3 DEF ReadAccounted, Accounted

LEMMA PollFailsRead ==
  ASSUME AgentType, ReadAccounted, NEW p \in Paths, PollFails(p)
  PROVE  ReadAccounted'
<1> USE DEF AgentType
<1> SUFFICES ASSUME NEW q \in Paths, NEW k \in 1..MaxLines, Read(q, k)'
             PROVE  Accounted(q, k)'
  BY DEF ReadAccounted, Accounted
<1> DEFINE first == IF GoesOn(p) THEN Start(p) \div 2 + 1 ELSE 1
<1>1. PICK cell \in {Cut(p)} \cup Skip(p)..EndOf(p) :
        /\ offset' = [offset EXCEPT ![p] = cell]
        /\ missed' = missed \cup {<<p, base[p] + j>> : j \in first..((cell + 1) \div 2)}
  BY DEF PollFails
<1>2. /\ UNCHANGED <<base, pending, acked>> /\ missed \subseteq missed'
      /\ readBase' = [readBase EXCEPT ![p] = base[p]]
  BY <1>1 DEF PollFails, fileVars
<1>3. Read(q, k) => Accounted(q, k)'
  BY <1>2 DEF ReadAccounted, Accounted
<1>4. CASE q # p
  BY <1>1, <1>2, <1>3, <1>4, TypeParts DEF Read
<1>5. CASE q = p /\ ~Read(p, k)
  <2> DEFINE j == k - base[p]
  <2>1. cell \in Nat
    BY <1>1, SkipRange, EndRange DEF PollFails
  <2>2. offset'[p] = cell /\ base[p] + j = k
    BY <1>1, <2>1, TypeParts, PathTypes
  <2>3. j \in Nat /\ j >= 1 /\ j <= cell \div 2
    BY <1>2, <1>5, <2>1, <2>2, PathTypes DEF Read
  <2>4. first <= j
    BY <1>5, <2>3, GoesOnAt, PathTypes DEF GoesOn, Read
  <2>5. first \in Nat
    BY SkipRange
  <2> HIDE DEF first
  <2>6. j \in first..((cell + 1) \div 2)
    BY <2>1, <2>3, <2>4, <2>5
  <2>7. <<p, k>> \in missed'
    BY <1>1, <2>2, <2>6
  <2> QED BY <1>5, <2>7 DEF Accounted
<1> QED BY <1>3, <1>4, <1>5

\* The agent ends: what it had buffered of earlier files is missed.
LEMMA ForgottenRead ==
  ASSUME AgentType, ReadAccounted, Forgotten, UNCHANGED <<fileVars, acked>>
  PROVE  ReadAccounted'
<1> USE DEF AgentType
<1> SUFFICES ASSUME NEW p \in Paths, NEW k \in 1..MaxLines, Read(p, k)'
             PROVE  Accounted(p, k)'
  BY DEF ReadAccounted, Accounted
<1>1. offset'[p] = 0 /\ base' = base /\ acked' = acked /\ missed \subseteq missed'
  BY DEF Forgotten, fileVars
<1>2. k <= base[p]
  BY <1>1, PathTypes DEF Read
<1>3. Accounted(p, k)
  BY <1>2 DEF Read, ReadAccounted, Accounted
<1>4. ASSUME NEW i \in DOMAIN pending, LineOf(pending[i]) = <<p, k>>
      PROVE  <<p, k>> \in missed'
  <2>1. pending[i].path = p /\ pending[i].tail = k
    BY <1>4 DEF LineOf
  <2> QED BY <1>2, <1>4, <2>1 DEF Forgotten
<1> QED BY <1>1, <1>3, <1>4 DEF Accounted

LEMMA ReadStep == AgentType /\ ReadAccounted /\ [Next]_vars => ReadAccounted'
<1> SUFFICES ASSUME AgentType, ReadAccounted, [Next]_vars
             PROVE  ReadAccounted'
  OBVIOUS
<1>1. CASE UNCHANGED vars
  BY <1>1, ReadKeeps DEF vars, fileVars, readVars
<1>2. ASSUME NEW p \in Paths, Write(p)
      PROVE  ReadAccounted'
  BY <1>2, ReadKeeps DEF Write, readVars
<1>3. CASE SendFails \/ Timeout \/ Refused \/ AgentCrash
  <2>1. UNCHANGED <<fileVars, acked>> /\ (Failed \/ Forgotten)
    BY <1>3 DEF SendFails, Timeout, Refused, AgentCrash
  <2>2. Forgotten \/ UNCHANGED <<readVars, pending, missed>>
    BY <2>1 DEF Failed
  <2> QED BY <2>1, <2>2, ForgottenRead, ReadKeeps DEF fileVars, readVars
<1>4. CASE Accepted
  BY <1>4, ReadKeeps DEF Accepted, fileVars, readVars
<1>5. CASE Flush \/ Elapse \/ Expire \/ ServerCrash
  BY <1>5, ReadKeeps DEF Flush, Elapse, Expire, ServerCrash, fileVars, readVars
<1>6. ASSUME NEW h \in Handlers,
             \/ Send(h) \/ TakeLine(h) \/ EndOfLines(h) \/ Insert(h)
             \/ InsertFails(h) \/ Unheard(h)
      PROVE  ReadAccounted'
  BY <1>6, ReadKeeps
     DEF Send, TakeLine, EndOfLines, Insert, InsertFails, Unheard, fileVars, readVars
<1> QED BY <1>1, <1>2, <1>3, <1>4, <1>5, <1>6, RotateRead, PollRead, PollEmptyRead,
           PollFailsRead DEF Next, AgentStep, HandlerStep

(* Every line the offset has passed is in the buffer, was acknowledged, is    *)
(* too long, or is among those the agent could not read, for any limits and  *)
(* any order of polls, rotations, failures and crashes (main.go:479-604).     *)
THEOREM ReadsAccounted == Spec => []ReadAccounted
<1>1. Init => AgentType /\ ReadAccounted
  BY InitType, ReadInit
<1>2. AgentType /\ ReadAccounted /\ [Next]_vars => (AgentType /\ ReadAccounted)'
  BY StepType, ReadStep
<1> QED BY <1>1, <1>2, PTL DEF Spec

----------------------------------------------------------------------------
(* WHAT IS PUSHED ARE WHOLE LINES                                           *)

\* The line that cell c of the present file of p is the first half of, if c is odd.
Broken(p, c) == base[p] + c \div 2 + 1

\* A line may be pushed without its first half when that was too long or missed.
Excused(p, k) == Text[p][k] \in LongHead \/ <<p, k>> \in missed

\* When the offset is in the middle of a line, its first half is kept.
HeadKept ==
  \A p \in Paths : readBase[p] = base[p] /\ offset[p] % 2 = 1 =>
    partial[p] = Broken(p, offset[p]) \/ Excused(p, Broken(p, offset[p]))

WholeInv == HeadKept /\ WholeLines

LEMMA WholeInit == Init => WholeInv
  BY DEF Init, WholeInv, HeadKept, WholeLines

LEMMA WholeKeeps ==
  ASSUME WholeInv, UNCHANGED <<base, offset, partial, readBase>>, missed \subseteq missed',
         pending' = pending \/ pending' = << >>
  PROVE  WholeInv'
<1>1. HeadKept'
  BY DEF WholeInv, HeadKept, Broken, Excused
<1>2. WholeLines'
  BY DEF WholeInv, WholeLines, Whole, LineOf
<1> QED BY <1>1, <1>2 DEF WholeInv

LEMMA RotateWhole ==
  ASSUME AgentType, WholeInv, NEW p \in Paths, Rotate(p)
  PROVE  WholeInv'
<1>1. /\ base' = [base EXCEPT ![p] = @ + size[p] \div 2]
      /\ UNCHANGED <<offset, partial, readBase, pending>> /\ missed \subseteq missed'
      /\ size[p] > 0 /\ size[p] % 2 = 0
  BY DEF Rotate, readVars
<1>2. WholeLines'
  BY <1>1 DEF WholeInv, WholeLines, Whole, LineOf
<1>3. ASSUME NEW q \in Paths, readBase'[q] = base'[q], offset'[q] % 2 = 1
      PROVE  (partial[q] = Broken(q, offset[q]) \/ Excused(q, Broken(q, offset[q])))'
  <2>1. q # p
    <3>1. base'[p] = base[p] + size[p] \div 2 /\ readBase[p] <= base[p]
      BY <1>1, TypeParts DEF AgentType, Shape
    <3> QED BY <1>1, <1>3, <3>1, PathTypes DEF AgentType
  <2>2. base'[q] = base[q]
    BY <1>1, <2>1, TypeParts DEF AgentType
  <2> QED BY <1>1, <1>3, <2>2 DEF WholeInv, HeadKept, Broken, Excused
<1>4. HeadKept'
  BY <1>3 DEF HeadKept
<1> QED BY <1>2, <1>4 DEF WholeInv

\* The offset of one path is moved, and the half line at its new place is kept.
LEMMA MovedHead ==
  ASSUME AgentType, WholeInv, NEW p \in Paths, NEW cell \in Nat, NEW half,
         base' = base, offset' = [offset EXCEPT ![p] = cell],
         partial' = [partial EXCEPT ![p] = half],
         readBase' = [readBase EXCEPT ![p] = base[p]], missed \subseteq missed',
         cell % 2 = 1 => \/ half = Broken(p, cell)
                         \/ Text[p][Broken(p, cell)] \in LongHead
                         \/ <<p, Broken(p, cell)>> \in missed'
  PROVE  HeadKept'
<1> SUFFICES ASSUME NEW q \in Paths, readBase'[q] = base'[q], offset'[q] % 2 = 1
             PROVE  (partial[q] = Broken(q, offset[q]) \/ Excused(q, Broken(q, offset[q])))'
  BY DEF HeadKept
<1>1. /\ offset'[q] = IF q = p THEN cell ELSE offset[q]
      /\ partial'[q] = IF q = p THEN half ELSE partial[q]
      /\ readBase'[q] = IF q = p THEN base[p] ELSE readBase[q]
  BY TypeParts DEF AgentType, TypeOK
<1>2. CASE q = p
  BY <1>1, <1>2 DEF Broken, Excused
<1>3. CASE q # p
  BY <1>1, <1>3 DEF WholeInv, HeadKept, Broken, Excused
<1> QED BY <1>2, <1>3

\* A line of a read is whole, or its first half was too long or missed.
LEMMA ItemWhole ==
  ASSUME AgentType, HeadKept, NEW p \in Paths, NEW k \in Ends(p)
  PROVE  \/ Whole(ItemAt(p, k))
         \/ Text[p][base[p] + k] \in LongHead
         \/ <<p, base[p] + k>> \in missed \cup Passed(p)
<1> USE DEF AgentType
<1>1. CASE 2 * k - 1 > Skip(p)
  BY <1>1 DEF Whole, ItemAt
<1>2. CASE ~(2 * k - 1 > Skip(p))
  <2>0. /\ k \in Nat /\ 2 * k - 1 >= Skip(p) /\ Skip(p) \in Nat
        /\ Skip(p) # Start(p) => Skip(p) % 2 = 0
    BY EndsRange, SkipRange
  <2>1. k \in Nat /\ 2 * k - 1 = Skip(p) /\ Skip(p) = Start(p)
    BY ONLY <1>2, <2>0
  <2>2. (Skip(p) + 1) \div 2 = k /\ Start(p) \div 2 + 1 = k /\ Start(p) % 2 = 1 /\ k >= 1
    BY <2>1, EndsRange
  <2>3. CASE GoesOn(p)
    <3>1. Start(p) = offset[p] /\ Seed(p) = partial[p] /\ readBase[p] = base[p]
      BY <2>3, GoesOnAt DEF GoesOn
    <3>2. Broken(p, offset[p]) = base[p] + k
      BY <2>2, <3>1, PathTypes DEF Broken
    <3>3. partial[p] = base[p] + k \/ Excused(p, base[p] + k)
      BY <2>2, <3>1, <3>2 DEF HeadKept
    <3>4. ItemAt(p, k) = [path |-> p, tail |-> base[p] + k, head |-> partial[p]]
      BY <1>2, <2>1, <3>1 DEF ItemAt
    <3> QED BY <3>3, <3>4 DEF Whole, Excused
  <2>4. CASE ~GoesOn(p)
    BY <2>1, <2>2, <2>4 DEF Passed, Upto
  <2> QED BY <2>3, <2>4
<1> QED BY <1>1, <1>2

LEMMA PollWhole ==
  ASSUME AgentType, WholeInv, NEW p \in Paths, Poll(p)
  PROVE  WholeInv'
<1> USE DEF AgentType
<1>1. /\ base' = base /\ missed' = missed \cup Passed(p)
      /\ pending' = pending \o LinesRead(p) /\ Len(pending) < MaxPending
      /\ offset' = [offset EXCEPT ![p] = EndOf(p)]
      /\ partial' = [partial EXCEPT ![p] = PartialOf(p)]
      /\ readBase' = [readBase EXCEPT ![p] = base[p]]
  BY DEF Poll, fileVars
<1>2. pending \in Seq(Items) /\ LinesRead(p) \in Seq(Items)
  BY PathTypes, LinesType
<1>3. HeadKept'
  <2>1. EndOf(p) \in Nat
    BY <1>1, EndRange
  <2>2. ASSUME EndOf(p) % 2 = 1
        PROVE  PartialOf(p) = Broken(p, EndOf(p)) \/ Text[p][Broken(p, EndOf(p))] \in LongHead
    <3>1. ~Stopped(p) /\ EndOf(p) = size[p]
      BY <1>1, <2>2, EndRange
    <3>2. size[p] % 2 # 0 /\ Broken(p, EndOf(p)) = base[p] + size[p] \div 2 + 1
      BY <2>2, <3>1 DEF Broken
    <3> QED BY <3>1, <3>2 DEF PartialOf
  <2> QED BY <1>1, <2>1, <2>2, MovedHead
<1>4. WholeLines'
  <2> SUFFICES ASSUME NEW i \in DOMAIN pending'
               PROVE  \/ Whole(pending'[i])
                      \/ Text[pending'[i].path][pending'[i].tail] \in LongHead
                      \/ LineOf(pending'[i]) \in missed'
    BY DEF WholeLines, Whole, LineOf
  <2>1. CASE i \in DOMAIN pending
    <3>1. pending'[i] = pending[i]
      BY <1>1, <1>2, <2>1
    <3> QED BY <1>1, <2>1, <3>1 DEF WholeInv, WholeLines
  <2>2. CASE i \notin DOMAIN pending
    <3>1. i - Len(pending) \in DOMAIN LinesRead(p)
          /\ pending'[i] = LinesRead(p)[i - Len(pending)]
      BY <1>1, <1>2, <2>2
    <3>2. PICK k \in Kept(p, LastOf(p)) : pending'[i] = ItemAt(p, k)
      BY <3>1, LinesType
    <3>3. k \in Ends(p) /\ ItemAt(p, k).path = p /\ ItemAt(p, k).tail = base[p] + k
      BY DEF Kept, ItemAt
    <3>4. \/ Whole(ItemAt(p, k))
          \/ Text[p][base[p] + k] \in LongHead
          \/ <<p, base[p] + k>> \in missed \cup Passed(p)
      BY <3>3, ItemWhole DEF WholeInv
    <3> QED BY <1>1, <3>2, <3>3, <3>4 DEF LineOf
  <2> QED BY <2>1, <2>2
<1> QED BY <1>3, <1>4 DEF WholeInv

LEMMA PollOtherWhole ==
  ASSUME AgentType, WholeInv, NEW p \in Paths, PollEmpty(p) \/ PollFails(p)
  PROVE  WholeInv'
<1> USE DEF AgentType
<1>1. CASE PollEmpty(p)
  <2>1. PICK cell \in Nat : cell = 0
    OBVIOUS
  <2>2. cell % 2 # 1
    BY <2>1
  <2>3. /\ base' = base /\ offset' = [offset EXCEPT ![p] = cell]
        /\ partial' = [partial EXCEPT ![p] = cell]
        /\ readBase' = [readBase EXCEPT ![p] = base[p]] /\ missed' = missed
    BY <1>1, <2>1 DEF PollEmpty, fileVars
  <2>4. HeadKept'
    BY <2>2, <2>3, MovedHead
  <2> QED BY <1>1, <2>4 DEF PollEmpty, WholeInv, WholeLines, Whole, LineOf
<1>2. CASE PollFails(p)
  <2> DEFINE first == IF GoesOn(p) THEN Start(p) \div 2 + 1 ELSE 1
  <2>1. PICK cell \in {Cut(p)} \cup Skip(p)..EndOf(p) :
          /\ offset' = [offset EXCEPT ![p] = cell]
          /\ missed' = missed \cup {<<p, base[p] + j>> : j \in first..((cell + 1) \div 2)}
    BY <1>2 DEF PollFails
  <2>2. /\ base' = base /\ pending' = pending /\ missed \subseteq missed'
        /\ partial' = [partial EXCEPT ![p] = 0]
        /\ readBase' = [readBase EXCEPT ![p] = base[p]]
    BY <1>2, <2>1 DEF PollFails, fileVars
  <2>3. cell \in Nat /\ (GoesOn(p) => Start(p) <= cell)
    BY <1>2, <2>1, SkipRange, EndRange DEF PollFails, GoesOn
  <2>4. first \in Nat /\ Start(p) \in Nat
    BY SkipRange
  <2>5. ASSUME cell % 2 = 1
        PROVE  <<p, Broken(p, cell)>> \in missed'
    <3>1. (cell + 1) \div 2 = cell \div 2 + 1
      BY <2>3, <2>5
    <3>2. first <= cell \div 2 + 1
      BY <2>3, <2>4
    <3> HIDE DEF first
    <3>3. cell \div 2 + 1 \in first..((cell + 1) \div 2)
      BY <2>3, <2>4, <3>1, <3>2
    <3>4. base[p] + (cell \div 2 + 1) = Broken(p, cell)
      <4>1. cell \div 2 \in Nat /\ base[p] \in Nat
        BY <2>3, PathTypes
      <4> QED BY <4>1 DEF Broken
    <3> QED BY <2>1, <3>3, <3>4
  <2>6. HeadKept'
    BY <2>1, <2>2, <2>3, <2>5, MovedHead
  <2> QED BY <2>2, <2>6 DEF WholeInv, WholeLines, Whole, LineOf
<1> QED BY <1>1, <1>2

LEMMA ForgottenWhole ==
  ASSUME AgentType, WholeInv, Forgotten
  PROVE  WholeInv'
<1>1. \A p \in Paths : offset'[p] % 2 # 1
  BY DEF Forgotten
<1>2. DOMAIN pending' = {}
  BY DEF Forgotten
<1> QED BY <1>1, <1>2 DEF WholeInv, HeadKept, WholeLines

LEMMA WholeStep == AgentType /\ WholeInv /\ [Next]_vars => WholeInv'
<1> SUFFICES ASSUME AgentType, WholeInv, [Next]_vars
             PROVE  WholeInv'
  OBVIOUS
<1>1. CASE UNCHANGED vars
  BY <1>1, WholeKeeps DEF vars, fileVars, readVars
<1>2. ASSUME NEW p \in Paths, Write(p)
      PROVE  WholeInv'
  BY <1>2, WholeKeeps DEF Write, readVars
<1>3. CASE SendFails \/ Timeout \/ Refused \/ AgentCrash
  <2>1. UNCHANGED fileVars /\ (Failed \/ Forgotten)
    BY <1>3 DEF SendFails, Timeout, Refused, AgentCrash
  <2>2. Forgotten \/ UNCHANGED <<readVars, pending, missed>>
    BY <2>1 DEF Failed
  <2> QED BY <2>1, <2>2, ForgottenWhole, WholeKeeps DEF fileVars, readVars
<1>4. CASE Accepted
  BY <1>4, WholeKeeps DEF Accepted, fileVars, readVars
<1>5. CASE Flush \/ Elapse \/ Expire \/ ServerCrash
  BY <1>5, WholeKeeps DEF Flush, Elapse, Expire, ServerCrash, fileVars, readVars
<1>6. ASSUME NEW h \in Handlers,
             \/ Send(h) \/ TakeLine(h) \/ EndOfLines(h) \/ Insert(h)
             \/ InsertFails(h) \/ Unheard(h)
      PROVE  WholeInv'
  BY <1>6, WholeKeeps
     DEF Send, TakeLine, EndOfLines, Insert, InsertFails, Unheard, fileVars, readVars
<1> QED BY <1>1, <1>2, <1>3, <1>4, <1>5, <1>6, RotateWhole, PollWhole, PollOtherWhole
        DEF Next, AgentStep, HandlerStep

(* What is pushed are whole lines, whose halves belong together although they *)
(* were read at different polls, of a file that may have been rotated in      *)
(* between, but for lines whose first half was too long or missed             *)
(* (main.go:534, 576-588).                                                   *)
THEOREM LinesWhole == Spec => []WholeLines
<1>1. Init => AgentType /\ WholeInv
  BY InitType, WholeInit
<1>2. AgentType /\ WholeInv /\ [Next]_vars => (AgentType /\ WholeInv)'
  BY StepType, WholeStep
<1>3. WholeInv => WholeLines
  BY DEF WholeInv
<1> QED BY <1>1, <1>2, <1>3, PTL DEF Spec
=============================================================================
