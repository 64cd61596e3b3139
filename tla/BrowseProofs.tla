---------------------------- MODULE BrowseProofs ----------------------------
(***************************************************************************)
(* What a worker who browses is shown: categories that are outdated only   *)
(* where a reader met an edit, whoever reads and edits; and pages of jobs  *)
(* that miss only what left or came meanwhile, for any jobs, filters,      *)
(* orders and page size.                                                   *)
(***************************************************************************)
EXTENDS CategoryCache, JobDiscovery, FiniteSetTheorems, TLAPS

-----------------------------------------------------------------------------
(* The categories. *)

Entry == [cached : BOOLEAN, of : Nat, left : Nat, doubted : BOOLEAN]
Reading == [at : {"idle", "query", "store"}, of : Nat, raced : BOOLEAN]

CacheTypeOK ==
  /\ version \in Nat
  /\ entry \in Entry
  /\ reading \in [Readers -> Reading]
  /\ editing \in [Editors -> {"idle", "written", "evicted", "deleted"}]

Undoubted == entry.cached /\ ~entry.doubted

\* Once a form has evicted the entry, only readers that meet it store another.
EvictedMeansDoubted ==
  \A e \in Editors : editing[e] = "evicted" => ~Undoubted

\* A bulk deletion that is committed owes the eviction of what it outdated.
StaleMeansDeleted ==
  Undoubted /\ entry.of # version =>
    \E e \in Editors : editing[e] = "deleted"

CacheInv == CacheTypeOK /\ EvictedMeansDoubted /\ StaleMeansDeleted

LEMMA InitCacheInv == ASSUME CacheInit  PROVE CacheInv
BY DEF CacheInit, CacheInv, CacheTypeOK, NoEntry, NotReading, Entry, Reading,
       EvictedMeansDoubted, StaleMeansDeleted, Undoubted

\* The two things that happen to an entry without a reader.
LEMMA EntriesStay ==
  ASSUME entry \in Entry
  PROVE  /\ NoEntry \in Entry
         /\ [entry EXCEPT !.doubted = TRUE] \in Entry
         /\ [entry EXCEPT !.doubted = TRUE].doubted
BY DEF Entry, NoEntry

LEMMA ReaderKeepsCache ==
  ASSUME CacheInv, NEW r \in Readers, Miss(r) \/ ReaderStep(r) \/ DieReading(r)
  PROVE  CacheInv'
<1>1. CASE Miss(r) \/ Query(r) \/ DieReading(r)
  <2>1. UNCHANGED <<version, entry, editing>>
    BY <1>1 DEF Miss, Query, DieReading
  <2>2. reading[r] \in Reading /\ reading \in [Readers -> Reading] /\ version \in Nat
    BY DEF CacheInv, CacheTypeOK
  <2>3. PICK x \in Reading : reading' = [reading EXCEPT ![r] = x]
    <3>1. CASE Miss(r)
      <4>1. [reading[r] EXCEPT !.at = "query"] \in Reading
        BY <2>2 DEF Reading
      <4> QED  BY <1>1, <3>1, <4>1 DEF Miss
    <3>2. CASE Query(r)
      <4>1. [at |-> "store", of |-> version, raced |-> EditUnderWay] \in Reading
        BY <2>2 DEF Reading, EditUnderWay
      <4> QED  BY <3>2, <4>1 DEF Query
    <3>3. CASE DieReading(r)
      BY <3>3 DEF DieReading, NotReading, Reading
    <3> QED  BY <1>1, <3>1, <3>2, <3>3
  <2>4. reading' \in [Readers -> Reading]
    BY <2>2, <2>3
  <2> QED  BY <2>1, <2>4 DEF CacheInv, CacheTypeOK, EvictedMeansDoubted,
                             StaleMeansDeleted, Undoubted
<1>2. CASE Store(r)
  <2>1. reading[r] \in Reading /\ CacheLife \in Nat
    BY CategoryAssumption DEF CacheInv, CacheTypeOK
  <2>2. /\ entry' \in Entry /\ entry'.of = reading[r].of
        /\ Undoubted' => ~EditUnderWay /\ reading[r].of = version
    BY <1>2, <2>1 DEF Store, Entry, Reading, Undoubted, EditUnderWay
  <2>3. CacheTypeOK'
    BY <1>2, <2>2 DEF Store, CacheInv, CacheTypeOK, NotReading, Reading
  <2>4. UNCHANGED <<version, editing>>
    BY <1>2 DEF Store
  <2> QED  BY <2>2, <2>3, <2>4 DEF CacheInv, EvictedMeansDoubted,
                                   StaleMeansDeleted, EditUnderWay
<1> QED  BY <1>1, <1>2 DEF ReaderStep

LEMMA EditorKeepsCache ==
  ASSUME CacheInv, NEW e \in Editors,
         Write(e) \/ DeleteQueryset(e) \/ EditorStep(e) \/ DieEditing(e)
  PROVE  CacheInv'
<1>1. /\ editing \in [Editors -> {"idle", "written", "evicted", "deleted"}]
      /\ entry \in Entry /\ version \in Nat
  BY DEF CacheInv, CacheTypeOK
<1>2. CacheTypeOK'
  <2>1. entry' \in Entry
    BY <1>1, EntriesStay DEF Write, DeleteQueryset, EditorStep, EvictWritten,
                             CommitForm, EvictDeleted, DieEditing
  <2>2. version' \in Nat
    BY <1>1 DEF Write, DeleteQueryset, EditorStep, EvictWritten, CommitForm,
                EvictDeleted, DieEditing, Changes
  <2>3. editing' \in [Editors -> {"idle", "written", "evicted", "deleted"}]
    BY <1>1 DEF Write, DeleteQueryset, EditorStep, EvictWritten, CommitForm,
                EvictDeleted, DieEditing, Reach
  <2>4. UNCHANGED reading
    BY DEF Write, DeleteQueryset, EditorStep, EvictWritten, CommitForm,
           EvictDeleted, DieEditing
  <2> QED  BY <2>1, <2>2, <2>3, <2>4 DEF CacheInv, CacheTypeOK
<1>3. CASE Write(e)
  BY <1>1, <1>2, <1>3 DEF Write, Reach, CacheInv, EvictedMeansDoubted,
                          StaleMeansDeleted, Undoubted
<1>4. CASE DeleteQueryset(e)
  BY <1>1, <1>2, <1>4 DEF DeleteQueryset, Reach, CacheInv, EvictedMeansDoubted,
                          StaleMeansDeleted, Undoubted
<1>5. CASE EvictWritten(e) \/ EvictDeleted(e)
  <2>1. ~Undoubted'
    BY <1>5 DEF EvictWritten, EvictDeleted, NoEntry, Undoubted
  <2> QED  BY <2>1, <1>2 DEF CacheInv, EvictedMeansDoubted, StaleMeansDeleted
<1>6. CASE CommitForm(e)
  <2>1. ~Undoubted'
    BY <1>6 DEF CommitForm, CacheInv, EvictedMeansDoubted, Undoubted
  <2> QED  BY <2>1, <1>2 DEF CacheInv, EvictedMeansDoubted, StaleMeansDeleted
<1>7. CASE DieEditing(e)
  <2>1. CASE editing[e] = "deleted"
    <3>1. ~Undoubted'
      BY <1>1, <1>7, <2>1 DEF DieEditing, Entry, Undoubted
    <3> QED  BY <3>1, <1>2 DEF CacheInv, EvictedMeansDoubted, StaleMeansDeleted
  <2>2. CASE editing[e] # "deleted"
    BY <1>1, <1>2, <1>7, <2>2 DEF DieEditing, Reach, CacheInv, EvictedMeansDoubted,
                                  StaleMeansDeleted, Undoubted
  <2> QED  BY <2>1, <2>2
<1> QED  BY <1>3, <1>4, <1>5, <1>6, <1>7 DEF EditorStep

LEMMA NextCacheInv == ASSUME CacheInv, [CacheNext]_cacheVars  PROVE CacheInv'
<1>1. CASE UNCHANGED cacheVars
  BY <1>1 DEF cacheVars, CacheInv, CacheTypeOK, EvictedMeansDoubted,
              StaleMeansDeleted, Undoubted
<1>2. CASE Seed
  <2>1. entry' \in Entry /\ ~Undoubted' /\ version' \in Nat
    <3>1. entry' = [entry EXCEPT !.doubted = TRUE] /\ version' = version + 1
      BY <1>2 DEF Seed, Changes
    <3> QED  BY <3>1, EntriesStay DEF CacheInv, CacheTypeOK, Undoubted
  <2> QED  BY <1>2, <2>1 DEF Seed, CacheInv, CacheTypeOK, EvictedMeansDoubted,
                             StaleMeansDeleted
<1>3. CASE Tick
  <2>1. /\ entry' \in Entry /\ UNCHANGED <<version, reading, editing>>
        /\ Undoubted' => Undoubted /\ entry'.of = entry.of
    BY <1>3 DEF Tick, CacheInv, CacheTypeOK, Entry, NoEntry, Undoubted
  <2> QED  BY <2>1 DEF CacheInv, CacheTypeOK, EvictedMeansDoubted, StaleMeansDeleted
<1> QED  BY <1>1, <1>2, <1>3, ReaderKeepsCache, EditorKeepsCache DEF CacheNext

(***************************************************************************)
(* While no edit is under way, cached categories are older than the table  *)
(* only if the reader that stored them met an edit, or a change evicted    *)
(* nothing: the form's own eviction, before its commit, is enough for all  *)
(* others.                                                                 *)
(***************************************************************************)
THEOREM StaleCategoriesExplained == CacheSpec => []StaleOnlyOverlapped
<1>1. CacheInit => CacheInv
  BY InitCacheInv
<1>2. CacheInv /\ [CacheNext]_cacheVars => CacheInv'
  BY NextCacheInv
<1>3. CacheInv => StaleOnlyOverlapped
  BY DEF CacheInv, StaleMeansDeleted, Undoubted, StaleOnlyOverlapped, Stale,
         EditUnderWay
<1> QED  BY <1>1, <1>2, <1>3, PTL DEF CacheSpec

-----------------------------------------------------------------------------
(* Orders of jobs and places in them, for any set of jobs. *)

QueryRow ==
  {q \in [near : BOOLEAN, sort_by : Sorts, filter : SUBSET Jobs] :
     q.sort_by = "distance" => q.near}

Untied(q, S) ==
  q.near \/ q.sort_by \notin {"price", "-price"}
    \/ \A i, j \in S : i # j => Price[i] # Price[j]

\* The jobs of S that come before j, and those on its first k places.
Ahead(q, S, j) == {i \in S : Precedes(q, i, j)}
First(q, S, k) == {j \in S : Cardinality(Ahead(q, S, j)) < k}

Orders(q, S) ==
  /\ \A i \in S : ~Precedes(q, i, i)
  /\ \A i, j \in S : i # j => Precedes(q, i, j) \/ Precedes(q, j, i)
  /\ \A i, j, k \in S :
       Precedes(q, i, j) /\ Precedes(q, j, k) => Precedes(q, i, k)

\* Where no two prices tie, each order is an order of all jobs.
LEMMA OrderOfAll ==
  ASSUME NEW q \in QueryRow, NEW S \in SUBSET Jobs, Untied(q, S)
  PROVE  Orders(q, S)
<1>1. /\ S \subseteq Nat /\ \A i \in S : Price[i] \in Nat /\ Distance[i] \in Nat
      /\ q.near \in BOOLEAN /\ q.sort_by \in Sorts
  BY DiscoveryAssumption DEF QueryRow
<1>2. CASE q.near /\ q.sort_by = "distance"
  <2>1. \A i, j \in S : Precedes(q, i, j) <=>
          Distance[i] < Distance[j] \/ (Distance[i] = Distance[j] /\ i > j)
    BY <1>2 DEF Precedes
  <2> QED  BY <1>1, <2>1 DEF Orders
<1>3. CASE q.near /\ q.sort_by \in {"-created_at", "-price"}
  <2>1. \A i, j \in S : Precedes(q, i, j) <=> i < j
    BY <1>3 DEF Precedes
  <2> QED  BY <1>1, <1>3, <2>1 DEF Orders
<1>4. CASE q.near /\ q.sort_by \in {"created_at", "price"}
  <2>1. \A i, j \in S : Precedes(q, i, j) <=> i > j
    BY <1>4 DEF Precedes
  <2> QED  BY <1>1, <1>4, <2>1 DEF Orders
<1>5. CASE ~q.near /\ q.sort_by = "-created_at"
  <2>1. \A i, j \in S : Precedes(q, i, j) <=> i > j
    BY <1>5 DEF Precedes
  <2> QED  BY <1>1, <1>5, <2>1 DEF Orders
<1>6. CASE ~q.near /\ q.sort_by = "created_at"
  <2>1. \A i, j \in S : Precedes(q, i, j) <=> i < j
    BY <1>6 DEF Precedes
  <2> QED  BY <1>1, <1>6, <2>1 DEF Orders
<1>7. CASE ~q.near /\ q.sort_by = "-price"
  <2>1. \A i, j \in S : Precedes(q, i, j) <=> Price[i] > Price[j]
    BY <1>7 DEF Precedes
  <2> QED  BY <1>1, <1>7, <2>1 DEF Untied, Orders
<1>8. CASE ~q.near /\ q.sort_by = "price"
  <2>1. \A i, j \in S : Precedes(q, i, j) <=> Price[i] < Price[j]
    BY <1>8 DEF Precedes
  <2> QED  BY <1>1, <1>8, <2>1 DEF Untied, Orders
<1> QED
  <2>1. q.sort_by = "distance" => q.near
    BY DEF QueryRow
  <2> QED  BY <1>1, <1>2, <1>3, <1>4, <1>5, <1>6, <1>7, <1>8, <2>1 DEF Sorts

LEMMA AheadFinite ==
  ASSUME NEW q, NEW S, IsFiniteSet(S), NEW j, NEW k
  PROVE  /\ IsFiniteSet(Ahead(q, S, j)) /\ Cardinality(Ahead(q, S, j)) \in Nat
         /\ IsFiniteSet(First(q, S, k)) /\ First(q, S, k) \subseteq S
<1>1. Ahead(q, S, j) \in SUBSET S /\ First(q, S, k) \in SUBSET S
  BY DEF Ahead, First
<1> QED  BY <1>1, FS_Subset, FS_CardinalityType

\* No two jobs have the same place.
LEMMA PlacesDiffer ==
  ASSUME NEW q, NEW S, IsFiniteSet(S), Orders(q, S),
         NEW i \in S, NEW j \in S,
         Cardinality(Ahead(q, S, i)) = Cardinality(Ahead(q, S, j))
  PROVE  i = j
<1>1. ASSUME NEW x \in S, NEW y \in S, Precedes(q, x, y)
      PROVE  Cardinality(Ahead(q, S, x)) # Cardinality(Ahead(q, S, y))
  <2>1. Ahead(q, S, x) \in SUBSET Ahead(q, S, y)
    BY <1>1 DEF Ahead, Orders
  <2>2. x \in Ahead(q, S, y) /\ x \notin Ahead(q, S, x)
    BY <1>1 DEF Ahead, Orders
  <2> QED  BY <2>1, <2>2, AheadFinite, FS_Subset
<1> QED  BY <1>1 DEF Orders

\* A job that leaves lets at most one other onto the first k places.
LEMMA JobLeaves ==
  ASSUME NEW q, NEW S, IsFiniteSet(S), Orders(q, S), NEW x \in S, NEW k \in Nat
  PROVE  \E y : First(q, S \ {x}, k) \subseteq First(q, S, k) \cup {y}
<1> DEFINE T == S \ {x}
           Place(j) == Cardinality(Ahead(q, S, j))
<1>1. ASSUME NEW j \in First(q, T, k), j \notin First(q, S, k)
      PROVE  j \in S /\ Place(j) = k
  <2>1. Ahead(q, T, j) = Ahead(q, S, j) \ {x}
    BY DEF Ahead
  <2>2. Cardinality(Ahead(q, T, j)) \in {Place(j), Place(j) - 1}
    BY <2>1, AheadFinite, FS_RemoveElement
  <2>3. j \in S /\ Cardinality(Ahead(q, T, j)) < k /\ ~(Place(j) < k)
    BY <1>1 DEF First
  <2>4. Place(j) \in Nat
    BY AheadFinite
  <2> HIDE DEF Place
  <2> QED  BY <2>2, <2>3, <2>4
<1>2. CASE \E y \in First(q, T, k) : y \notin First(q, S, k)
  <2>1. PICK y \in First(q, T, k) : y \notin First(q, S, k)
    BY <1>2
  <2>2. First(q, T, k) \subseteq First(q, S, k) \cup {y}
    BY <1>1, <2>1, PlacesDiffer
  <2> QED  BY <2>2
<1>3. CASE ~\E y \in First(q, T, k) : y \notin First(q, S, k)
  BY <1>3
<1> QED  BY <1>2, <1>3

\* A job that comes lets none but itself.
LEMMA JobComes ==
  ASSUME NEW q, NEW S, IsFiniteSet(S), NEW x, NEW k \in Nat
  PROVE  First(q, S \cup {x}, k) \subseteq First(q, S, k) \cup {x}
<1> SUFFICES ASSUME NEW j \in First(q, S \cup {x}, k), j # x
             PROVE  j \in First(q, S, k)
  OBVIOUS
<1>1. IsFiniteSet(S \cup {x})
  BY FS_AddElement
<1>2. Ahead(q, S, j) \in SUBSET Ahead(q, S \cup {x}, j)
  BY DEF Ahead
<1>3. /\ Cardinality(Ahead(q, S, j)) <= Cardinality(Ahead(q, S \cup {x}, j))
      /\ Cardinality(Ahead(q, S, j)) \in Nat
      /\ Cardinality(Ahead(q, S \cup {x}, j)) \in Nat
  BY <1>1, <1>2, AheadFinite, FS_Subset
<1> QED  BY <1>3 DEF First

\* As many places as there are jobs hold them all.
LEMMA AllPlaced ==
  ASSUME NEW q, NEW S, IsFiniteSet(S), Orders(q, S),
         NEW k \in Nat, Cardinality(S) <= k
  PROVE  First(q, S, k) = S
<1> SUFFICES ASSUME NEW j \in S  PROVE Cardinality(Ahead(q, S, j)) < k
  BY DEF First
<1>1. Ahead(q, S, j) \in SUBSET S /\ j \notin Ahead(q, S, j)
  BY DEF Ahead, Orders
<1>2. Cardinality(S) \in Nat /\ Cardinality(Ahead(q, S, j)) \in Nat
  BY AheadFinite, FS_CardinalityType
<1> QED  BY <1>1, <1>2, FS_Subset

\* A sorted list has each job on its place.
LEMMA SortedPlaces ==
  ASSUME NEW q, NEW S, IsFiniteSet(S), Orders(q, S),
         NEW s \in SetToSeqs(S),
         \A a, b \in DOMAIN s : a < b => ~Precedes(q, s[b], s[a])
  PROVE  /\ s \in Seq(S) /\ Len(s) = Cardinality(S)
         /\ \A j \in S : \E a \in 1 .. Len(s) :
              s[a] = j /\ Cardinality(Ahead(q, S, j)) = a - 1
<1> DEFINE n == Cardinality(S)
<1>1. n \in Nat
  BY FS_CardinalityType
<1>2. s \in [1 .. n -> S] /\ \A i, j \in 1 .. n : i # j => s[i] # s[j]
  BY DEF SetToSeqs
<1>3. s \in Seq(S) /\ Len(s) = n /\ DOMAIN s = 1 .. n
  BY <1>1, <1>2
<1>4. \A j \in S : \E a \in 1 .. n : s[a] = j
  <2>1. s \in Injection(1 .. n, S)
    BY <1>2 DEF Injection, IsInjective
  <2>2. Cardinality(1 .. n) = n
    BY <1>1, FS_Interval
  <2>3. s \in Surjection(1 .. n, S)
    BY <2>1, <2>2, FS_Injection
  <2> QED  BY <2>3 DEF Surjection
<1>5. ASSUME NEW a \in 1 .. n  PROVE Cardinality(Ahead(q, S, s[a])) = a - 1
  <2> DEFINE f == [b \in 1 .. a - 1 |-> s[b]]
  <2>1. \A b \in 1 .. n : Precedes(q, s[b], s[a]) <=> b < a
    <3> SUFFICES ASSUME NEW b \in 1 .. n
                 PROVE  Precedes(q, s[b], s[a]) <=> b < a
      OBVIOUS
    <3>1. CASE b < a
      <4>1. ~Precedes(q, s[a], s[b]) /\ s[a] # s[b] /\ s[a] \in S /\ s[b] \in S
        BY <1>2, <1>3, <3>1
      <4> QED  BY <3>1, <4>1 DEF Orders
    <3>2. CASE b = a
      BY <1>1, <1>2, <3>2 DEF Orders
    <3>3. CASE a < b
      BY <1>1, <1>3, <3>3
    <3> QED  BY <1>1, <3>1, <3>2, <3>3
  <2>2. a - 1 \in Nat /\ \A b \in 1 .. a - 1 : b \in 1 .. n /\ b < a
    BY <1>1
  <2>3. f \in [1 .. a - 1 -> Ahead(q, S, s[a])]
    BY <1>2, <2>1, <2>2 DEF Ahead
  <2>4. f \in Injection(1 .. a - 1, Ahead(q, S, s[a]))
    BY <1>2, <2>2, <2>3 DEF Injection, IsInjective
  <2>5. \A j \in Ahead(q, S, s[a]) : \E b \in 1 .. a - 1 : f[b] = j
    <3> SUFFICES ASSUME NEW j \in Ahead(q, S, s[a])
                 PROVE  \E b \in 1 .. a - 1 : f[b] = j
      OBVIOUS
    <3>1. PICK b \in 1 .. n : s[b] = j
      BY <1>4 DEF Ahead
    <3>2. b < a
      BY <2>1, <3>1 DEF Ahead
    <3>3. b \in 1 .. a - 1
      BY <1>1, <3>2
    <3> QED  BY <3>1, <3>3
  <2>6. f \in Bijection(1 .. a - 1, Ahead(q, S, s[a]))
    BY <2>3, <2>4, <2>5 DEF Bijection, Surjection
  <2> QED  BY <2>2, <2>6, FS_CountingElements DEF ExistsBijection
<1> QED  BY <1>3, <1>4, <1>5

\* The least of three numbers, where a slice ends.
LEMMA LeastOfThree ==
  ASSUME NEW a \in Nat, NEW b \in Nat, NEW c \in Nat
  PROVE  /\ Min({a, b, c}) \in {a, b, c}
         /\ Min({a, b, c}) <= a /\ Min({a, b, c}) <= b /\ Min({a, b, c}) <= c
<1>1. \E x \in {a, b, c} : \A y \in {a, b, c} : x <= y
  <2>1. CASE a <= b /\ a <= c
    BY <2>1
  <2>2. CASE b <= a /\ b <= c
    BY <2>2
  <2>3. CASE c <= a /\ c <= b
    BY <2>3
  <2> QED  BY <2>1, <2>2, <2>3
<1> DEFINE P(x) == x \in {a, b, c} /\ \A y \in {a, b, c} : x <= y
<1>2. P(CHOOSE x : P(x))
  BY <1>1
<1>3. Min({a, b, c}) = CHOOSE x : P(x)
  BY DEF Min
<1> QED  BY <1>2, <1>3

\* At least union bound for two finite sets.
LEMMA UnionBound ==
  ASSUME NEW A, NEW B, IsFiniteSet(A), IsFiniteSet(B), NEW C \in SUBSET (A \cup B)
  PROVE  /\ IsFiniteSet(C) /\ Cardinality(C) \in Nat
         /\ Cardinality(A) \in Nat /\ Cardinality(B) \in Nat
         /\ Cardinality(C) <= Cardinality(A) + Cardinality(B)
<1>1. /\ IsFiniteSet(A \cup B) /\ IsFiniteSet(A \cap B)
      /\ Cardinality(A \cup B) = Cardinality(A) + Cardinality(B) - Cardinality(A \cap B)
  BY FS_Union, FS_Intersection
<1>2. IsFiniteSet(C) /\ Cardinality(C) <= Cardinality(A \cup B)
  BY <1>1, FS_Subset
<1> QED  BY <1>1, <1>2, FS_CardinalityType

Excess(S, count) == IF count < Cardinality(S) THEN Cardinality(S) - count ELSE 0

\* The list's length, and the places a page begins and ends at.
Start(page) == (page - 1) * PageSize
SliceEnd(page, count, S) == Min({page * PageSize, count, Cardinality(S)})

LEMMA PageBounds ==
  ASSUME NEW S, IsFiniteSet(S), NEW page \in Nat \ {0}, NEW count \in Nat
  PROVE  LET hi == page * PageSize
             n == Cardinality(S)
             end == SliceEnd(page, count, S)
         IN  /\ Start(page) \in Nat /\ hi \in Nat /\ hi = Start(page) + PageSize
             /\ n \in Nat /\ end \in Nat /\ end \in {hi, count, n}
             /\ end <= hi /\ end <= count /\ end <= n
<1>1. PageSize \in Nat /\ page - 1 \in Nat /\ (page - 1) + 1 = page
  BY DiscoveryAssumption
<1>2. \A x, y \in Nat : x * y \in Nat /\ (x + 1) * y = x * y + y
  OBVIOUS
<1>3. /\ Start(page) \in Nat /\ page * PageSize \in Nat
      /\ page * PageSize = Start(page) + PageSize
  BY <1>1, <1>2 DEF Start
<1>4. Cardinality(S) \in Nat
  BY FS_CardinalityType
<1> QED  BY <1>3, <1>4, LeastOfThree DEF SliceEnd

\* A page shows the jobs from its start to its end, which are listed ones.
LEMMA SliceShown ==
  ASSUME NEW S, IsFiniteSet(S), NEW s \in SetToSeqs(S),
         NEW page \in Nat \ {0}, NEW count \in Nat
  PROVE  /\ Shown(s, page, count) \subseteq S
         /\ \A a \in Start(page) + 1 .. SliceEnd(page, count, S) :
              s[a] \in Shown(s, page, count)
<1> DEFINE n == Cardinality(S)
           lo == Start(page)
           end == SliceEnd(page, count, S)
           seen == Shown(s, page, count)
<1>1. lo \in Nat /\ n \in Nat /\ end \in Nat /\ end <= n
  BY PageBounds
<1>2. Len(s) = n /\ \A a \in 1 .. n : s[a] \in S
  <2>1. s \in [1 .. n -> S]
    BY DEF SetToSeqs
  <2> QED  BY <2>1, <1>1
<1>3. seen = ToSet(SubSeq(s, lo + 1, end))
  BY <1>2 DEF Shown, Start, SliceEnd
<1> HIDE DEF seen, end, lo, n
<1>4. \A a \in lo + 1 .. end : s[a] \in S
  BY <1>1, <1>2
<1>5. /\ SubSeq(s, lo + 1, end) \in Seq(S)
      /\ \A i \in 1 .. (end - lo) :
           i \in DOMAIN SubSeq(s, lo + 1, end) /\ SubSeq(s, lo + 1, end)[i] = s[lo + i]
  <2>1. SubSeq(s, lo + 1, end) = [i \in 1 .. (end - (lo + 1) + 1) |-> s[i + (lo + 1) - 1]]
    BY <1>1
  <2>2. end - (lo + 1) + 1 = end - lo /\ end - lo \in Int
    BY <1>1
  <2>3. \A i \in 1 .. (end - lo) : i + (lo + 1) - 1 = lo + i /\ lo + i \in lo + 1 .. end
    BY <1>1
  <2>4. SubSeq(s, lo + 1, end) = [i \in 1 .. (end - lo) |-> s[lo + i]]
    BY <2>1, <2>2, <2>3
  <2>5. [i \in 1 .. (end - lo) |-> s[lo + i]] \in Seq(S)
    <3>1. PICK m \in Nat : 1 .. (end - lo) = 1 .. m
      <4>1. CASE end - lo \in Nat
        BY <4>1
      <4>2. CASE end - lo \notin Nat
        <5>1. 1 .. (end - lo) = 1 .. 0
          BY <2>2, <4>2
        <5> QED  BY <5>1
      <4> QED  BY <4>1, <4>2
    <3>2. [i \in 1 .. (end - lo) |-> s[lo + i]] \in [1 .. m -> S]
      BY <1>4, <2>3, <3>1
    <3>3. \A g \in [1 .. m -> S] : g \in Seq(S)
      OBVIOUS
    <3> QED  BY <3>2, <3>3
  <2> QED  BY <2>4, <2>5
<1>6. seen \subseteq S
  BY <1>3, <1>5 DEF ToSet
<1>7. \A a \in lo + 1 .. end : s[a] \in seen
  <2> SUFFICES ASSUME NEW a \in lo + 1 .. end  PROVE s[a] \in seen
    OBVIOUS
  <2>1. a - lo \in 1 .. (end - lo) /\ lo + (a - lo) = a
    BY <1>1
  <2> QED  BY <2>1, <1>3, <1>5 DEF ToSet
<1> QED  BY <1>6, <1>7 DEF seen, end, lo

\* What a page leaves unseen on its own places and on those before it, or for
\* good if it is the last, was unseen before it or lies beyond the count.
LEMMA PageShown ==
  ASSUME NEW q, NEW S, IsFiniteSet(S), Orders(q, S),
         NEW s \in SetToSeqs(S),
         \A a, b \in DOMAIN s : a < b => ~Precedes(q, s[b], s[a]),
         NEW X \in SUBSET S, NEW page \in Nat \ {0}, NEW count \in Nat
  PROVE  LET unseen == X \ Shown(s, page, count)
             bound == Cardinality(X \cap First(q, S, Start(page)))
                        + Excess(S, count)
         IN  /\ Cardinality(unseen \cap First(q, S, page * PageSize)) <= bound
             /\ page * PageSize >= count => Cardinality(unseen) <= bound
<1> DEFINE n == Cardinality(S)
           lo == Start(page)
           hi == page * PageSize
           end == SliceEnd(page, count, S)
           seen == Shown(s, page, count)
           Late == {s[a] : a \in count + 1 .. n}
           Early == X \cap First(q, S, lo)
<1>1. lo \in Nat /\ hi \in Nat /\ n \in Nat
  BY PageBounds
<1>2. /\ s \in Seq(S) /\ Len(s) = n /\ DOMAIN s = 1 .. n
      /\ \A j \in S : \E a \in 1 .. n :
           s[a] = j /\ Cardinality(Ahead(q, S, j)) = a - 1
  BY SortedPlaces
<1>3. end \in {hi, count, n} /\ end \in Nat
  BY PageBounds
<1>4. \A a \in lo + 1 .. end : s[a] \in seen
  BY SliceShown
<1> HIDE DEF n, lo, hi, seen, end
<1>5. IsFiniteSet(Late) /\ Cardinality(Late) <= Excess(S, count)
  <2> DEFINE f == [a \in count + 1 .. n |-> s[a]]
  <2>1. f \in Surjection(count + 1 .. n, Late)
    BY DEF Surjection
  <2>2. /\ IsFiniteSet(count + 1 .. n)
        /\ Cardinality(count + 1 .. n) = Excess(S, count)
    <3>1. Excess(S, count) = IF count < n THEN n - count ELSE 0
      BY DEF Excess, n
    <3>2. count + 1 \in Int /\ n \in Int
      BY <1>1
    <3>3. /\ IsFiniteSet(count + 1 .. n)
          /\ Cardinality(count + 1 .. n) =
               IF count + 1 > n THEN 0 ELSE n - (count + 1) + 1
      BY <3>2, FS_Interval
    <3> QED  BY <1>1, <3>1, <3>3
  <2> QED  BY <2>1, <2>2, FS_Surjection
<1>6. IsFiniteSet(Early)
  BY FS_Subset
<1>7. ASSUME NEW j \in X \ seen, j \notin Early, j \notin Late
       PROVE  Cardinality(Ahead(q, S, j)) \in Nat /\ ~(Cardinality(Ahead(q, S, j)) < hi)
              /\ ~(hi >= count)
  <2>1. PICK a \in 1 .. n : s[a] = j /\ Cardinality(Ahead(q, S, j)) = a - 1
    BY <1>2, <1>7
  <2>2. ~(a - 1 < lo)
    BY <2>1, <1>7 DEF First
  <2>3. a \notin count + 1 .. n /\ a \notin lo + 1 .. end
    BY <2>1, <1>4, <1>7
  <2> QED  BY <2>1, <2>2, <2>3, <1>1, <1>3
<1>8. ASSUME NEW C \in SUBSET (Early \cup Late)
      PROVE  Cardinality(C) <= Cardinality(Early) + Excess(S, count)
  <2>1. Excess(S, count) \in Nat
    BY <1>1 DEF Excess, n
  <2> HIDE DEF Early, Late
  <2>2. /\ Cardinality(C) <= Cardinality(Early) + Cardinality(Late)
        /\ Cardinality(C) \in Nat /\ Cardinality(Early) \in Nat
        /\ Cardinality(Late) \in Nat
    BY <1>5, <1>6, UnionBound
  <2> QED  BY <2>1, <2>2, <1>5
<1>9. (X \ seen) \cap First(q, S, hi) \in SUBSET (Early \cup Late)
  BY <1>7 DEF First
<1>10. hi >= count => X \ seen \in SUBSET (Early \cup Late)
  BY <1>7
<1> QED  BY <1>8, <1>9, <1>10 DEF seen, hi, lo

-----------------------------------------------------------------------------
(* The walk. *)

WalkRow ==
  [at : {"idle", "asked", "counted", "paged", "done"},
   query : [near : BOOLEAN, sort_by : Sorts, filter : SUBSET Jobs],
   page : Nat \ {0}, count : Nat,
   seen : SUBSET Jobs, from : SUBSET Jobs, upset : Nat]

DiscoveryTypeOK ==
  /\ posted \subseteq Jobs /\ IsFiniteSet(posted)
  /\ gone \subseteq posted
  /\ walk \in WalkRow /\ walk.query \in QueryRow
  /\ walk.from \subseteq posted \cap walk.query.filter

\* The jobs the walk is about and has not shown, and the places it has passed.
Unseen == (walk.from \ gone) \ walk.seen
Places(k) == First(walk.query, Listed(walk.query), k)
Passed == Start(walk.page)

\* What the walk has passed without showing it was upset to there; inside a
\* request, so is what has grown beyond the count.
PagesKept ==
  ~ByTies(walk.query) =>
    /\ walk.at = "asked" => Cardinality(Unseen \cap Places(Passed)) <= walk.upset
    /\ walk.at = "counted" =>
         Cardinality(Unseen \cap Places(Passed))
           + Excess(Listed(walk.query), walk.count) <= walk.upset
    /\ walk.at = "paged" =>
         Cardinality(Unseen \cap Places(walk.page * PageSize)) <= walk.upset
    /\ walk.at = "done" => Cardinality(Unseen) <= walk.upset

WalkInv == DiscoveryTypeOK /\ PagesKept

LEMMA WalkFacts ==
  ASSUME DiscoveryTypeOK
  PROVE  LET S == Listed(walk.query)
         IN  /\ S \subseteq Jobs /\ IsFiniteSet(S) /\ Cardinality(S) \in Nat
             /\ Unseen \subseteq S /\ IsFiniteSet(Unseen)
             /\ Passed \in Nat /\ walk.page * PageSize = Passed + PageSize
             /\ ~ByTies(walk.query) => Orders(walk.query, S)
<1> DEFINE S == Listed(walk.query)
<1>1. S \in SUBSET posted /\ S \subseteq walk.query.filter /\ S \subseteq Jobs
  BY DEF DiscoveryTypeOK, Listed
<1>2. IsFiniteSet(S) /\ Cardinality(S) \in Nat
  BY <1>1, FS_Subset, FS_CardinalityType DEF DiscoveryTypeOK
<1>3. Unseen \in SUBSET S
  BY DEF DiscoveryTypeOK, Listed, Unseen
<1>4. IsFiniteSet(Unseen)
  BY <1>2, <1>3, FS_Subset
<1>5. Passed \in Nat /\ walk.page * PageSize = Passed + PageSize
  <2>1. PageSize \in Nat /\ walk.page - 1 \in Nat /\ (walk.page - 1) + 1 = walk.page
    BY DiscoveryAssumption DEF DiscoveryTypeOK, WalkRow
  <2>2. \A x, y \in Nat : x * y \in Nat /\ (x + 1) * y = x * y + y
    OBVIOUS
  <2> QED  BY <2>1, <2>2 DEF Passed, Start
<1>6. ASSUME ~ByTies(walk.query)  PROVE Orders(walk.query, S)
  <2>1. Untied(walk.query, S)
    BY <1>1, <1>6 DEF ByTies, Untied
  <2> QED  BY <1>1, <2>1, OrderOfAll DEF DiscoveryTypeOK
<1> QED  BY <1>1, <1>2, <1>3, <1>4, <1>5, <1>6

\* Fewer jobs are no more.
LEMMA SmallerCount ==
  ASSUME NEW A, IsFiniteSet(A), NEW B \in SUBSET A
  PROVE  /\ Cardinality(B) <= Cardinality(A)
         /\ Cardinality(A) \in Nat /\ Cardinality(B) \in Nat
BY FS_Subset, FS_CardinalityType

\* Whoever has asked for all pages of a list has passed all of it.
LEMMA PagesSuffice ==
  ASSUME NEW count \in Nat, NEW page \in Nat, page >= NumPages(count)
  PROVE  page * PageSize >= count
<1>1. PageSize \in Nat \ {0}
  BY DiscoveryAssumption
<1>2. CASE count = 0
  <2>1. \A x, y \in Nat : x * y \in Nat
    OBVIOUS
  <2> QED  BY <1>1, <1>2, <2>1
<1>3. CASE count # 0
  <2> DEFINE pages == (count + PageSize - 1) \div PageSize
  <2>1. /\ pages \in Nat
        /\ pages * PageSize + PageSize > count + PageSize - 1
    BY <1>1, <1>3
  <2>2. page >= pages
    BY <1>3 DEF NumPages
  <2> HIDE DEF pages
  <2>3. \A x, y, z \in Nat : x >= y => x * z >= y * z /\ x * z \in Nat /\ y * z \in Nat
    OBVIOUS
  <2>4. page * PageSize >= pages * PageSize
        /\ page * PageSize \in Nat /\ pages * PageSize \in Nat
    BY <1>1, <2>1, <2>2, <2>3
  <2> QED  BY <1>1, <2>1, <2>4
<1> QED  BY <1>2, <1>3

LEMMA InitWalkInv == ASSUME DiscoveryInit  PROVE WalkInv
BY FS_EmptySet
DEF DiscoveryInit, NoWalk, NoQuery, WalkInv, DiscoveryTypeOK, WalkRow, QueryRow,
    Sorts, PagesKept

LEMMA AskStep ==
  ASSUME WalkInv, NEW q \in Queries, Ask(q)  PROVE WalkInv'
<1>1. /\ walk' = [at |-> "asked", query |-> q, page |-> 1, count |-> 0,
                  seen |-> {}, from |-> Listed(q), upset |-> 0]
      /\ UNCHANGED <<posted, gone>>
  BY DEF Ask, NoWalk
<1>2. q \in QueryRow
  BY DiscoveryAssumption DEF Queries, QueryRow
<1>3. DiscoveryTypeOK'
  BY <1>1, <1>2 DEF WalkInv, DiscoveryTypeOK, WalkRow, QueryRow, Listed
<1>4. PagesKept'
  <2>1. Passed' = 0
    <3>1. PageSize \in Nat
      BY DiscoveryAssumption
    <3> QED  BY <1>1, <3>1 DEF Passed, Start
  <2>2. Places(0)' = {}
    <3> SUFFICES ASSUME NEW j \in Places(0)'  PROVE FALSE
      OBVIOUS
    <3>1. IsFiniteSet(Listed(q)')
      BY <1>1, <1>3, WalkFacts, FS_Subset DEF Listed, DiscoveryTypeOK
    <3>2. Cardinality(Ahead(q, Listed(q)', j)) \in Nat
      BY <3>1, AheadFinite
    <3>3. Cardinality(Ahead(q, Listed(q)', j)) < 0
      BY <1>1 DEF Places, First, Listed
    <3> QED  BY <3>2, <3>3
  <2>3. (Unseen \cap Places(Passed))' = {}
    BY <2>1, <2>2 DEF Places
  <2> QED  BY <1>1, <2>3, FS_EmptySet DEF PagesKept
<1> QED  BY <1>3, <1>4 DEF WalkInv

LEMMA NextPageStep == ASSUME WalkInv, NextPage  PROVE WalkInv'
<1>1. /\ walk \in WalkRow
      /\ walk' = [walk EXCEPT !.at = "asked", !.page = @ + 1]
      /\ UNCHANGED <<posted, gone>>
  BY DEF NextPage, WalkInv, DiscoveryTypeOK
<1>2. /\ walk' \in WalkRow /\ walk'.at = "asked" /\ walk'.page = walk.page + 1
      /\ walk'.query = walk.query /\ walk'.from = walk.from
      /\ walk'.seen = walk.seen /\ walk'.upset = walk.upset
  <2>1. walk.page + 1 \in Nat \ {0}
    BY <1>1 DEF WalkRow
  <2> QED  BY <1>1, <2>1 DEF WalkRow
<1>3. DiscoveryTypeOK'
  BY <1>1, <1>2 DEF WalkInv, DiscoveryTypeOK
<1>4. Passed' = walk.page * PageSize
  <2>1. (walk.page + 1) - 1 = walk.page
    BY <1>1 DEF WalkRow
  <2> QED  BY <1>2, <2>1 DEF Passed, Start
<1>5. PagesKept'
  <2>1. Unseen' = Unseen /\ Listed(walk.query)' = Listed(walk.query)
    BY <1>1, <1>2 DEF Unseen, Listed
  <2>2. Places(Passed)' = Places(walk.page * PageSize)
    BY <1>2, <1>4, <2>1 DEF Places
  <2>3. ByTies(walk.query)' <=> ByTies(walk.query)
    BY <1>1, <1>2 DEF ByTies
  <2>4. walk.at = "paged"
    BY DEF NextPage
  <2> QED  BY <1>2, <2>1, <2>2, <2>3, <2>4 DEF WalkInv, PagesKept
<1> QED  BY <1>3, <1>5 DEF WalkInv

\* A page that is answered, from the count of its own request.
LEMMA ShowStep ==
  ASSUME WalkInv, walk.at \in {"asked", "counted"}, UNCHANGED <<posted, gone>>,
         NEW s \in Ordered(walk.query), NEW count \in Nat, Show(s, count),
         ~ByTies(walk.query) =>
           Cardinality(Unseen \cap Places(Passed))
             + Excess(Listed(walk.query), count) <= walk.upset
  PROVE  WalkInv'
<1> DEFINE q == walk.query
           S == Listed(q)
           new == Shown(s, walk.page, count)
<1>1. /\ walk \in WalkRow /\ S \subseteq Jobs /\ IsFiniteSet(S)
      /\ walk.page \in Nat \ {0}
  BY WalkFacts DEF WalkInv, DiscoveryTypeOK, WalkRow
<1>2. /\ s \in SetToSeqs(S)
      /\ \A a, b \in DOMAIN s : a < b => ~Precedes(q, s[b], s[a])
  BY DEF Ordered
<1>3. new \subseteq Jobs
  BY <1>1, <1>2, SliceShown
<1>4. /\ walk' \in WalkRow
      /\ walk'.at = IF walk.page < NumPages(count) THEN "paged" ELSE "done"
      /\ walk'.page = walk.page /\ walk'.query = q /\ walk'.from = walk.from
      /\ walk'.seen = walk.seen \cup new /\ walk'.upset = walk.upset
  <2>1. walk.seen \cup new \in SUBSET Jobs
    BY <1>1, <1>3 DEF WalkRow
  <2> HIDE DEF new
  <2>2. walk' = [walk EXCEPT
                   !.at = IF walk.page < NumPages(count) THEN "paged" ELSE "done",
                   !.count = 0, !.seen = walk.seen \cup new]
    BY DEF Show, new
  <2> QED  BY <1>1, <2>1, <2>2 DEF WalkRow
<1>5. DiscoveryTypeOK'
  BY <1>4 DEF WalkInv, DiscoveryTypeOK
<1>6. ASSUME ~ByTies(q)'  PROVE
        /\ walk'.at = "paged" =>
             Cardinality(Unseen \cap Places(walk.page * PageSize))' <= walk.upset
        /\ walk'.at = "done" => Cardinality(Unseen)' <= walk.upset
  <2>1. ~ByTies(q)
    BY <1>4, <1>6 DEF ByTies
  <2>2. Orders(q, S) /\ Unseen \in SUBSET S
    BY <2>1, WalkFacts DEF WalkInv
  <2>3. Cardinality(Unseen \cap First(q, S, Start(walk.page))) + Excess(S, count)
          <= walk.upset
    BY <2>1 DEF Places, Passed
  <2>4. /\ Unseen' = Unseen \ new
        /\ Places(walk.page * PageSize)' = First(q, S, walk.page * PageSize)
    BY <1>4 DEF Unseen, Places, Listed
  <2> DEFINE bound == Cardinality(Unseen \cap First(q, S, Start(walk.page)))
                        + Excess(S, count)
  <2>5. /\ Cardinality((Unseen \ new) \cap First(q, S, walk.page * PageSize)) <= bound
        /\ walk.page * PageSize >= count => Cardinality(Unseen \ new) <= bound
    BY <1>1, <1>2, <2>2, PageShown
  <2>6. walk'.at = "done" => walk.page * PageSize >= count
    <3>1. NumPages(count) \in Nat
      BY DiscoveryAssumption DEF NumPages
    <3>2. walk'.at = "done" => walk.page >= NumPages(count)
      BY <1>1, <1>4, <3>1
    <3> QED  BY <1>1, <3>2, PagesSuffice
  <2>7. /\ bound \in Nat
        /\ Cardinality((Unseen \ new) \cap First(q, S, walk.page * PageSize)) \in Nat
        /\ Cardinality(Unseen \ new) \in Nat /\ walk.upset \in Nat
    <3>1. IsFiniteSet(Unseen)
      BY WalkFacts DEF WalkInv
    <3>2. /\ Unseen \ new \in SUBSET Unseen
          /\ (Unseen \ new) \cap First(q, S, walk.page * PageSize) \in SUBSET Unseen
          /\ Unseen \cap First(q, S, Start(walk.page)) \in SUBSET Unseen
      OBVIOUS
    <3>3. /\ Cardinality(Unseen \ new) \in Nat
          /\ Cardinality((Unseen \ new) \cap First(q, S, walk.page * PageSize)) \in Nat
          /\ Cardinality(Unseen \cap First(q, S, Start(walk.page))) \in Nat
      BY <3>1, <3>2, SmallerCount
    <3>4. Excess(S, count) \in Nat
      BY <1>1, FS_CardinalityType DEF Excess
    <3> QED  BY <1>1, <3>3, <3>4 DEF WalkRow
  <2> HIDE DEF bound
  <2>8. bound <= walk.upset
    BY <2>3 DEF bound
  <2>9. /\ Cardinality(Unseen \cap Places(walk.page * PageSize))' <= bound
        /\ walk'.at = "done" => Cardinality(Unseen)' <= bound
    BY <2>4, <2>5, <2>6
  <2>10. /\ Cardinality(Unseen \cap Places(walk.page * PageSize))' \in Nat
         /\ Cardinality(Unseen)' \in Nat
    BY <2>4, <2>7
  <2> QED  BY <2>7, <2>8, <2>9, <2>10
<1>7. PagesKept'
  BY <1>4, <1>6 DEF PagesKept
<1> QED  BY <1>5, <1>7 DEF WalkInv

\* A walk that passed as many places as there are jobs ends with nothing more.
LEMMA WalkEnds ==
  ASSUME WalkInv, walk.at = "asked", UNCHANGED <<posted, gone>>,
         walk.page > NumPages(Cardinality(Listed(walk.query))),
         walk' = [walk EXCEPT !.at = "done"]
  PROVE  WalkInv'
<1> DEFINE q == walk.query
           S == Listed(q)
           n == Cardinality(S)
<1>1. /\ walk' \in WalkRow /\ walk'.at = "done" /\ walk'.query = q
      /\ walk'.from = walk.from /\ walk'.seen = walk.seen
      /\ walk'.upset = walk.upset
  BY DEF WalkInv, DiscoveryTypeOK, WalkRow
<1>2. DiscoveryTypeOK'
  BY <1>1 DEF WalkInv, DiscoveryTypeOK
<1>3. ASSUME ~ByTies(q)'  PROVE Cardinality(Unseen)' <= walk.upset
  <2>1. ~ByTies(q)
    BY <1>1, <1>3 DEF ByTies
  <2>2. Orders(q, S) /\ Unseen \subseteq S /\ IsFiniteSet(S) /\ n \in Nat
        /\ Passed \in Nat
    BY <2>1, WalkFacts DEF WalkInv
  <2>3. Passed >= n
    <3>1. /\ walk.page - 1 \in Nat /\ NumPages(n) \in Nat
          /\ walk.page - 1 >= NumPages(n)
      BY <2>2, DiscoveryAssumption DEF NumPages, WalkInv, DiscoveryTypeOK, WalkRow
    <3> QED  BY <2>2, <3>1, PagesSuffice DEF Passed, Start
  <2>4. Places(Passed) = S
    BY <2>2, <2>3, AllPlaced DEF Places
  <2>5. Unseen \cap Places(Passed) = Unseen /\ Unseen' = Unseen
    BY <1>1, <2>2, <2>4 DEF Unseen
  <2> QED  BY <2>1, <2>5 DEF WalkInv, PagesKept
<1> QED  BY <1>1, <1>2, <1>3 DEF WalkInv, PagesKept

LEMMA CountStep == ASSUME WalkInv, Count  PROVE WalkInv'
<1> DEFINE n == Cardinality(Listed(walk.query))
<1>1. CASE walk.page > NumPages(n)
  BY <1>1, WalkEnds DEF Count
<1>2. CASE ~(walk.page > NumPages(n))
  <2>1. /\ walk.at = "asked" /\ n \in Nat /\ walk \in WalkRow
        /\ walk' = [walk EXCEPT !.at = "counted", !.count = n]
        /\ UNCHANGED <<posted, gone>>
    BY <1>2, WalkFacts DEF Count, WalkInv, DiscoveryTypeOK
  <2>2. /\ walk' \in WalkRow /\ walk'.at = "counted" /\ walk'.count = n
        /\ walk'.query = walk.query /\ walk'.page = walk.page
        /\ walk'.from = walk.from /\ walk'.seen = walk.seen
        /\ walk'.upset = walk.upset
    <3> HIDE DEF n
    <3> QED  BY <2>1 DEF WalkRow
  <2>3. DiscoveryTypeOK'
    BY <2>1, <2>2 DEF WalkInv, DiscoveryTypeOK
  <2>4. Listed(walk.query)' = Listed(walk.query) /\ Unseen' = Unseen
    BY <2>1, <2>2 DEF Listed, Unseen
  <2>5. /\ Places(Passed)' = Places(Passed)
        /\ ByTies(walk.query)' <=> ByTies(walk.query)
    BY <2>1, <2>2, <2>4 DEF Places, Passed, ByTies
  <2>6. Excess(Listed(walk.query), walk.count)' = 0
    BY <2>1, <2>2, <2>4 DEF Excess
  <2>7. Cardinality(Unseen \cap Places(Passed)) \in Nat
    BY WalkFacts, SmallerCount DEF WalkInv
  <2>8. PagesKept'
    BY <2>1, <2>2, <2>4, <2>5, <2>6, <2>7 DEF WalkInv, PagesKept
  <2> QED  BY <2>3, <2>8 DEF WalkInv
<1> QED  BY <1>1, <1>2

LEMMA SliceStep == ASSUME WalkInv, Slice  PROVE WalkInv'
<1>1. PICK s \in Ordered(walk.query) : Show(s, walk.count)
  BY DEF Slice
<1>2. walk.count \in Nat
  BY DEF WalkInv, DiscoveryTypeOK, WalkRow
<1> QED  BY <1>1, <1>2, ShowStep DEF Slice, WalkInv, PagesKept

LEMMA PageOfListStep == ASSUME WalkInv, PageOfList  PROVE WalkInv'
<1> DEFINE n == Cardinality(Listed(walk.query))
<1>1. PICK s \in Ordered(walk.query) :
        IF walk.page > NumPages(Len(s)) THEN walk' = [walk EXCEPT !.at = "done"]
        ELSE Show(s, Len(s))
  BY DEF PageOfList
<1>2. n \in Nat /\ Len(s) = n
  <2>1. n \in Nat /\ s \in [1 .. n -> Listed(walk.query)]
    BY WalkFacts DEF Ordered, SetToSeqs, WalkInv
  <2> HIDE DEF n
  <2> QED  BY <2>1
<1>3. CASE walk.page > NumPages(n)
  BY <1>1, <1>2, <1>3, WalkEnds DEF PageOfList
<1>4. CASE ~(walk.page > NumPages(n))
  <2>1. Show(s, n)
    BY <1>1, <1>2, <1>4
  <2>2. Excess(Listed(walk.query), n) = 0
    BY <1>2 DEF Excess
  <2>3. Cardinality(Unseen \cap Places(Passed)) \in Nat
    BY WalkFacts, SmallerCount DEF WalkInv
  <2>4. ~ByTies(walk.query) =>
          Cardinality(Unseen \cap Places(Passed)) <= walk.upset
    BY DEF PageOfList, WalkInv, PagesKept
  <2>5. ~ByTies(walk.query) =>
          Cardinality(Unseen \cap Places(Passed))
            + Excess(Listed(walk.query), n) <= walk.upset
    BY <2>2, <2>3, <2>4
  <2> QED  BY <1>2, <2>1, <2>5, ShowStep DEF PageOfList
<1> QED  BY <1>3, <1>4

LEMMA LeaveStep == ASSUME WalkInv, Leave  PROVE WalkInv'
BY DEF Leave, NoWalk, NoQuery, WalkInv, DiscoveryTypeOK, WalkRow, QueryRow, Sorts,
       PagesKept

\* The places a walk has passed or is to pass.
LEMMA PlacesInNat ==
  ASSUME DiscoveryTypeOK
  PROVE  Passed \in Nat /\ walk.page * PageSize \in Nat
BY WalkFacts, DiscoveryAssumption

\* What a job that comes or leaves must cost the walk, at the most, for
\* PagesKept to hold of the unseen jobs U and the list T that it makes.
LEMMA KeptAfter ==
  ASSUME NEW U, NEW T, Unseen' = U, Listed(walk.query)' = T,
         walk'.at = walk.at, walk'.query = walk.query, walk'.page = walk.page,
         walk'.count = walk.count,
         walk.at = "asked" =>
           Cardinality(U \cap First(walk.query, T, Passed)) <= walk'.upset,
         walk.at = "counted" =>
           Cardinality(U \cap First(walk.query, T, Passed)) + Excess(T, walk.count)
             <= walk'.upset,
         walk.at = "paged" =>
           Cardinality(U \cap First(walk.query, T, walk.page * PageSize))
             <= walk'.upset,
         walk.at = "done" => Cardinality(U) <= walk'.upset
  PROVE  PagesKept'
<1>1. Passed' = Passed /\ (walk.page * PageSize)' = walk.page * PageSize
  BY DEF Passed
<1>2. /\ Places(Passed)' = First(walk.query, T, Passed)
      /\ Places(walk.page * PageSize)' = First(walk.query, T, walk.page * PageSize)
  BY <1>1 DEF Places
<1>3. /\ (Unseen \cap Places(Passed))' = U \cap First(walk.query, T, Passed)
      /\ (Unseen \cap Places(walk.page * PageSize))'
           = U \cap First(walk.query, T, walk.page * PageSize)
  BY <1>2
<1>4. Excess(Listed(walk.query), walk.count)' = Excess(T, walk.count)
  OBVIOUS
<1>5. /\ Cardinality(Unseen \cap Places(Passed))'
           = Cardinality(U \cap First(walk.query, T, Passed))
      /\ Cardinality(Unseen \cap Places(walk.page * PageSize))'
           = Cardinality(U \cap First(walk.query, T, walk.page * PageSize))
      /\ Cardinality(Unseen)' = Cardinality(U)
  BY <1>3
<1> QED  BY <1>4, <1>5 DEF PagesKept

\* A job that comes pushes others back, onto places that are still to come.
LEMMA PostStep ==
  ASSUME WalkInv, NEW j \in Jobs, Post(j)  PROVE WalkInv'
<1> DEFINE q == walk.query
           S == Listed(q)
           T == IF j \in q.filter THEN S \cup {j} ELSE S
           more == IF walk.at = "counted" /\ j \in q.filter THEN 1 ELSE 0
<1>1. /\ walk \in WalkRow /\ j \notin posted /\ posted' = posted \cup {j}
      /\ gone' = gone /\ gone \subseteq posted
      /\ walk' = [walk EXCEPT !.upset = @ + more]
  BY DEF Post, WalkInv, DiscoveryTypeOK
<1>2. /\ walk' \in WalkRow /\ walk'.at = walk.at /\ walk'.query = q
      /\ walk'.page = walk.page /\ walk'.count = walk.count
      /\ walk'.from = walk.from /\ walk'.seen = walk.seen
      /\ walk'.upset = walk.upset + more
  <2>1. more \in Nat /\ walk.upset \in Nat
    BY <1>1 DEF WalkRow
  <2> HIDE DEF more
  <2> QED  BY <1>1, <2>1 DEF WalkRow
<1>3. DiscoveryTypeOK'
  <2>1. IsFiniteSet(posted')
    BY <1>1, FS_AddElement DEF WalkInv, DiscoveryTypeOK
  <2> QED  BY <1>1, <1>2, <2>1 DEF WalkInv, DiscoveryTypeOK
<1>4. ASSUME ~ByTies(q)'  PROVE PagesKept'
  <2>1. ~ByTies(q)
    BY <1>1, <1>2, <1>4 DEF ByTies
  <2>2. Listed(walk.query)' = T
    BY <1>1, <1>2 DEF Listed
  <2>3. Unseen' = Unseen /\ j \notin Unseen /\ IsFiniteSet(S) /\ IsFiniteSet(Unseen)
    BY <1>1, <1>2, WalkFacts DEF Unseen, WalkInv, DiscoveryTypeOK
  <2>4. ASSUME NEW k \in Nat
        PROVE  /\ Cardinality(Unseen \cap First(q, T, k))
                    <= Cardinality(Unseen \cap Places(k))
               /\ Cardinality(Unseen \cap First(q, T, k)) \in Nat
               /\ Cardinality(Unseen \cap Places(k)) \in Nat
    <3>1. First(q, T, k) \subseteq Places(k) \cup {j}
      BY <2>3, JobComes DEF Places
    <3>2. Unseen \cap First(q, T, k) \in SUBSET (Unseen \cap Places(k))
      BY <2>3, <3>1
    <3>3. IsFiniteSet(Unseen \cap Places(k))
      BY <2>3, FS_Subset
    <3> QED  BY <3>2, <3>3, SmallerCount
  <2>5. \A k \in Nat : Places(k)' = First(q, T, k)
    BY <1>2, <2>2 DEF Places
  <2>6. /\ Passed' = Passed /\ Passed \in Nat /\ walk.page * PageSize \in Nat
        /\ walk.upset \in Nat /\ walk.count \in Nat /\ more \in Nat
    BY <1>1, <1>2, PlacesInNat DEF Passed, WalkInv, DiscoveryTypeOK, WalkRow
  <2>7. ASSUME walk.at = "counted"
        PROVE  /\ Excess(T, walk.count) <= Excess(S, walk.count) + more
               /\ Excess(T, walk.count) \in Nat /\ Excess(S, walk.count) \in Nat
    <3>1. /\ Cardinality(S) \in Nat /\ Cardinality(T) \in Nat
          /\ Cardinality(T) <= Cardinality(S) + more /\ more \in Nat
      <4>1. CASE j \in q.filter
        <5>1. T = S \cup {j} /\ more = 1
          BY <2>7, <4>1
        <5>2. /\ IsFiniteSet(S \cup {j})
              /\ Cardinality(S \cup {j}) \in {Cardinality(S), Cardinality(S) + 1}
          BY <2>3, FS_AddElement
        <5>3. Cardinality(S) \in Nat
          BY <2>3, FS_CardinalityType
        <5> QED  BY <5>1, <5>2, <5>3
      <4>2. CASE j \notin q.filter
        <5>1. T = S /\ more = 0 /\ Cardinality(S) \in Nat
          BY <2>3, <4>2, FS_CardinalityType
        <5> QED  BY <5>1
      <4> QED  BY <4>1, <4>2
    <3> HIDE DEF more, S, T
    <3> QED  BY <2>6, <3>1 DEF Excess
  <2> HIDE DEF S, T, more
  <2>8. walk.at = "asked" =>
          Cardinality(Unseen \cap First(q, T, Passed)) <= walk'.upset
    <3>1. walk.at = "asked" => Cardinality(Unseen \cap Places(Passed)) <= walk.upset
      BY <2>1 DEF WalkInv, PagesKept
    <3>2. /\ Cardinality(Unseen \cap First(q, T, Passed))
               <= Cardinality(Unseen \cap Places(Passed))
          /\ Cardinality(Unseen \cap First(q, T, Passed)) \in Nat
          /\ Cardinality(Unseen \cap Places(Passed)) \in Nat
      BY <2>4, <2>6
    <3> QED  BY <1>2, <2>6, <3>1, <3>2
  <2>9. walk.at = "paged" =>
          Cardinality(Unseen \cap First(q, T, walk.page * PageSize)) <= walk'.upset
    <3>1. walk.at = "paged" =>
            Cardinality(Unseen \cap Places(walk.page * PageSize)) <= walk.upset
      BY <2>1 DEF WalkInv, PagesKept
    <3>2. /\ Cardinality(Unseen \cap First(q, T, walk.page * PageSize))
               <= Cardinality(Unseen \cap Places(walk.page * PageSize))
          /\ Cardinality(Unseen \cap First(q, T, walk.page * PageSize)) \in Nat
          /\ Cardinality(Unseen \cap Places(walk.page * PageSize)) \in Nat
      BY <2>4, <2>6
    <3> QED  BY <1>2, <2>6, <3>1, <3>2
  <2>10. walk.at = "counted" =>
           Cardinality(Unseen \cap First(q, T, Passed)) + Excess(T, walk.count)
             <= walk'.upset
    <3>1. walk.at = "counted" =>
            Cardinality(Unseen \cap Places(Passed)) + Excess(S, walk.count)
              <= walk.upset
      BY <2>1 DEF WalkInv, PagesKept, S
    <3>2. /\ Cardinality(Unseen \cap First(q, T, Passed))
               <= Cardinality(Unseen \cap Places(Passed))
          /\ Cardinality(Unseen \cap First(q, T, Passed)) \in Nat
          /\ Cardinality(Unseen \cap Places(Passed)) \in Nat
      BY <2>4, <2>6
    <3> QED  BY <1>2, <2>6, <2>7, <3>1, <3>2
  <2>11. walk.at = "done" => Cardinality(Unseen) <= walk'.upset
    <3>1. walk.at = "done" => Cardinality(Unseen) <= walk.upset
      BY <2>1 DEF WalkInv, PagesKept
    <3>2. Cardinality(Unseen) \in Nat
      BY <2>3, FS_CardinalityType
    <3> HIDE DEF q
    <3> QED  BY <1>2, <2>6, <3>1, <3>2
  <2> QED
    BY <1>2, <2>2, <2>3, <2>8, <2>9, <2>10, <2>11, KeptAfter
<1> QED  BY <1>2, <1>3, <1>4 DEF WalkInv, PagesKept

\* A job that leaves pulls others forward, one of them onto a passed place.
LEMMA UnlistStep ==
  ASSUME WalkInv, NEW j \in Jobs, Unlist(j)  PROVE WalkInv'
<1> DEFINE q == walk.query
           S == Listed(q)
           T == IF j \in q.filter THEN S \ {j} ELSE S
           U == Unseen \ {j}
           more == IF Walking /\ j \in q.filter THEN 1 ELSE 0
<1>1. /\ walk \in WalkRow /\ j \in posted \ gone /\ gone' = gone \cup {j}
      /\ posted' = posted
      /\ walk' = [walk EXCEPT !.upset = @ + more]
  BY DEF Unlist, WalkInv, DiscoveryTypeOK
<1>2. /\ walk' \in WalkRow /\ walk'.at = walk.at /\ walk'.query = q
      /\ walk'.page = walk.page /\ walk'.count = walk.count
      /\ walk'.from = walk.from /\ walk'.seen = walk.seen
      /\ walk'.upset = walk.upset + more
  <2>1. more \in Nat /\ walk.upset \in Nat
    BY <1>1 DEF WalkRow
  <2> HIDE DEF more
  <2> QED  BY <1>1, <2>1 DEF WalkRow
<1>3. DiscoveryTypeOK'
  BY <1>1, <1>2 DEF WalkInv, DiscoveryTypeOK
<1>4. ASSUME ~ByTies(q)'  PROVE PagesKept'
  <2>1. ~ByTies(q)
    BY <1>1, <1>2, <1>4 DEF ByTies
  <2>2. Listed(walk.query)' = T
    BY <1>1, <1>2 DEF Listed
  <2>3. /\ Unseen' = U /\ IsFiniteSet(S) /\ IsFiniteSet(Unseen) /\ Orders(q, S)
        /\ j \in q.filter => j \in S
    BY <1>1, <1>2, <2>1, WalkFacts DEF Unseen, WalkInv, DiscoveryTypeOK, Listed
  <2>4. ASSUME NEW k \in Nat, Walking
        PROVE  /\ Cardinality(U \cap First(q, T, k))
                    <= Cardinality(Unseen \cap Places(k)) + more
               /\ Cardinality(U \cap First(q, T, k)) \in Nat
               /\ Cardinality(Unseen \cap Places(k)) \in Nat
    <3>1. IsFiniteSet(Unseen \cap Places(k))
      BY <2>3, FS_Subset
    <3>2. CASE j \in q.filter
      <4>1. PICK y : First(q, S \ {j}, k) \subseteq First(q, S, k) \cup {y}
        BY <2>3, <3>2, JobLeaves
      <4>2. /\ U \cap First(q, T, k) \in SUBSET ((Unseen \cap Places(k)) \cup {y})
            /\ more = 1
        BY <2>4, <3>2, <4>1 DEF Places
      <4>3. IsFiniteSet({y}) /\ Cardinality({y}) = 1
        BY FS_Singleton
      <4> HIDE DEF U, T, more
      <4> QED  BY <3>1, <4>2, <4>3, UnionBound
    <3>3. CASE j \notin q.filter
      <4>1. U \cap First(q, T, k) \in SUBSET (Unseen \cap Places(k)) /\ more = 0
        BY <3>3 DEF Places
      <4> HIDE DEF U, T, more
      <4> QED  BY <3>1, <4>1, SmallerCount
    <3> QED  BY <3>2, <3>3
  <2>5. /\ Passed \in Nat /\ walk.page * PageSize \in Nat
        /\ walk.upset \in Nat /\ walk.count \in Nat /\ more \in Nat
    BY <1>1, PlacesInNat DEF WalkInv, DiscoveryTypeOK, WalkRow
  <2>6. /\ Excess(T, walk.count) <= Excess(S, walk.count)
        /\ Excess(T, walk.count) \in Nat /\ Excess(S, walk.count) \in Nat
    <3>1. /\ Cardinality(S) \in Nat /\ Cardinality(T) \in Nat
          /\ Cardinality(T) <= Cardinality(S)
      <4>1. T \in SUBSET S
        OBVIOUS
      <4> HIDE DEF S, T
      <4> QED  BY <2>3, <4>1, SmallerCount
    <3> HIDE DEF S, T
    <3> QED  BY <2>5, <3>1 DEF Excess
  <2>7. /\ Cardinality(U) <= Cardinality(Unseen)
        /\ Cardinality(U) \in Nat /\ Cardinality(Unseen) \in Nat
    <3>1. U \in SUBSET Unseen
      OBVIOUS
    <3> HIDE DEF U
    <3> QED  BY <2>3, <3>1, SmallerCount
  <2> HIDE DEF S, T, U, more
  <2>8. walk.at = "asked" =>
          Cardinality(U \cap First(q, T, Passed)) <= walk'.upset
    <3> SUFFICES ASSUME walk.at = "asked"
                 PROVE  Cardinality(U \cap First(q, T, Passed)) <= walk'.upset
      OBVIOUS
    <3>1. Cardinality(Unseen \cap Places(Passed)) <= walk.upset /\ Walking
      BY <2>1 DEF WalkInv, PagesKept, Walking
    <3>2. /\ Cardinality(U \cap First(q, T, Passed))
               <= Cardinality(Unseen \cap Places(Passed)) + more
          /\ Cardinality(U \cap First(q, T, Passed)) \in Nat
          /\ Cardinality(Unseen \cap Places(Passed)) \in Nat
      BY <2>4, <2>5, <3>1
    <3> HIDE DEF q
    <3> QED  BY <1>2, <2>5, <3>1, <3>2
  <2>9. walk.at = "paged" =>
          Cardinality(U \cap First(q, T, walk.page * PageSize)) <= walk'.upset
    <3> SUFFICES ASSUME walk.at = "paged"
                 PROVE  Cardinality(U \cap First(q, T, walk.page * PageSize))
                          <= walk'.upset
      OBVIOUS
    <3>1. /\ Cardinality(Unseen \cap Places(walk.page * PageSize)) <= walk.upset
          /\ Walking
      BY <2>1 DEF WalkInv, PagesKept, Walking
    <3>2. /\ Cardinality(U \cap First(q, T, walk.page * PageSize))
               <= Cardinality(Unseen \cap Places(walk.page * PageSize)) + more
          /\ Cardinality(U \cap First(q, T, walk.page * PageSize)) \in Nat
          /\ Cardinality(Unseen \cap Places(walk.page * PageSize)) \in Nat
      BY <2>4, <2>5, <3>1
    <3> HIDE DEF q
    <3> QED  BY <1>2, <2>5, <3>1, <3>2
  <2>10. walk.at = "counted" =>
           Cardinality(U \cap First(q, T, Passed)) + Excess(T, walk.count)
             <= walk'.upset
    <3> SUFFICES ASSUME walk.at = "counted"
                 PROVE  Cardinality(U \cap First(q, T, Passed))
                          + Excess(T, walk.count) <= walk'.upset
      OBVIOUS
    <3>1. /\ Cardinality(Unseen \cap Places(Passed)) + Excess(S, walk.count)
               <= walk.upset
          /\ Walking
      BY <2>1 DEF WalkInv, PagesKept, S, Walking
    <3>2. /\ Cardinality(U \cap First(q, T, Passed))
               <= Cardinality(Unseen \cap Places(Passed)) + more
          /\ Cardinality(U \cap First(q, T, Passed)) \in Nat
          /\ Cardinality(Unseen \cap Places(Passed)) \in Nat
      BY <2>4, <2>5, <3>1
    <3> HIDE DEF q
    <3> QED  BY <1>2, <2>5, <2>6, <3>1, <3>2
  <2>11. walk.at = "done" => Cardinality(U) <= walk'.upset
    <3>1. walk.at = "done" => Cardinality(Unseen) <= walk.upset
      BY <2>1 DEF WalkInv, PagesKept
    <3> HIDE DEF q
    <3> QED  BY <1>2, <2>5, <2>7, <3>1
  <2> QED
    BY <1>2, <2>2, <2>3, <2>8, <2>9, <2>10, <2>11, KeptAfter
<1> QED  BY <1>2, <1>3, <1>4 DEF WalkInv, PagesKept

LEMMA NextWalkInv == ASSUME WalkInv, [DiscoveryNext]_discoveryVars  PROVE WalkInv'
<1>1. CASE UNCHANGED discoveryVars
  BY <1>1 DEF discoveryVars, WalkInv, DiscoveryTypeOK, PagesKept, ByTies, Unseen,
              Places, Passed, Listed
<1>2. CASE \E q \in Queries : Ask(q)
  BY <1>2, AskStep
<1>3. CASE NextPage
  BY <1>3, NextPageStep
<1>4. CASE Count
  BY <1>4, CountStep
<1>5. CASE Slice
  BY <1>5, SliceStep
<1>6. CASE PageOfList
  BY <1>6, PageOfListStep
<1>7. CASE Leave
  BY <1>7, LeaveStep
<1>8. CASE \E j \in Jobs : Post(j) \/ Unlist(j)
  BY <1>8, PostStep, UnlistStep
<1> QED
  BY <1>1, <1>2, <1>3, <1>4, <1>5, <1>6, <1>7, <1>8 DEF DiscoveryNext

\* A worker who followed every "next" of GET /jobs/ has missed at most one job
\* for each listed job that left meanwhile and each that was posted inside a
\* request, whatever the page size and the order, ties of prices put aside.
THEOREM PagesMissExplained == DiscoverySpec => []PagesMissOnlyExplained
<1>1. DiscoveryInit => WalkInv
  BY InitWalkInv
<1>2. WalkInv /\ [DiscoveryNext]_discoveryVars => WalkInv'
  BY NextWalkInv
<1>3. WalkInv => PagesMissOnlyExplained
  BY DEF WalkInv, PagesKept, PagesMissOnlyExplained, Unseen
<1> QED  BY <1>1, <1>2, <1>3, PTL DEF DiscoverySpec
=============================================================================
