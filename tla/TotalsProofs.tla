---------------------------- MODULE TotalsProofs ----------------------------
(***************************************************************************)
(* Facts about Total for every set and every function of naturals.         *)
(***************************************************************************)
EXTENDS Totals, FiniteSetTheorems, TLAPS

\* Nothing sums to zero.
LEMMA TotalEmpty ==
  ASSUME NEW f
  PROVE  Countable({}, f) /\ Total({}, f) = 0
BY FS_EmptySet DEF Countable, Coins, Total

\* A total is a natural number.
LEMMA TotalNat ==
  ASSUME NEW S, NEW f, Countable(S, f)
  PROVE  Total(S, f) \in Nat
BY FS_CardinalityType DEF Countable, Total

\* Functions that agree on S have the same total over S.
LEMMA TotalSame ==
  ASSUME NEW S, NEW f, NEW g, \A x \in S : f[x] = g[x]
  PROVE  Coins(S, f) = Coins(S, g) /\ Total(S, f) = Total(S, g)
BY DEF Coins, Total

\* One heap of n coins.
LEMMA Heap ==
  ASSUME NEW x, NEW n \in Nat
  PROVE  IsFiniteSet({x} \X (1 .. n)) /\ Cardinality({x} \X (1 .. n)) = n
<1>1. IsFiniteSet({x}) /\ Cardinality({x}) = 1
  BY FS_Singleton
<1>2. IsFiniteSet(1 .. n) /\ Cardinality(1 .. n) = n
  BY FS_Interval
<1>3. Cardinality({x} \X (1 .. n)) = Cardinality({x}) * Cardinality(1 .. n)
      /\ IsFiniteSet({x} \X (1 .. n))
  BY <1>1, <1>2, FS_Product
<1> QED
  BY <1>1, <1>2, <1>3

\* A new element adds its amount; the others keep theirs.
LEMMA TotalAdd ==
  ASSUME NEW D, NEW f \in [D -> Nat], NEW g \in [D -> Nat],
         NEW S \in SUBSET D, NEW x \in D, x \notin S,
         Countable(S, f), \A y \in S : g[y] = f[y]
  PROVE  /\ Countable(S \cup {x}, g)
         /\ Total(S \cup {x}, g) = Total(S, f) + g[x]
<1> DEFINE heap == {x} \X (1 .. g[x])
           old == Coins(S, f)
<1>1. Coins(S \cup {x}, g) = old \cup heap
  BY DEF Coins
<1>2. old \cap heap = {}
  BY DEF Coins
<1>3. IsFiniteSet(heap) /\ Cardinality(heap) = g[x]
  BY Heap
<1>4. IsFiniteSet(old) /\ Cardinality(old) \in Nat
  BY FS_CardinalityType DEF Countable
<1>5. /\ IsFiniteSet(old \cup heap)
      /\ Cardinality(old \cup heap) =
           Cardinality(old) + Cardinality(heap) - Cardinality(old \cap heap)
  BY <1>3, <1>4, FS_Union
<1>6. Cardinality(old \cap heap) = 0
  BY <1>2, FS_EmptySet
<1>7. Cardinality(old \cup heap) = Cardinality(old) + g[x]
  BY <1>3, <1>4, <1>5, <1>6
<1>8. Total(S, f) = Cardinality(old)
  BY DEF Total
<1>9. Total(S \cup {x}, g) = Cardinality(old \cup heap)
  BY <1>1 DEF Total
<1>10. Countable(S \cup {x}, g)
  BY <1>1, <1>5 DEF Countable
<1> QED
  BY <1>7, <1>8, <1>9, <1>10

\* An element that leaves takes its amount away.
LEMMA TotalRemove ==
  ASSUME NEW D, NEW f \in [D -> Nat], NEW g \in [D -> Nat],
         NEW S \in SUBSET D, NEW x \in S,
         Countable(S, f), \A y \in S \ {x} : g[y] = f[y]
  PROVE  /\ Countable(S \ {x}, g)
         /\ Total(S \ {x}, g) = Total(S, f) - f[x]
<1>1. Coins(S \ {x}, f) \subseteq Coins(S, f)
  BY DEF Coins
<1>2. Countable(S \ {x}, f)
  BY <1>1, FS_Subset DEF Countable
<1>3. (S \ {x}) \cup {x} = S /\ x \notin S \ {x}
  OBVIOUS
<1>4. Total(S, f) = Total(S \ {x}, f) + f[x]
  BY <1>2, <1>3, TotalAdd
<1>5. Coins(S \ {x}, g) = Coins(S \ {x}, f)
  BY DEF Coins
<1>6. Total(S \ {x}, f) \in Nat
  BY <1>2, TotalNat
<1> QED
  BY <1>2, <1>4, <1>5, <1>6 DEF Countable, Total

\* No element is worth more than the whole.
LEMMA TotalAtLeast ==
  ASSUME NEW D, NEW f \in [D -> Nat],
         NEW S \in SUBSET D, NEW x \in S, Countable(S, f)
  PROVE  f[x] <= Total(S, f)
<1> DEFINE heap == {x} \X (1 .. f[x])
<1>1. f[x] \in Nat
  OBVIOUS
<1>2. heap \subseteq Coins(S, f)
  BY DEF Coins
<1>3. Cardinality(heap) = f[x]
  BY <1>1, Heap
<1>4. Cardinality(heap) <= Cardinality(Coins(S, f))
  BY <1>2, FS_Subset DEF Countable
<1> QED
  BY <1>3, <1>4 DEF Total

\* What the total becomes when one element enters, leaves or changes.
LEMMA TotalMoves ==
  ASSUME NEW D, NEW f \in [D -> Nat], NEW g \in [D -> Nat],
         NEW S \in SUBSET D, NEW T \in SUBSET D, NEW x \in D,
         T \ {x} = S \ {x},
         Countable(S, f), \A y \in S \ {x} : g[y] = f[y]
  PROVE  /\ Countable(T, g)
         /\ Total(T, g) = Total(S, f) + (IF x \in T THEN g[x] ELSE 0)
                                      - (IF x \in S THEN f[x] ELSE 0)
<1> DEFINE rest == S \ {x}
<1>1. /\ Countable(rest, g)
      /\ Total(rest, g) = Total(S, f) - (IF x \in S THEN f[x] ELSE 0)
  <2>1. CASE x \in S
    <3>1. Countable(S \ {x}, g) /\ Total(S \ {x}, g) = Total(S, f) - f[x]
      BY <2>1, TotalRemove
    <3> QED
      BY <2>1, <3>1
  <2>2. CASE x \notin S
    <3>1. rest = S
      BY <2>2
    <3>2. Coins(rest, g) = Coins(S, f) /\ Total(rest, g) = Total(S, f)
      BY <2>2, <3>1, TotalSame
    <3>3. Total(S, f) \in Nat
      BY TotalNat
    <3> QED
      BY <2>2, <3>2, <3>3 DEF Countable
  <2> QED
    BY <2>1, <2>2
<1>2. Total(rest, g) \in Nat /\ Total(S, f) \in Nat
  BY <1>1, TotalNat
<1>3. CASE x \in T
  <2>1. T = rest \cup {x} /\ x \notin rest
    BY <1>3
  <2> HIDE DEF rest
  <2>2. /\ Countable(rest \cup {x}, g)
        /\ Total(rest \cup {x}, g) = Total(rest, g) + g[x]
    BY <1>1, <2>1, TotalAdd
  <2> QED
    BY <1>1, <1>2, <1>3, <2>1, <2>2
<1>4. CASE x \notin T
  <2>1. T = rest
    BY <1>4
  <2> QED
    BY <1>1, <1>2, <1>4, <2>1
<1> QED
  BY <1>3, <1>4
=============================================================================
