------------------------- MODULE TransferGraphProofs -------------------------
(***************************************************************************)
(* Facts about reversed edges and about the levels of a graph, for any     *)
(* number of tables and any graph, cyclic ones included.  Induction over   *)
(* path lengths is done by looking at the least length for which a fact    *)
(* fails.                                                                  *)
(***************************************************************************)
EXTENDS TransferGraph, WellFoundedInduction, FiniteSetTheorems, TLAPS

\* A non-empty set of numbers has a least member.
LEMMA LeastNat ==
    ASSUME NEW S, S \subseteq Nat, S # {}
    PROVE  \E k \in S : \A m \in S : k <= m
<1> DEFINE R == OpToRel(<, Nat)
<1>1. \E k \in S : \A m \in S : <<m, k>> \notin R
  BY NatLessThanWellFounded, WFMin
<1>2. \A m, k \in Nat : m < k => <<m, k>> \in R
  BY DEF OpToRel
<1> HIDE DEF R
<1>3. PICK k \in S : \A m \in S : <<m, k>> \notin R
  BY <1>1
<1>4. \A m \in S : m \in Nat /\ k \in Nat
  OBVIOUS
<1>5. \A m \in S : k <= m
  <2> TAKE m \in S
  <2>1. ~ (m < k)
    BY <1>2, <1>3, <1>4
  <2> QED BY <1>4, <2>1
<1> QED BY <1>5

\* Induction, for a set in place of a predicate.
LEMMA SetInduction ==
    ASSUME NEW S, 0 \in S, \A n \in Nat : n \in S => n + 1 \in S
    PROVE  Nat \subseteq S
<1> SUFFICES ASSUME Nat \ S # {}
             PROVE  FALSE
  OBVIOUS
<1>1. PICK n \in Nat \ S : \A m \in Nat \ S : n <= m
  BY LeastNat
<1>2. n \in Nat /\ n # 0 /\ n - 1 \in Nat /\ ~ (n <= n - 1) /\ (n - 1) + 1 = n
  BY <1>1
<1>3. n - 1 \in S
  BY <1>1, <1>2
<1> QED BY <1>1, <1>2, <1>3

\* Exchanging the sides of a list of column pairs gives a list of column pairs,
\* empty only if the list was, and doing it twice gives the list back.
LEMMA SwapSidesFacts ==
    ASSUME NEW s \in Seq(ColPair)
    PROVE  /\ SwapSides(s) \in Seq(ColPair)
           /\ SwapSides(s) = << >> <=> s = << >>
           /\ SwapSides(SwapSides(s)) = s
<1>1. PICK n \in Nat : s \in [1 .. n -> ColPair] /\ DOMAIN s = 1 .. n
  OBVIOUS
<1>2. SwapSides(s) \in [1 .. n -> ColPair] /\ DOMAIN SwapSides(s) = 1 .. n
  BY <1>1 DEF SwapSides, ColPair
<1>3. SwapSides(s) \in Seq(ColPair)
  BY <1>1, <1>2
<1>4. SwapSides(s) = << >> <=> s = << >>
  <2>1. Len(s) = n /\ Len(SwapSides(s)) = n
    BY <1>1, <1>2, <1>3
  <2>2. \A q \in Seq(ColPair) : q = << >> <=> Len(q) = 0
    OBVIOUS
  <2> QED BY <2>1, <2>2, <1>3
<1>5. SwapSides(SwapSides(s)) = s
  BY <1>1, <1>2 DEF SwapSides, ColPair
<1> QED BY <1>3, <1>4, <1>5

\* The equation that defines Below has a solution.
LEMMA BelowDef ==
    ASSUME NEW g
    PROVE  Below(g) =
            [k \in 0 .. NumTables |->
                IF k = 0 THEN Tables
                         ELSE {n \in Tables : Parents(g, n) \cap Below(g)[k - 1] # {}}]
<1> DEFINE Solves(f, m) ==
        f = [k \in 0 .. m |->
                IF k = 0 THEN Tables
                         ELSE {n \in Tables : Parents(g, n) \cap f[k - 1] # {}}]
<1>1. \A m \in Nat : \E f : Solves(f, m)
  <2> DEFINE Good == {m \in Nat : \E f : Solves(f, m)}
  <2>1. 0 \in Good
    <3>1. Solves([k \in 0 .. 0 |-> Tables], 0)
      OBVIOUS
    <3> HIDE DEF Solves
    <3> QED BY <3>1
  <2>2. ASSUME NEW m \in Nat, m \in Good
        PROVE  m + 1 \in Good
    <3>1. PICK f : Solves(f, m)
      BY <2>2
    <3> DEFINE h == [k \in 0 .. m + 1 |->
                        IF k <= m THEN f[k]
                        ELSE {n \in Tables : Parents(g, n) \cap f[m] # {}}]
    <3>2. \A k \in 0 .. m + 1 : h[k] = IF k = 0 THEN Tables
                         ELSE {n \in Tables : Parents(g, n) \cap h[k - 1] # {}}
      <4> TAKE k \in 0 .. m + 1
      <4>1. CASE k \in 0 .. m
        <5>1. h[k] = f[k] /\ (k # 0 => k - 1 \in 0 .. m /\ h[k - 1] = f[k - 1])
          BY <4>1
        <5>2. f[k] = IF k = 0 THEN Tables
                     ELSE {n \in Tables : Parents(g, n) \cap f[k - 1] # {}}
          BY <3>1, <4>1
        <5> QED BY <5>1, <5>2
      <4>2. CASE k = m + 1
        <5>1. h[k - 1] = f[m] /\ k # 0
          BY <4>2
        <5> QED BY <4>2, <5>1
      <4> QED BY <4>1, <4>2
    <3>3. h = [k \in 0 .. m + 1 |-> h[k]]
      OBVIOUS
    <3> HIDE DEF h
    <3>4. Solves(h, m + 1)
      BY <3>2, <3>3
    <3> HIDE DEF Solves
    <3> QED BY <3>4
  <2> HIDE DEF Good
  <2>3. Nat \subseteq Good
    BY <2>1, <2>2, SetInduction
  <2> QED BY <2>3 DEF Good
<1>2. \E f : Solves(f, NumTables)
  BY <1>1, NumTablesAssumption
<1>3. Solves(Below(g), NumTables)
  BY <1>2 DEF Below
<1> QED BY <1>3

\* Below starts with all tables and goes from parents to children.
LEMMA BelowFacts ==
    ASSUME NEW g
    PROVE  /\ Below(g)[0] = Tables
           /\ \A k \in 0 .. NumTables - 1 : Below(g)[k + 1] =
                {n \in Tables : Parents(g, n) \cap Below(g)[k] # {}}
<1> DEFINE B == Below(g)
<1>1. B = [k \in 0 .. NumTables |->
            IF k = 0 THEN Tables ELSE {n \in Tables : Parents(g, n) \cap B[k - 1] # {}}]
  BY BelowDef
<1> HIDE DEF B
<1>2. 0 \in 0 .. NumTables
  BY NumTablesAssumption
<1>3. ASSUME NEW k \in 0 .. NumTables - 1
      PROVE  B[k + 1] = {n \in Tables : Parents(g, n) \cap B[k] # {}}
  <2>1. k + 1 \in 0 .. NumTables /\ k + 1 # 0 /\ (k + 1) - 1 = k
    BY NumTablesAssumption
  <2>2. \A j \in 0 .. NumTables : j # 0 =>
            B[j] = {n \in Tables : Parents(g, n) \cap B[j - 1] # {}}
    BY <1>1
  <2>3. B[k + 1] = {n \in Tables : Parents(g, n) \cap B[(k + 1) - 1] # {}}
    BY <2>1, <2>2
  <2> QED BY <2>1, <2>3
<1>4. B[0] = Tables
  BY <1>1, <1>2
<1> QED BY <1>3, <1>4 DEF B

\* A node below a path of k edges is below shorter ones.
LEMMA BelowShrinks ==
    ASSUME NEW g, NEW k \in 0 .. NumTables, NEW j \in 0 .. k
    PROVE  Below(g)[k] \subseteq Below(g)[j]
<1> DEFINE B    == Below(g)
           Good == {m \in Nat : m < NumTables => B[m + 1] \subseteq B[m]}
           Also == {m \in Nat : j + m <= NumTables => B[j + m] \subseteq B[j]}
<1>1. Nat \subseteq Good
  <2>1. 0 \in Good
    <3>1. 0 \in 0 .. NumTables - 1 /\ 0 + 1 = 1
      BY NumTablesAssumption
    <3>2. B[0] = Tables /\ B[0 + 1] \subseteq Tables
      BY <3>1, BelowFacts
    <3> QED BY <3>2
  <2>2. ASSUME NEW m \in Nat, m \in Good
        PROVE  m + 1 \in Good
    <3> SUFFICES ASSUME m + 1 < NumTables
                 PROVE  B[(m + 1) + 1] \subseteq B[m + 1]
      OBVIOUS
    <3>1. m \in 0 .. NumTables - 1 /\ m + 1 \in 0 .. NumTables - 1
      BY NumTablesAssumption
    <3>2. B[m + 1] \subseteq B[m]
      <4>1. m < NumTables
        BY <3>1, NumTablesAssumption
      <4> HIDE DEF B
      <4> QED BY <2>2, <4>1
    <3>3. /\ B[m + 1] = {n \in Tables : Parents(g, n) \cap B[m] # {}}
          /\ B[(m + 1) + 1] = {n \in Tables : Parents(g, n) \cap B[m + 1] # {}}
      BY <3>1, BelowFacts
    <3> HIDE DEF B
    <3> QED BY <3>2, <3>3
  <2> HIDE DEF Good
  <2> QED BY <2>1, <2>2, SetInduction
<1>2. Nat \subseteq Also
  <2>1. 0 \in Also
    OBVIOUS
  <2>2. ASSUME NEW m \in Nat, m \in Also
        PROVE  m + 1 \in Also
    <3> SUFFICES ASSUME j + (m + 1) <= NumTables
                 PROVE  B[j + (m + 1)] \subseteq B[j]
      OBVIOUS
    <3>1. j + m \in Nat /\ j + m < NumTables /\ j + m <= NumTables /\ j + (m + 1) = (j + m) + 1
      BY NumTablesAssumption
    <3>2. B[(j + m) + 1] \subseteq B[j + m]
      BY <1>1, <3>1
    <3>3. B[j + m] \subseteq B[j]
      BY <2>2, <3>1
    <3> HIDE DEF B
    <3> QED BY <3>1, <3>2, <3>3
  <2> HIDE DEF Also
  <2> QED BY <2>1, <2>2, SetInduction
<1>3. k - j \in Nat /\ j + (k - j) = k /\ k <= NumTables
  BY NumTablesAssumption
<1> QED BY <1>2, <1>3

\* The level of a node is the longest path down to it, if there is one.
LEMMA LevelIs ==
    ASSUME NEW g, NEW n \in Tables
    PROVE  /\ n \in Below(g)[NumTables] => Level(g, n) = -1
           /\ n \notin Below(g)[NumTables] =>
                /\ Level(g, n) \in 0 .. NumTables - 1
                /\ n \in Below(g)[Level(g, n)]
                /\ n \notin Below(g)[Level(g, n) + 1]
<1> DEFINE B == Below(g)
           Above == {k \in Nat : k <= NumTables /\ n \notin B[k]}
<1>1. CASE n \in B[NumTables]
  BY <1>1 DEF Level
<1>2. CASE n \notin B[NumTables]
  <2>1. NumTables \in Above
    BY <1>2, NumTablesAssumption
  <2>2. PICK m \in Above : \A k \in Above : m <= k
    <3> HIDE DEF Above
    <3>1. Above \subseteq Nat
      BY DEF Above
    <3> QED BY <2>1, <3>1, LeastNat
  <2>3. m \in Nat /\ m <= NumTables /\ n \notin B[m]
    OBVIOUS
  <2>4. m # 0
    BY <2>3, BelowFacts
  <2>5. m - 1 \in 0 .. NumTables - 1 /\ ~ (m <= m - 1) /\ (m - 1) + 1 = m
    BY <2>3, <2>4, NumTablesAssumption
  <2>6. n \in B[m - 1]
    <3>1. m - 1 \in Nat /\ m - 1 <= NumTables
      BY <2>5, NumTablesAssumption
    <3> QED BY <2>2, <2>5, <3>1
  <2>7. \E k \in 0 .. NumTables - 1 : n \in B[k] /\ n \notin B[k + 1]
    BY <2>3, <2>5, <2>6
  <2> HIDE DEF Above
  <2> QED BY <1>2, <2>7 DEF Level
<1> QED BY <1>1, <1>2

\* A node has no two levels.
LEMMA LevelUnique ==
    ASSUME NEW g, NEW n \in Tables, NEW k \in 0 .. NumTables - 1,
           n \in Below(g)[k], n \notin Below(g)[k + 1]
    PROVE  Level(g, n) = k
<1>1. k \in 0 .. NumTables /\ k + 1 \in 0 .. NumTables /\ NumTables \in 0 .. NumTables
      /\ k + 1 \in 0 .. NumTables
  BY NumTablesAssumption
<1>2. n \notin Below(g)[NumTables]
  BY <1>1, BelowShrinks
<1> DEFINE l == Level(g, n)
<1>3. l \in 0 .. NumTables - 1 /\ n \in Below(g)[l] /\ n \notin Below(g)[l + 1]
  BY <1>2, LevelIs
<1> HIDE DEF l
<1>4. l \in 0 .. NumTables /\ l + 1 \in 0 .. NumTables
  BY <1>3, NumTablesAssumption
<1>5. ~ (k + 1 \in 0 .. l)
  BY <1>3, <1>4, BelowShrinks
<1>6. ~ (l + 1 \in 0 .. k)
  BY <1>1, <1>3, BelowShrinks
<1>7. l = k
  BY <1>3, <1>5, <1>6
<1> QED BY <1>7 DEF l

\* Levels grow along every edge to a node that has one.
LEMMA LevelsGrow ==
    ASSUME NEW g, NEW p \in Tables, NEW c \in Tables, Linked(g, p, c), Level(g, c) >= 0
    PROVE  0 <= Level(g, p) /\ Level(g, p) < Level(g, c)
<1> DEFINE k == Level(g, c)
           l == Level(g, p)
<1>1. k \in 0 .. NumTables - 1 /\ c \notin Below(g)[k + 1]
  BY LevelIs
<1> HIDE DEF k
<1>2. p \notin Below(g)[k]
  BY <1>1, BelowFacts DEF Parents
<1>3. k \in 0 .. NumTables /\ NumTables \in 0 .. NumTables /\ k \in 0 .. NumTables
  BY <1>1, NumTablesAssumption
<1>4. p \notin Below(g)[NumTables]
  BY <1>2, <1>3, BelowShrinks
<1>5. l \in 0 .. NumTables - 1 /\ p \in Below(g)[l]
  BY <1>4, LevelIs
<1> HIDE DEF l
<1>6. l \in 0 .. NumTables
  BY <1>5, NumTablesAssumption
<1>7. ~ (k \in 0 .. l)
  BY <1>2, <1>5, <1>6, BelowShrinks
<1>8. 0 <= l /\ l < k
  BY <1>1, <1>5, <1>7
<1> QED BY <1>8 DEF k, l

\* Where a node has a level, so has a node for each smaller level.
LEMMA LevelsBelow ==
    ASSUME NEW g, NEW n \in Tables, Level(g, n) >= 0
    PROVE  \A l \in 0 .. Level(g, n) : \E p \in Tables : Level(g, p) = l
<1> DEFINE m    == Level(g, n)
           Good == {k \in Nat : k <= m => \E p \in Tables : Level(g, p) = m - k}
<1>1. m \in 0 .. NumTables - 1
  BY LevelIs
<1>2. 0 \in Good
  <2> HIDE DEF m
  <2>1. m - 0 = m
    BY <1>1
  <2> QED BY <2>1 DEF m
<1>3. ASSUME NEW k \in Nat, k \in Good
      PROVE  k + 1 \in Good
  <2> SUFFICES ASSUME k + 1 <= m
               PROVE  \E p \in Tables : Level(g, p) = m - (k + 1)
    OBVIOUS
  <2> HIDE DEF m
  <2> DEFINE l == m - (k + 1)
  <2>1. /\ k <= m /\ m - k = l + 1 /\ l \in 0 .. NumTables - 1
        /\ l + 1 \in 0 .. NumTables - 1
    BY <1>1, NumTablesAssumption
  <2>2. PICK p \in Tables : Level(g, p) = l + 1
    BY <1>3, <2>1
  <2> HIDE DEF l
  <2>3. Level(g, p) # -1 /\ Level(g, p) = l + 1
    BY <2>1, <2>2, NumTablesAssumption
  <2>4. p \in Below(g)[l + 1] /\ p \notin Below(g)[(l + 1) + 1]
    BY <2>3, LevelIs
  <2>5. PICK q \in Tables : Linked(g, q, p) /\ q \in Below(g)[l]
    BY <2>1, <2>4, BelowFacts DEF Parents
  <2>6. q \notin Below(g)[l + 1]
    BY <2>1, <2>4, <2>5, BelowFacts DEF Parents
  <2>7. Level(g, q) = l
    BY <2>1, <2>5, <2>6, LevelUnique
  <2> QED BY <2>7 DEF l
<1>4. Nat \subseteq Good
  <2> HIDE DEF Good
  <2> QED BY <1>2, <1>3, SetInduction
<1>5. ASSUME NEW l \in 0 .. m
      PROVE  \E p \in Tables : Level(g, p) = l
  <2> HIDE DEF m
  <2>1. m - l \in Nat /\ m - l <= m /\ m - (m - l) = l
    BY <1>1, <1>5
  <2> QED BY <1>4, <2>1
<1> QED BY <1>5

\* There are not enough tables for a node without a level when another one has
\* the highest level: a longest path has no table twice.
LEMMA LevelBound ==
    ASSUME NEW g, NEW p \in Tables, Level(g, p) = NumTables - 1,
           NEW n \in Tables
    PROVE  Level(g, n) >= 0
<1> SUFFICES ASSUME ~ (Level(g, n) >= 0) PROVE FALSE
  OBVIOUS
<1> DEFINE S == Tables \ {n}
           f == [q \in S |-> IF Level(g, q) \in Tables THEN Level(g, q) ELSE 0]
<1>1. 0 \in Tables /\ NumTables - 1 >= 0
  BY NumTablesAssumption DEF Tables
<1>2. \A l \in Tables : \E q \in Tables : Level(g, q) = l
  BY <1>1, LevelsBelow DEF Tables
<1>3. \A l \in Tables : \E q \in S : f[q] = l
  <2> TAKE l \in Tables
  <2>1. PICK q \in Tables : Level(g, q) = l
    BY <1>2
  <2>2. q # n
    BY <2>1, NumTablesAssumption DEF Tables
  <2> QED BY <2>1, <2>2
<1>4. f \in Surjection(S, Tables)
  <2>1. f \in [S -> Tables]
    BY <1>1
  <2> HIDE DEF f, S
  <2> QED BY <1>3, <2>1 DEF Surjection
<1>5. IsFiniteSet(Tables) /\ Cardinality(Tables) = NumTables
  BY FS_Interval, NumTablesAssumption DEF Tables
<1>6. IsFiniteSet(S) /\ Cardinality(S) = Cardinality(Tables) - 1
  BY <1>5, FS_RemoveElement
<1> HIDE DEF f, S
<1>7. Cardinality(Tables) <= Cardinality(S)
  BY <1>4, <1>6, FS_Surjection
<1> QED BY <1>5, <1>6, <1>7, NumTablesAssumption

\* The level of a node is one more than the highest of its parents' levels.
LEMMA LevelFromParents ==
    ASSUME NEW g, NEW n \in Tables, NEW top \in Parents(g, n),
           \A p \in Parents(g, n) : Level(g, p) >= 0 /\ Level(g, p) <= Level(g, top)
    PROVE  Level(g, n) = Level(g, top) + 1
<1> DEFINE m == Level(g, top)
<1>1. top \in Tables /\ Linked(g, top, n)
  BY DEF Parents
<1>2. m \in 0 .. NumTables - 1 /\ top \in Below(g)[m]
  BY <1>1, LevelIs
<1> HIDE DEF m
<1>3. n \in Below(g)[m + 1]
  BY <1>1, <1>2, BelowFacts DEF Parents
<1>4. \A p \in Parents(g, n) : p \notin Below(g)[m + 1]
  <2> TAKE p \in Parents(g, n)
  <2>1. p \in Tables /\ Level(g, p) >= 0 /\ Level(g, p) <= m
    BY DEF Parents, m
  <2> DEFINE l == Level(g, p)
  <2>2. l \in 0 .. NumTables - 1 /\ p \notin Below(g)[l + 1]
    BY <2>1, LevelIs
  <2> HIDE DEF l
  <2>3. m + 1 \in 0 .. NumTables /\ l + 1 \in 0 .. m + 1
    BY <1>2, <2>1, <2>2, NumTablesAssumption DEF l
  <2> QED BY <2>2, <2>3, BelowShrinks
<1>5. m # NumTables - 1
  <2> SUFFICES ASSUME m = NumTables - 1 PROVE FALSE
    OBVIOUS
  <2>1. Level(g, n) >= 0
    BY <1>1, LevelBound DEF m
  <2>2. Level(g, top) < Level(g, n)
    BY <1>1, <2>1, LevelsGrow
  <2>3. Level(g, n) \in 0 .. NumTables - 1
    BY <2>1, LevelIs
  <2> QED BY <2>2, <2>3, NumTablesAssumption DEF m
<1>6. m + 1 \in 0 .. NumTables - 1
  BY <1>2, <1>5, NumTablesAssumption
<1>7. n \notin Below(g)[(m + 1) + 1]
  BY <1>4, <1>6, BelowFacts
<1>8. Level(g, n) = m + 1
  BY <1>3, <1>6, <1>7, LevelUnique
<1> QED BY <1>8 DEF m

\* Nodes that each have a parent among them have no level.
LEMMA NoLevelWithin ==
    ASSUME NEW g, NEW N \in SUBSET Tables, \A n \in N : Parents(g, n) \cap N # {},
           NEW n \in N
    PROVE  Level(g, n) = -1
<1> DEFINE Good == {k \in Nat : k <= NumTables => N \subseteq Below(g)[k]}
<1>1. 0 \in Good
  BY BelowFacts
<1>2. ASSUME NEW k \in Nat, k \in Good
      PROVE  k + 1 \in Good
  <2> SUFFICES ASSUME k + 1 <= NumTables
               PROVE  N \subseteq Below(g)[k + 1]
    OBVIOUS
  <2>1. k \in 0 .. NumTables - 1 /\ k <= NumTables
    BY NumTablesAssumption
  <2>2. N \subseteq Below(g)[k]
    BY <1>2, <2>1
  <2>3. Below(g)[k + 1] = {x \in Tables : Parents(g, x) \cap Below(g)[k] # {}}
    BY <2>1, BelowFacts
  <2> QED BY <2>2, <2>3
<1>3. Nat \subseteq Good
  <2> HIDE DEF Good
  <2> QED BY <1>1, <1>2, SetInduction
<1>4. n \in Below(g)[NumTables]
  BY <1>3, NumTablesAssumption
<1> QED BY <1>4, LevelIs

\* Without a cycle every node has a level.
LEMMA AcyclicLevels ==
    ASSUME NEW g, Acyclic(g), NEW t \in Tables
    PROVE  Level(g, t) >= 0
<1> DEFINE N == {n \in Tables : ~ (Level(g, n) >= 0)}
<1> SUFFICES ASSUME N # {} PROVE FALSE
  OBVIOUS
<1>1. PICK n \in N : Parents(g, n) \cap N = {}
  BY DEF Acyclic
<1>2. \A p \in Parents(g, n) : p \in Tables /\ Level(g, p) >= 0
  BY <1>1 DEF Parents
<1>3. n \in Tables /\ n \in Below(g)[NumTables]
  BY LevelIs
<1>4. Parents(g, n) # {}
  <2>1. 0 \in 0 .. NumTables - 1 /\ NumTables \in 0 .. NumTables /\ 1 \in 0 .. NumTables
        /\ 0 + 1 = 1
    BY NumTablesAssumption
  <2>2. n \in Below(g)[0 + 1]
    BY <1>3, <2>1, BelowShrinks
  <2>3. Below(g)[0 + 1] = {x \in Tables : Parents(g, x) \cap Below(g)[0] # {}}
    BY <2>1, BelowFacts
  <2> QED BY <2>2, <2>3
<1>5. \A p \in Parents(g, n) : Level(g, p) \in 0 .. NumTables - 1
  <2> TAKE p \in Parents(g, n)
  <2>1. p \notin Below(g)[NumTables]
    BY <1>2, LevelIs
  <2> QED BY <1>2, <2>1, LevelIs
<1> DEFINE gaps == {NumTables - Level(g, p) : p \in Parents(g, n)}
<1>6. gaps \subseteq Nat /\ gaps # {}
  BY <1>4, <1>5, NumTablesAssumption
<1>7. PICK k \in gaps : \A m \in gaps : k <= m
  <2> HIDE DEF gaps
  <2> QED BY <1>6, LeastNat
<1>8. PICK top \in Parents(g, n) : k = NumTables - Level(g, top)
  OBVIOUS
<1>9. \A p \in Parents(g, n) : Level(g, p) <= Level(g, top)
  <2> TAKE p \in Parents(g, n)
  <2>1. k <= NumTables - Level(g, p)
    BY <1>7
  <2> QED BY <1>5, <1>8, <2>1, NumTablesAssumption
<1>10. Level(g, n) = Level(g, top) + 1
  BY <1>2, <1>3, <1>8, <1>9, LevelFromParents
<1>11. Level(g, n) >= 0
  BY <1>5, <1>8, <1>10, NumTablesAssumption
<1> QED BY <1>11

\* In a connected graph in which no node has two parents, one node has none.
LEMMA OneRoot ==
    ASSUME NEW g, Connected(g, Tables), \A n \in Tables : \A p, q \in Parents(g, n) : p = q,
           NEW a \in Tables, Parents(g, a) = {}, NEW b \in Tables, b # a
    PROVE  Parents(g, b) # {}
<1> SUFFICES ASSUME Parents(g, b) = {} PROVE FALSE
  OBVIOUS
<1> DEFINE Closed(X) == \A n \in X : \A m \in Tables : Linked(g, n, m) => m \in X
           S == {t \in Tables : \A X \in SUBSET Tables : (a \in X /\ Closed(X)) => t \in X}
<1>1. S \subseteq Tables /\ a \in S /\ Closed(S)
  OBVIOUS
<1>2. b \notin S
  <2> DEFINE X == Tables \ {b}
  <2>1. a \in X /\ X \in SUBSET Tables
    OBVIOUS
  <2>2. Closed(X)
    BY DEF Parents
  <2> HIDE DEF X, Closed
  <2>3. b \in S => b \in X
    BY <2>1, <2>2
  <2> QED BY <2>3 DEF X
<1>3. \A X \in SUBSET Tables : (a \in X /\ Closed(X)) => S \subseteq X
  OBVIOUS
<1> HIDE DEF S
<1>4. PICK n \in S, m \in Tables \ S : Linked(g, n, m) \/ Linked(g, m, n)
  <2>1. S \in (SUBSET Tables) \ {{}, Tables}
    BY <1>1, <1>2
  <2> QED BY <2>1 DEF Connected
<1>5. ~ Linked(g, n, m)
  BY <1>1, <1>4
<1>6. m \in Parents(g, n) /\ n \in Tables
  BY <1>1, <1>4, <1>5 DEF Parents
<1>7. \A p \in S : ~ Linked(g, p, n)
  BY <1>1, <1>4, <1>6 DEF Parents
<1> DEFINE X == S \ {n}
<1>8. a \in X /\ X \in SUBSET Tables
  BY <1>1, <1>6
<1>9. Closed(X)
  BY <1>1, <1>7
<1>10. S \subseteq X
  <2> HIDE DEF X, Closed
  <2> QED BY <1>3, <1>8, <1>9
<1> QED BY <1>4, <1>10

=============================================================================
