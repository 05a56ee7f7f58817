--------------------------- MODULE RootFlipProofs ---------------------------
(***************************************************************************)
(* Proofs about FlipRootsToLeaves, for every number of tables, every set   *)
(* of columns and every acyclic graph to start from, and about the sweeps  *)
(* that give the nodes their levels, on cyclic graphs too.                 *)
(***************************************************************************)
EXTENDS DagLevels, TransferGraphProofs, FiniteSetTheorems

\* Reversing a root yields a graph again.
LEMMA ReverseEdgesType ==
    ASSUME NEW g \in Graph, NEW n \in Tables
    PROVE  ReverseEdges(g, n) \in Graph
<1>1. << >> \in Seq(ColPair)
  OBVIOUS
<1>2. \A e \in Tables \X Tables : SwapSides(g[n, e[1]]) \in Seq(ColPair)
  BY SwapSidesFacts DEF Graph
<1> QED BY <1>1, <1>2 DEF ReverseEdges, Graph

\* After root n is reversed its children are its parents, and it is the parent
\* of nobody; nothing else changes.
LEMMA ReverseEdgesParents ==
    ASSUME NEW g \in Graph, NEW n \in Tables, Parents(g, n) = {}
    PROVE  /\ Parents(ReverseEdges(g, n), n) = Children(g, n) \ {n}
           /\ \A m \in Tables \ {n} :
                Parents(ReverseEdges(g, n), m) = Parents(g, m) \ {n}
<1> DEFINE h == ReverseEdges(g, n)
<1>1. \A p \in Tables : g[p, n] = << >>
  BY DEF Parents, Linked
<1>2. \A p \in Tables \ {n} : Linked(h, p, n) <=> Linked(g, n, p)
  <2> TAKE p \in Tables \ {n}
  <2>1. CASE Linked(g, n, p)
    <3>1. h[p, n] = SwapSides(g[n, p])
      BY <2>1 DEF ReverseEdges
    <3>2. g[n, p] \in Seq(ColPair)
      BY DEF Graph
    <3> QED BY <2>1, <3>1, <3>2, SwapSidesFacts DEF Linked
  <2>2. CASE ~ Linked(g, n, p)
    <3>1. h[p, n] = g[p, n]
      BY <2>2 DEF ReverseEdges
    <3> QED BY <2>2, <3>1, <1>1 DEF Linked
  <2> QED BY <2>1, <2>2
<1>3. \A m \in Tables : ~ Linked(h, n, m)
  BY DEF ReverseEdges, Linked
<1>4. \A m \in Tables \ {n}, p \in Tables \ {n} : Linked(h, p, m) <=> Linked(g, p, m)
  BY DEF ReverseEdges, Linked
<1> QED BY <1>2, <1>3, <1>4 DEF Parents, Children

\* Reversing a root closes no cycle.
LEMMA ReverseEdgesAcyclic ==
    ASSUME NEW g \in Graph, NEW n \in Tables, Parents(g, n) = {}, Acyclic(g)
    PROVE  Acyclic(ReverseEdges(g, n))
<1> DEFINE h == ReverseEdges(g, n)
<1> SUFFICES ASSUME NEW S \in (SUBSET Tables) \ {{}}
             PROVE  \E m \in S : Parents(h, m) \cap S = {}
  BY DEF Acyclic
<1>1. CASE S = {n}
  <2>1. Parents(h, n) = Children(g, n) \ {n}
    BY ReverseEdgesParents
  <2> QED BY <1>1, <2>1
<1>2. CASE S # {n}
  <2>1. S \ {n} \in (SUBSET Tables) \ {{}}
    BY <1>2
  <2>2. PICK m \in S \ {n} : Parents(g, m) \cap (S \ {n}) = {}
    BY <2>1 DEF Acyclic
  <2>3. Parents(h, m) = Parents(g, m) \ {n}
    BY ReverseEdgesParents
  <2> QED BY <2>2, <2>3
<1> QED BY <1>1, <1>2

\* Reversing a root keeps the columns every two tables are joined on.
LEMMA ReverseEdgesColumns ==
    ASSUME NEW g \in Graph, NEW n \in Tables, Parents(g, n) = {},
           NEW a \in Tables, NEW b \in Tables
    PROVE  JoinColumns(ReverseEdges(g, n), a, b) = JoinColumns(g, a, b)
<1> DEFINE h == ReverseEdges(g, n)
<1>1. \A p \in Tables : g[p, n] = << >>
  BY DEF Parents, Linked
<1>2. \A p \in Tables : h[n, p] = << >>
  BY DEF ReverseEdges
<1>3. \A p \in Tables \ {n} : h[p, n] = SwapSides(g[n, p])
  <2> TAKE p \in Tables \ {n}
  <2>1. CASE Linked(g, n, p)
    BY <2>1 DEF ReverseEdges
  <2>2. CASE ~ Linked(g, n, p)
    <3>1. h[p, n] = g[p, n]
      BY <2>2 DEF ReverseEdges
    <3> QED BY <3>1, <1>1, <2>2, SwapSidesFacts DEF Linked, Graph
  <2> QED BY <2>1, <2>2
<1>4. \A p, q \in Tables \ {n} : h[p, q] = g[p, q]
  BY DEF ReverseEdges
<1>5. SwapSides(<< >>) = << >>
  BY << >> \in Seq(ColPair), SwapSidesFacts
<1>6. \A p, q \in Tables : SwapSides(SwapSides(g[p, q])) = g[p, q]
  BY SwapSidesFacts DEF Graph
<1>7. CASE a = n /\ b = n
  BY <1>7, <1>1, <1>2 DEF JoinColumns
<1>8. CASE a = n /\ b # n
  BY <1>8, <1>1, <1>2, <1>3, <1>5, <1>6 DEF JoinColumns
<1>9. CASE a # n /\ b = n
  BY <1>9, <1>1, <1>2, <1>3, <1>5, <1>6 DEF JoinColumns
<1>10. CASE a # n /\ b # n
  BY <1>10, <1>4 DEF JoinColumns
<1> QED BY <1>7, <1>8, <1>9, <1>10

-----------------------------------------------------------------------------
(***************************************************************************)
(* The inductive invariant.  That the anchor alone is left at the end needs *)
(* to know what a round has established so far: if it has flipped nothing, *)
(* every node before the cursor has a parent or is the anchor.             *)
(***************************************************************************)

NodesInOrder == node_map = Tables

NoCycle == Acyclic(edges)

RoundSoFar ==
    /\ phase = "start" => cursor = 0
    /\ phase = "round" => anchor \in Roots(edges, node_map)
    /\ (phase = "round" /\ ~ flipped) =>
            \A n \in node_map : n < cursor => ~ Flippable(n)
    /\ phase = "done" => \/ Cardinality(Roots(edges, node_map)) <= 1
                         \/ Roots(edges, node_map) = {anchor}

FlipInv == TypeOK /\ NodesInOrder /\ NoCycle /\ RoundSoFar

\* The flip starts on a graph without cycles.
LEMMA InitFlipInv ==
    ASSUME Init
    PROVE  FlipInv
<1>1. 0 \in Tables /\ 0 \in 0 .. NumTables
  BY NumTablesAssumption DEF Tables
<1>2. TypeOK
  BY <1>1, StartGraphsAssumption DEF Init, TypeOK
<1>3. NoCycle
  BY StartGraphsAssumption DEF Init, NoCycle
<1> QED BY <1>2, <1>3 DEF Init, FlipInv, NodesInOrder, RoundSoFar

\* Of several roots one has the largest cardinality and comes first among those
\* that have it, so the anchor is a root.
LEMMA LargestRootIsRoot ==
    ASSUME TypeOK, NodesInOrder, Roots(edges, node_map) # {}
    PROVE  LargestRoot \in Roots(edges, node_map)
<1> DEFINE R         == Roots(edges, node_map)
           Beats(o, r) == card[o] > card[r] \/ (card[o] = card[r] /\ o < r)
           Better(r) == {o \in R : Beats(o, r)}
           F         == {Better(r) : r \in R}
<1>1. R \subseteq Tables /\ Tables \subseteq Nat
  BY NumTablesAssumption DEF Roots, Tables, NodesInOrder
<1>2. \A r \in R : card[r] \in Nat
  BY <1>1, CardinalitiesAssumption DEF TypeOK
<1>3. IsFiniteSet(R)
  <2>1. IsFiniteSet(Tables)
    BY FS_Interval, NumTablesAssumption DEF Tables
  <2> QED BY <2>1, <1>1, FS_Subset
<1>4. IsWellFoundedOn(StrictSubsetOrdering(R), SUBSET R)
  BY <1>3, FS_StrictSubsetOrderingWellFounded, FS_FiniteSubsetsOfFinite
<1>5. F \subseteq SUBSET R /\ F # {}
  OBVIOUS
<1>6. \E x \in F : \A y \in F : <<y, x>> \notin StrictSubsetOrdering(R)
  <2> HIDE DEF F
  <2> QED BY <1>4, <1>5, WFMin
<1>7. PICK r \in R : \A o \in R : <<Better(o), Better(r)>> \notin StrictSubsetOrdering(R)
  BY <1>6
<1>8. Better(r) = {}
  <2> SUFFICES ASSUME NEW o \in Better(r)
               PROVE  FALSE
    OBVIOUS
  <2>1. o \in R /\ o \in Nat /\ r \in Nat /\ card[o] \in Nat /\ card[r] \in Nat
    BY <1>1, <1>2
  <2>2. o \notin Better(o)
    BY <2>1
  <2>3. ASSUME NEW q \in Better(o)
        PROVE  q \in Better(r)
    <3>1. q \in R /\ q \in Nat /\ card[q] \in Nat
      BY <1>1, <1>2
    <3>2. Beats(q, o) /\ Beats(o, r)
      OBVIOUS
    <3>3. Beats(q, r)
      BY <2>1, <3>1, <3>2
    <3> QED BY <3>1, <3>3
  <2>4. <<Better(o), Better(r)>> \in StrictSubsetOrdering(R)
    BY <2>2, <2>3 DEF StrictSubsetOrdering
  <2> QED BY <1>7, <2>1, <2>4
<1>9. \A o \in R : card[r] > card[o] \/ (card[r] = card[o] /\ r <= o)
  <2> TAKE o \in R
  <2>1. o \in Nat /\ r \in Nat /\ card[o] \in Nat /\ card[r] \in Nat
    BY <1>1, <1>2
  <2>2. ~ Beats(o, r)
    BY <1>8
  <2> QED BY <2>1, <2>2
<1> QED BY <1>9 DEF LargestRoot

\* The cursor stands on a node or just after the last one.
LEMMA CursorFacts ==
    ASSUME TypeOK, NodesInOrder
    PROVE  /\ cursor \in node_map <=> cursor < NumTables
           /\ cursor \notin node_map => \A n \in node_map : n < cursor
BY NumTablesAssumption DEF TypeOK, NodesInOrder, Tables

\* A visit of a node, a reversal and the end of a round keep the invariant.
LEMMA NextFlipInv ==
    ASSUME FlipInv, [Next]_vars
    PROVE  FlipInv'
<1> USE DEF FlipInv
<1>1. CASE FindAnchor
  <2>1. CASE Cardinality(Roots(edges, node_map)) <= 1
    <3>1. phase' = "done" /\ UNCHANGED <<edges, node_map, card, anchor, cursor, flipped>>
      BY <1>1, <2>1 DEF FindAnchor
    <3>2. TypeOK' /\ NodesInOrder' /\ NoCycle'
      BY <3>1 DEF TypeOK, NodesInOrder, NoCycle
    <3>3. RoundSoFar'
      BY <3>1, <2>1 DEF RoundSoFar, Roots
    <3> QED BY <3>2, <3>3
  <2>2. CASE ~ (Cardinality(Roots(edges, node_map)) <= 1)
    <3>1. Roots(edges, node_map) # {}
      BY <2>2, FS_EmptySet
    <3>2. LargestRoot \in Roots(edges, node_map) /\ LargestRoot \in Tables
      BY <3>1, LargestRootIsRoot DEF Roots, NodesInOrder
    <3>3. cursor = 0 /\ \A n \in node_map : ~ n < 0
      BY <1>1, NumTablesAssumption DEF FindAnchor, RoundSoFar, NodesInOrder, Tables
    <3>4. TypeOK' /\ NodesInOrder' /\ NoCycle'
      BY <1>1, <2>2, <3>2 DEF FindAnchor, TypeOK, NodesInOrder, NoCycle
    <3>5. RoundSoFar'
      <4>1. phase' = "round" /\ anchor' = LargestRoot /\ UNCHANGED <<edges, node_map, cursor>>
        BY <1>1, <2>2 DEF FindAnchor
      <4>2. (\A n \in node_map : n < cursor => ~ Flippable(n))'
        BY <4>1, <3>3
      <4> QED BY <4>1, <4>2, <3>2, <3>3 DEF RoundSoFar, Roots
    <3> QED BY <3>4, <3>5
  <2> QED BY <2>1, <2>2
<1>2. CASE SkipNode
  <2>1. TypeOK'
    BY <1>2, CursorFacts, NumTablesAssumption DEF SkipNode, TypeOK
  <2>2. RoundSoFar'
    <3>1. \A n \in node_map : n < cursor + 1 => n < cursor \/ n = cursor
      BY <1>2, NumTablesAssumption DEF SkipNode, TypeOK, NodesInOrder, Tables
    <3> QED BY <1>2, <3>1 DEF SkipNode, RoundSoFar, Flippable
  <2> QED BY <1>2, <2>1, <2>2 DEF SkipNode, NodesInOrder, NoCycle
<1>3. CASE FlipNode
  <2>1. cursor \in Tables /\ Parents(edges, cursor) = {} /\ cursor # anchor
    BY <1>3 DEF FlipNode, Flippable, NodesInOrder
  <2>2. TypeOK'
    BY <1>3, <2>1, CursorFacts, ReverseEdgesType, NumTablesAssumption DEF FlipNode, TypeOK
  <2>3. NoCycle'
    BY <1>3, <2>1, ReverseEdgesAcyclic DEF FlipNode, TypeOK, NoCycle
  <2>4. Parents(edges', anchor) = {} 
    <3>1. anchor \in Tables /\ Parents(edges, anchor) = {}
      BY <1>3 DEF FlipNode, RoundSoFar, Roots, TypeOK
    <3>2. Parents(ReverseEdges(edges, cursor), anchor) = Parents(edges, anchor) \ {cursor}
      BY <2>1, <3>1, ReverseEdgesParents DEF TypeOK
    <3> QED BY <1>3, <3>1, <3>2 DEF FlipNode
  <2>5. RoundSoFar'
    BY <1>3, <2>4 DEF FlipNode, RoundSoFar, Roots
  <2> QED BY <1>3, <2>2, <2>3, <2>5 DEF FlipNode, NodesInOrder
<1>4. CASE EndRound
  <2>1. TypeOK' /\ NodesInOrder' /\ NoCycle'
    <3>1. 0 \in 0 .. NumTables
      BY NumTablesAssumption
    <3> QED BY <1>4, <3>1 DEF EndRound, TypeOK, NodesInOrder, NoCycle
  <2>2. CASE flipped
    BY <1>4, <2>1, <2>2, NumTablesAssumption
       DEF EndRound, RoundSoFar, Roots, NodesInOrder, Tables
  <2>3. CASE ~ flipped
    <3>1. \A n \in node_map : ~ Flippable(n)
      BY <1>4, <2>3, CursorFacts DEF EndRound, RoundSoFar
    <3>2. Roots(edges, node_map) = {anchor}
      BY <1>4, <3>1 DEF EndRound, RoundSoFar, Roots, Flippable
    <3> QED BY <1>4, <2>1, <2>3, <3>2 DEF EndRound, RoundSoFar
  <2> QED BY <2>1, <2>2, <2>3
<1>5. CASE UNCHANGED vars
  BY <1>5 DEF vars, TypeOK, NodesInOrder, NoCycle, RoundSoFar, Flippable
<1> QED BY <1>1, <1>2, <1>3, <1>4, <1>5 DEF Next

\* The invariant of the rounds holds throughout.
LEMMA FlipInvariant == Spec => []FlipInv
<1>1. Init => FlipInv
  BY InitFlipInv
<1>2. FlipInv /\ [Next]_vars => FlipInv'
  BY NextFlipInv
<1> QED BY <1>1, <1>2, PTL DEF Spec

-----------------------------------------------------------------------------

\* The flip keeps its state well formed.
THEOREM FlipTypeCorrect == Spec => []TypeOK
<1>1. FlipInv => TypeOK
  BY DEF FlipInv
<1> QED BY <1>1, FlipInvariant, PTL

\* However many rounds it takes, and whichever root is the anchor, the flipped
\* graph has no cycle: every node gets a level.
THEOREM FlipStaysAcyclic == Spec => []StaysAcyclic
<1>1. FlipInv => StaysAcyclic
  BY DEF FlipInv, NoCycle, StaysAcyclic
<1> QED BY <1>1, FlipInvariant, PTL

\* The anchor stays a root to the end and is the only one left there.
THEOREM FlipLeavesAnchor == Spec => []OnlyAnchorRemains
<1>1. FlipInv => OnlyAnchorRemains
  BY DEF FlipInv, RoundSoFar, OnlyAnchorRemains, Roots
<1> QED BY <1>1, FlipInvariant, PTL

\* No step of the flip changes which columns two tables are joined on.
THEOREM FlipKeepsJoinColumns == Spec => JoinColumnsKept
<1>1. FlipInv /\ [Next]_vars =>
        [\A a, b \in Tables : JoinColumns(edges, a, b)' = JoinColumns(edges, a, b)]_vars
  <2> SUFFICES ASSUME FlipInv, Next, NEW a \in Tables, NEW b \in Tables
               PROVE  JoinColumns(edges, a, b)' = JoinColumns(edges, a, b)
    OBVIOUS
  <2>1. CASE FlipNode
    <3>1. edges \in Graph /\ cursor \in Tables /\ Parents(edges, cursor) = {}
      BY <2>1 DEF FlipNode, Flippable, FlipInv, TypeOK, NodesInOrder
    <3>2. JoinColumns(ReverseEdges(edges, cursor), a, b) = JoinColumns(edges, a, b)
      BY <3>1, ReverseEdgesColumns
    <3>3. edges' = ReverseEdges(edges, cursor)
      BY <2>1 DEF FlipNode
    <3>4. JoinColumns(edges, a, b)' = JoinColumns(edges', a, b)
      BY DEF JoinColumns
    <3> QED BY <3>2, <3>3, <3>4
  <2>2. CASE FindAnchor \/ SkipNode \/ EndRound
    BY <2>2 DEF FindAnchor, SkipNode, EndRound, JoinColumns
  <2> QED BY <2>1, <2>2 DEF Next
<1> QED BY <1>1, FlipInvariant, PTL DEF Spec, JoinColumnsKept

-----------------------------------------------------------------------------
(***************************************************************************)
(* The levels.  A sweep gives a node its level once all its parents have    *)
(* theirs, so no level is ever wrong, only missing; and a sweep that has    *)
(* changed nothing leaves every remaining node with a remaining parent.     *)
(***************************************************************************)

\* No level is wrong, and the roots have theirs.
Correct(g, lev) == \A n \in Tables : /\ lev[n] >= 0 => lev[n] = Level(g, n)
                                     /\ Parents(g, n) = {} => lev[n] >= 0

\* n waits for a parent or has its level.
Served(g, lev, n) == lev[n] >= 0 \/ \E p \in Parents(g, n) : ~ (lev[p] >= 0)

AllLevelled(g, lev) == \A n \in Tables : lev[n] = Level(g, n)

LevelsInv ==
    /\ pc \in {"levels", "flip", "levels again", "done"}
    /\ level \in [Tables -> -1 .. NumTables - 1]
    /\ position \in 0 .. NumTables
    /\ Levelling => Correct(edges, level)
    /\ (Levelling /\ ~ changed) => \A n \in Tables : n < position => Served(edges, level, n)
    /\ pc = "levels" => phase = "start"
    /\ pc = "flip" => position = 0
    /\ (pc = "flip" /\ phase = "start") => AllLevelled(edges, level)
    /\ pc = "done" => AllLevelled(edges, level)

LEMMA StartIsCorrect ==
    ASSUME NEW g
    PROVE  /\ StartLevels(g) \in [Tables -> -1 .. NumTables - 1]
           /\ Correct(g, StartLevels(g))
<1>1. \A n \in Tables : Parents(g, n) = {} => Level(g, n) = 0
  <2> SUFFICES ASSUME NEW n \in Tables, Parents(g, n) = {} PROVE Level(g, n) = 0
    OBVIOUS
  <2>1. 0 \in 0 .. NumTables - 1
    BY NumTablesAssumption
  <2>2. n \in Below(g)[0] /\ n \notin Below(g)[0 + 1]
    BY <2>1, BelowFacts
  <2> QED BY <2>1, <2>2, LevelUnique
<1>2. \A n \in Tables : StartLevels(g)[n] = IF Parents(g, n) = {} THEN 0 ELSE -1
  BY DEF StartLevels
<1>3. Correct(g, StartLevels(g))
  BY <1>1, <1>2 DEF Correct
<1> QED BY <1>3, NumTablesAssumption DEF StartLevels

\* What a sweep gives a node is its level.
LEMMA LevelBelowParentsIs ==
    ASSUME Correct(edges, level), level \in [Tables -> -1 .. NumTables - 1],
           NEW n \in Tables, ParentsLevelled(n)
    PROVE  LevelBelowParents(n) = Level(edges, n) /\ Level(edges, n) \in 0 .. NumTables - 1
<1> DEFINE P == Parents(edges, n)
           L == {level[p] : p \in P}
           Depths == {NumTables - l : l \in L}
<1>1. /\ P \subseteq Tables /\ P # {}
      /\ \A p \in P : level[p] \in 0 .. NumTables - 1 /\ level[p] = Level(edges, p)
  BY DEF ParentsLevelled, Correct, Parents
<1> HIDE DEF P
<1>2. L # {} /\ L \subseteq 0 .. NumTables - 1
  BY <1>1
<1> HIDE DEF L
<1>3. Depths \subseteq Nat /\ Depths # {}
  <2>1. \A l \in L : NumTables - l \in Nat
    BY <1>2, NumTablesAssumption
  <2> QED BY <1>2, <2>1
<1>4. PICK d \in Depths : \A e \in Depths : d <= e
  <2> HIDE DEF Depths
  <2> QED BY <1>3, LeastNat
<1>5. PICK m \in L : d = NumTables - m
  OBVIOUS
<1>6. \A l \in L : m >= l
  <2> TAKE l \in L
  <2>1. NumTables - m <= NumTables - l
    BY <1>4, <1>5
  <2>2. l \in Nat /\ m \in Nat
    BY <1>2, NumTablesAssumption
  <2> QED BY <2>1, <2>2, NumTablesAssumption
<1>7. \A x \in L : (\A l \in L : x >= l) => x = m
  BY <1>2, <1>6
<1>8. Max(L) = m
  BY <1>6, <1>7 DEF Max
<1>9. PICK top \in P : level[top] = m
  BY DEF L
<1>10. \A p \in P : Level(edges, p) >= 0 /\ Level(edges, p) <= Level(edges, top)
  <2> TAKE p \in P
  <2>1. level[p] \in L
    BY DEF L
  <2> QED BY <1>1, <1>6, <1>9, <2>1
<1>11. Level(edges, n) = Level(edges, top) + 1
  BY <1>9, <1>10, LevelFromParents DEF P
<1>12. Level(edges, n) = m + 1 /\ Level(edges, n) # -1
  BY <1>1, <1>9, <1>11
<1>13. Level(edges, n) \in 0 .. NumTables - 1
  BY <1>12, LevelIs
<1> QED BY <1>8, <1>12, <1>13 DEF LevelBelowParents, L, P

\* When all nodes are served those without a level are on or below a cycle.
LEMMA ServedIsLevelled ==
    ASSUME Correct(edges, level), level \in [Tables -> -1 .. NumTables - 1],
           \A n \in Tables : Served(edges, level, n)
    PROVE  AllLevelled(edges, level)
<1> DEFINE N == {n \in Tables : ~ (level[n] >= 0)}
<1>1. \A n \in N : Parents(edges, n) \cap N # {}
  BY DEF Served, Parents
<1>2. ASSUME NEW n \in Tables PROVE level[n] = Level(edges, n)
  <2>1. CASE level[n] >= 0
    BY <2>1 DEF Correct
  <2>2. CASE n \in N
    <3>1. Level(edges, n) = -1
      <4> HIDE DEF N
      <4>1. N \in SUBSET Tables
        BY DEF N
      <4> QED BY <1>1, <2>2, <4>1, NoLevelWithin
    <3>2. level[n] = -1
      BY <2>2, NumTablesAssumption
    <3> QED BY <3>1, <3>2
  <2> QED BY <2>1, <2>2
<1> QED BY <1>2 DEF AllLevelled

LEMMA LInitLevelsInv == LInit => LevelsInv
<1> SUFFICES ASSUME LInit PROVE LevelsInv
  OBVIOUS
<1>1. /\ level = StartLevels(edges) /\ position = 0 /\ pc = "levels" /\ phase = "start"
  BY DEF LInit, Init
<1>2. \A n \in Tables : ~ (n < 0)
  BY NumTablesAssumption DEF Tables
<1> QED BY <1>1, <1>2, StartIsCorrect, NumTablesAssumption DEF LevelsInv, Levelling

LEMMA VisitNodeLevels == LevelsInv /\ VisitNode => LevelsInv'
<1> SUFFICES ASSUME LevelsInv, VisitNode PROVE LevelsInv'
  OBVIOUS
<1>1. /\ Levelling /\ position \in Tables /\ position' = position + 1
      /\ edges' = edges /\ phase' = phase /\ pc' = pc
      /\ Correct(edges, level) /\ level \in [Tables -> -1 .. NumTables - 1]
  BY DEF VisitNode, LevelsInv, vars
<1>2. position \in Nat /\ position' \in 0 .. NumTables
  BY <1>1, NumTablesAssumption DEF Tables
<1>3. CASE ParentsLevelled(position) /\ level[position] # LevelBelowParents(position)
  <2>1. /\ LevelBelowParents(position) = Level(edges, position)
        /\ Level(edges, position) \in 0 .. NumTables - 1
    BY <1>1, <1>3, LevelBelowParentsIs
  <2>2. level' = [level EXCEPT ![position] = Level(edges, position)] /\ changed' = TRUE
    BY <1>3, <2>1 DEF VisitNode
  <2>3. level' \in [Tables -> -1 .. NumTables - 1]
    BY <1>1, <2>1, <2>2
  <2>4. Correct(edges, level')
    BY <1>1, <2>1, <2>2 DEF Correct
  <2> QED BY <1>1, <1>2, <2>2, <2>3, <2>4 DEF LevelsInv, Levelling
<1>4. CASE ~ (ParentsLevelled(position) /\ level[position] # LevelBelowParents(position))
  <2>1. level' = level /\ changed' = changed
    BY <1>4 DEF VisitNode
  <2>2. Served(edges, level, position)
    <3>1. CASE ~ ParentsLevelled(position)
      BY <1>1, <3>1 DEF ParentsLevelled, Served, Correct
    <3>2. CASE level[position] = LevelBelowParents(position) /\ ParentsLevelled(position)
      <4>1. level[position] \in 0 .. NumTables - 1
        BY <1>1, <3>2, LevelBelowParentsIs
      <4> QED BY <4>1 DEF Served
    <3> QED BY <1>4, <3>1, <3>2
  <2>3. \A n \in Tables : n < position + 1 => n < position \/ n = position
    BY <1>1, NumTablesAssumption DEF Tables
  <2>4. (Levelling /\ ~ changed) =>
            \A n \in Tables : n < position' => Served(edges, level, n)
    BY <1>1, <2>2, <2>3 DEF LevelsInv
  <2> QED BY <1>1, <1>2, <2>1, <2>4 DEF LevelsInv, Levelling
<1> QED BY <1>3, <1>4

LEMMA EndSweepLevels == LevelsInv /\ EndSweep => LevelsInv'
<1> SUFFICES ASSUME LevelsInv, EndSweep PROVE LevelsInv'
  OBVIOUS
<1>1. /\ Levelling /\ position \notin Tables /\ position' = 0 /\ changed' = FALSE
      /\ edges' = edges /\ phase' = phase /\ level' = level
      /\ Correct(edges, level) /\ level \in [Tables -> -1 .. NumTables - 1]
  BY DEF EndSweep, LevelsInv, vars
<1>2. (\A n \in Tables : ~ (n < 0)) /\ 0 \in 0 .. NumTables
  BY NumTablesAssumption DEF Tables
<1>3. CASE changed
  <2>1. pc' = pc
    BY <1>3 DEF EndSweep
  <2> QED BY <1>1, <1>2, <2>1 DEF LevelsInv, Levelling
<1>4. CASE ~ changed
  <2>1. \A n \in Tables : n < position
    <3>1. position \in 0 .. NumTables /\ ~ (position \in 0 .. NumTables - 1)
      BY <1>1 DEF LevelsInv, Tables
    <3>2. position = NumTables
      BY <3>1, NumTablesAssumption
    <3> QED BY <3>2, NumTablesAssumption DEF Tables
  <2>2. AllLevelled(edges, level)
    BY <1>1, <1>4, <2>1, ServedIsLevelled DEF LevelsInv
  <2>3. pc' \in {"flip", "done"}
    BY <1>4 DEF EndSweep
  <2> QED BY <1>1, <1>2, <2>2, <2>3 DEF LevelsInv, Levelling
<1> QED BY <1>3, <1>4

LEMMA FlipStepLevels == LevelsInv /\ FlipStep => LevelsInv'
<1> SUFFICES ASSUME LevelsInv, FlipStep PROVE LevelsInv'
  OBVIOUS
<1>1. pc = "flip" /\ Next /\ position' = position /\ changed' = changed
  BY DEF FlipStep
<1>2. CASE phase' # "done"
  <2>1. phase' = "round"
    BY <1>1, <1>2 DEF Next, FindAnchor, SkipNode, FlipNode, EndRound
  <2>2. level' = level /\ pc' = "flip"
    BY <1>1, <1>2 DEF FlipStep
  <2> QED BY <1>1, <2>1, <2>2 DEF LevelsInv, Levelling
<1>3. CASE phase' = "done" /\ phase = "start"
  <2>1. edges' = edges
    BY <1>1, <1>3 DEF Next, FindAnchor, SkipNode, FlipNode, EndRound
  <2>2. level' = level /\ pc' = "done"
    BY <1>3 DEF FlipStep
  <2> QED BY <1>1, <1>3, <2>1, <2>2 DEF LevelsInv, Levelling
<1>4. CASE phase' = "done" /\ phase # "start"
  <2>1. level' = StartLevels(edges') /\ pc' = "levels again"
    BY <1>4 DEF FlipStep
  <2>2. position = 0
    BY <1>1 DEF LevelsInv
  <2>3. (\A n \in Tables : ~ (n < 0)) /\ 0 \in 0 .. NumTables
    BY NumTablesAssumption DEF Tables
  <2> QED BY <1>1, <1>4, <2>1, <2>2, <2>3, StartIsCorrect DEF LevelsInv, Levelling
<1> QED BY <1>2, <1>3, <1>4

LEMMA LevelsStutter == LevelsInv /\ UNCHANGED lvars => LevelsInv'
<1> SUFFICES ASSUME LevelsInv, UNCHANGED lvars PROVE LevelsInv'
  OBVIOUS
<1>1. UNCHANGED <<edges, phase, level, position, changed, pc>>
  BY DEF lvars, vars, levelvars
<1> QED BY <1>1 DEF LevelsInv, Levelling

LEMMA LevelsInvariant == LSpec => []LevelsInv
<1>1. LevelsInv /\ [LNext]_lvars => LevelsInv'
  BY VisitNodeLevels, EndSweepLevels, FlipStepLevels, LevelsStutter DEF LNext
<1> QED BY <1>1, LInitLevelsInv, PTL DEF LSpec

\* For any number of tables, any acyclic graph that is flipped and any graph at
\* all that is not: when the sweeps have ended each node has the length of the
\* longest path from a root, and the nodes on or below a cycle, and no others, have
\* none (robust_optimizer.cpp:685-713, 784-812).
THEOREM LevelsAreRight == LSpec => []LevelsAreLongestPaths
<1>1. LevelsInv => LevelsAreLongestPaths
  BY DEF LevelsInv, LevelsAreLongestPaths, AllLevelled
<1> QED BY <1>1, LevelsInvariant, PTL

\* A level that a sweep has given a node is not changed by a later visit
\* (robust_optimizer.cpp:693-705).
THEOREM LevelsGivenOnce == LSpec => LevelsAssignedOnce
<1>1. ASSUME LevelsInv, LNext, Levelling, NEW n \in Tables, level[n] >= 0
      PROVE  level'[n] = level[n]
  <2>1. CASE VisitNode
    <3>1. CASE ParentsLevelled(position) /\ level[position] # LevelBelowParents(position)
      <4>1. position \in Tables /\ level' = [level EXCEPT ![position] = LevelBelowParents(position)]
        BY <2>1, <3>1 DEF VisitNode
      <4>2. Correct(edges, level) /\ level \in [Tables -> -1 .. NumTables - 1]
        BY <1>1 DEF LevelsInv
      <4>3. LevelBelowParents(position) = Level(edges, position)
        BY <3>1, <4>1, <4>2, LevelBelowParentsIs
      <4>4. n # position
        BY <1>1, <3>1, <4>2, <4>3 DEF Correct
      <4> QED BY <4>1, <4>2, <4>4
    <3>2. CASE ~ (ParentsLevelled(position) /\ level[position] # LevelBelowParents(position))
      BY <2>1, <3>2 DEF VisitNode
    <3> QED BY <3>1, <3>2
  <2>2. CASE EndSweep
    BY <2>2 DEF EndSweep
  <2>3. CASE FlipStep
    BY <1>1, <2>3 DEF FlipStep, Levelling
  <2> QED BY <1>1, <2>1, <2>2, <2>3 DEF LNext
<1>2. LevelsInv /\ [LNext]_lvars =>
        [Levelling => \A n \in Tables : level[n] >= 0 => level'[n] = level[n]]_lvars
  BY <1>1
<1> QED BY <1>2, LevelsInvariant, PTL DEF LSpec, LevelsAssignedOnce

=============================================================================
