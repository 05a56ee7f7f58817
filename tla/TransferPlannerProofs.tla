------------------------ MODULE TransferPlannerProofs ------------------------
(***************************************************************************)
(* Proofs about the planner as a whole: on every join plan the operators   *)
(* are placed so that they can run, the edges and the probes join equal    *)
(* columns, and a plan whose classes are narrow gives a DAG.               *)
(***************************************************************************)
EXTENDS TransferPlanner, TransferGraphProofs, FiniteSetTheorems, SequenceTheorems

\* The theorems about the placement, for this planner's variables.
PP == INSTANCE FilterPlacementProofs
        WITH Inputs <- {}, JoinEdges <- {}, heuristic <- "join_order",
             root <- 0, mst_nodes <- {}, mst_edges <- {}

NoOps == [t \in Tables |-> << >>]

\* What the constants are assumed to be, for citing the theorems of PP.
LEMMA Given ==
    /\ NumTables \in Nat \ {0} /\ Columns \subseteq Nat /\ Cardinalities \subseteq Nat
    /\ PassModes \subseteq {"both", "forward_only"} /\ GetSets \subseteq SUBSET PP!Tables
    /\ \A in \in {} : in.edges \in PP!Graph
  BY NumTablesAssumption, ColumnsAssumption, CardinalitiesAssumption, PassModesAssumption,
     GetSetsAssumption DEF PP!Tables, Tables

-----------------------------------------------------------------------------
\* A step of the placement is one of the module that PP is about.

LEMMA SamePlaceStep == Place!PNext => PP!HNext
<1>1. Place!ForwardEdge => PP!ForwardEdge
  BY DEF Place!ForwardEdge, PP!ForwardEdge, Place!AddForward, PP!AddForward,
         Place!DeepestChild, PP!DeepestChild, Place!ChildrenTodo, PP!ChildrenTodo,
         Place!ChildCols, PP!ChildCols, Place!ParentCols, PP!ParentCols, Place!CreateOp,
         PP!CreateOp, Place!ProbeOp, PP!ProbeOp, Place!Tables, PP!Tables
<1>2. Place!EndForward => PP!EndForward
  BY DEF Place!EndForward, PP!EndForward, Place!LevelledEdges, PP!LevelledEdges,
         Place!Linked, PP!Linked, Place!Tables, PP!Tables
<1>3. Place!BackwardEdge => PP!BackwardEdge
  BY DEF Place!BackwardEdge, PP!BackwardEdge, Place!NextBackward, PP!NextBackward,
         Place!HighestChild, PP!HighestChild, Place!ChildrenTodo, PP!ChildrenTodo,
         Place!SourcesFor, PP!SourcesFor, Place!ClassOf, PP!ClassOf, Place!NewSource,
         PP!NewSource, Place!AddBackward, PP!AddBackward, Place!Broadcast, PP!Broadcast,
         Place!ChildCols, PP!ChildCols, Place!ParentCols, PP!ParentCols, Place!CreateOp,
         PP!CreateOp, Place!ProbeOp, PP!ProbeOp, Place!Tables, PP!Tables
<1>4. Place!EndBackward => PP!EndBackward
  BY DEF Place!EndBackward, PP!EndBackward
<1>5. Place!Generate => PP!Generate
  BY <1>1, <1>2, <1>3, <1>4 DEF Place!Generate, PP!Generate, Place!Next, PP!Next
<1>6. Place!ApplyStageModifications => PP!ApplyStageModifications
  BY DEF Place!ApplyStageModifications, PP!ApplyStageModifications, Place!Stacked,
         PP!Stacked, Place!MergeCreates, PP!MergeCreates, Place!MergedUpTo, PP!MergedUpTo,
         Place!AddOperation, PP!AddOperation, Place!AddToRun, PP!AddToRun, Place!Last,
         PP!Last, Place!Tables, PP!Tables, Place!vars, PP!vars
<1>7. Place!LinkProbeFilterToCreateFilter => PP!LinkProbeFilterToCreateFilter
  BY DEF Place!LinkProbeFilterToCreateFilter, PP!LinkProbeFilterToCreateFilter,
         Place!Candidates, PP!Candidates, Place!Creates, PP!Creates, Place!Probes,
         PP!Probes, Place!Positions, PP!Positions, Place!Op, PP!Op, Place!Tables,
         PP!Tables, Place!vars, PP!vars
<1>8. Place!SetupDynamicFilterPushdown => PP!SetupDynamicFilterPushdown
  BY DEF Place!SetupDynamicFilterPushdown, PP!SetupDynamicFilterPushdown,
         Place!PushedProbes, PP!PushedProbes, Place!Creates, PP!Creates, Place!Positions,
         PP!Positions, Place!Op, PP!Op, Place!Tables, PP!Tables, Place!ToSet, PP!ToSet,
         Place!vars, PP!vars
<1> QED BY <1>5, <1>6, <1>7, <1>8 DEF Place!PNext, PP!HNext, PP!PlaceOperators, PP!treevars

\* What the theorems about the placement say of a step of it, and of its start.
PlaceState == PP!StageInv /\ PP!PlaceInv /\ PP!PushInv

LEMMA PlaceStateStep ==
    ASSUME PlaceState, Place!PNext
    PROVE  PlaceState'
<1>1. PP!StageInv /\ PP!PlaceInv /\ PP!PushInv /\ PP!HNext
  BY SamePlaceStep DEF PlaceState
<1>2. PP!StageInv'
  BY <1>1, Given, PP!StageInvStep DEF PP!StageInvStep
<1>3. PP!PlaceInv'
  BY <1>1, Given, PP!PlaceInvStep DEF PP!PlaceInvStep
<1>4. PP!PushInv'
  BY <1>1, Given, PP!PushInvStep DEF PP!PushInvStep
<1> QED BY <1>2, <1>3, <1>4 DEF PlaceState

LEMMA LevelledIsPlaceState ==
    PP!JustLevelled => PP!StageInv /\ level \in [Tables -> -1 .. NumTables - 1]
  BY Given, PP!JustLevelledStageInv DEF PP!JustLevelledStageInv, PP!Tables, Tables

LEMMA PlacedRuns == PlaceState => PlacedPlanRuns
<1> SUFFICES ASSUME PlaceState PROVE PlacedPlanRuns
  OBVIOUS
<1>1. PP!EveryProbeFindsItsFilters
  BY Given, PP!ProbesFound DEF PP!ProbesFound, PlaceState
<1>2. PP!NoWaitCycle
  BY Given, PP!NoCycleOfCreates DEF PP!NoCycleOfCreates, PlaceState
<1>3. Place!EveryProbeFindsItsFilters
  BY <1>1 DEF PP!EveryProbeFindsItsFilters, Place!EveryProbeFindsItsFilters,
     PP!Probes, Place!Probes, PP!Positions, Place!Positions, PP!Op, Place!Op,
     PP!FoundAt, Place!FoundAt, PP!Tables, Place!Tables, PP!ToSet, Place!ToSet
<1>4. Place!NoWaitCycle
  BY <1>2 DEF PP!NoWaitCycle, Place!NoWaitCycle, PP!WaitsFor, Place!WaitsFor,
     PP!Creates, Place!Creates, PP!Positions, Place!Positions, PP!Op, Place!Op,
     PP!Tables, Place!Tables
<1> QED BY <1>3, <1>4 DEF PlacedPlanRuns

LEMMA PlaceTypes ==
    ASSUME PlaceState, level \in [Tables -> -1 .. NumTables - 1],
           card \in [Tables -> Cardinalities], stage # "tree",
           pass_mode \in PassModes, gets \in GetSets
    PROVE  Place!PTypeOK
<1>1. level \in [PP!Tables -> -1 .. NumTables - 1] /\ card \in [PP!Tables -> Cardinalities]
  BY DEF PP!Tables, Tables
<1>2. PP!PTypeOK
  BY <1>1, Given, PP!PlacedTypes DEF PP!PlacedTypes, PlaceState
<1>3. PP!TypeOK => Place!TypeOK
  BY DEF PP!TypeOK, Place!TypeOK, PP!Graph, Place!Graph, PP!ColPair, Place!ColPair,
     PP!FilterOp, Place!FilterOp, PP!Tables, Place!Tables
<1>4. PP!Probes = Place!Probes
  BY DEF PP!Probes, Place!Probes, PP!Positions, Place!Positions, PP!Op, Place!Op,
     PP!Tables, Place!Tables
<1> QED BY <1>2, <1>3, <1>4 DEF PP!PTypeOK, Place!PTypeOK, PP!FilterOp, Place!FilterOp,
           PP!Tables, Place!Tables

-----------------------------------------------------------------------------
\* Equivalence classes.

\* Every key is in exactly one class.
Partition(cls) ==
    /\ cls \subseteq SUBSET ColKey
    /\ \A k \in ColKey : \E class \in cls : k \in class
    /\ \A c, d \in cls : \A k \in c : k \in d => c = d

\* Two keys have the same class.
Together(cls, a, b) == \E class \in cls : a \in class /\ b \in class

LEMMA FindIs ==
    ASSUME Partition(classes), NEW k \in ColKey
    PROVE  /\ UFFind(k) \in classes /\ k \in UFFind(k)
           /\ \A class \in classes : k \in class => class = UFFind(k)
<1>1. \E class \in classes : k \in class
  BY DEF Partition
<1>2. UFFind(k) \in classes /\ k \in UFFind(k)
  BY <1>1 DEF UFFind
<1> QED BY <1>2 DEF Partition

\* The classes of two keys have been joined.
LEMMA UnionIs ==
    ASSUME Partition(classes), NEW l \in ColKey, NEW r \in ColKey
    PROVE  LET both == UFFind(l) \cup UFFind(r)
               new  == UFUnion(l, r)
           IN  /\ Partition(new)
               /\ both \in new /\ l \in both /\ r \in both /\ both \subseteq ColKey
               /\ \A class \in new : class = both \/ class \in classes
               /\ \A class \in classes : \E wide \in new : class \subseteq wide
<1> DEFINE A == UFFind(l)
           B == UFFind(r)
           both == A \cup B
           new  == (classes \ {A, B}) \cup {both}
<1>1. A \in classes /\ l \in A /\ B \in classes /\ r \in B
  BY FindIs
<1> HIDE DEF A, B
<1>2. new \subseteq SUBSET ColKey
  <2>1. A \subseteq ColKey /\ B \subseteq ColKey
    BY <1>1 DEF Partition
  <2> QED BY <2>1 DEF Partition
<1>3. \A class \in classes : \E wide \in new : class \subseteq wide
  <2> TAKE class \in classes
  <2>1. CASE class \in {A, B}
    BY <2>1
  <2>2. CASE class \notin {A, B}
    BY <2>2
  <2> QED BY <2>1, <2>2
<1>4. \A k \in ColKey : \E class \in new : k \in class
  <2> HIDE DEF new
  <2> QED BY <1>3 DEF Partition
<1>5. \A c \in classes \ {A, B} : c \cap both = {}
  BY <1>1 DEF Partition
<1>6. \A c, d \in new : \A k \in c : k \in d => c = d
  <2> TAKE c, d \in new
  <2>1. CASE c = both \/ d = both
    BY <1>5, <2>1
  <2>2. CASE c \in classes /\ d \in classes
    BY <2>2 DEF Partition
  <2> QED BY <2>1, <2>2
<1>7. Partition(new)
  <2> HIDE DEF new
  <2> QED BY <1>2, <1>4, <1>6 DEF Partition
<1>8. both \in new /\ both \subseteq ColKey
  BY <1>1 DEF Partition
<1>9. UFUnion(l, r) = new
  BY DEF UFUnion, A, B
<1> QED BY <1>1, <1>3, <1>7, <1>8, <1>9 DEF A, B

\* Keys stay together when classes are joined.
LEMMA StillTogether ==
    ASSUME NEW cls, NEW new, \A class \in cls : \E wide \in new : class \subseteq wide,
           NEW a, NEW b, Together(cls, a, b)
    PROVE  Together(new, a, b)
  BY DEF Together

\* Being together is what Equated says.
LEMMA TogetherIs ==
    ASSUME Partition(classes), NEW a, NEW b, Together(classes, a, b)
    PROVE  UFFind(a) = UFFind(b)
<1>1. PICK class \in classes : a \in class /\ b \in class
  BY DEF Together
<1>2. a \in ColKey /\ b \in ColKey
  BY <1>1 DEF Partition
<1> QED BY <1>1, <1>2, FindIs

-----------------------------------------------------------------------------
\* The walk over the join plan.

\* The tables and derived tables met so far.
Seen == node_map \cup Derived

WalkTypes ==
    /\ edges \in Graph
    /\ node_map \subseteq Tables
    /\ plans \in Seq(SUBSET Seen)
    /\ join # NoJoin => join \in [type : JoinTypes, left : SUBSET Seen, right : SUBSET Seen,
                                  first : BOOLEAN, edge : BOOLEAN]
    /\ conditions \in 0 .. MaxConditions
    /\ join_edges \in Nat
    /\ preserved \subseteq (Tables \cup Derived) \X (Tables \cup Derived)

PairsTogether(g, cls) ==
    \A p, c \in Tables : \A i \in DOMAIN g[p, c] :
        Together(cls, <<p, g[p, c][i][1]>>, <<c, g[p, c][i][2]>>)

TablesOf(class) == {k[1] : k \in class}

\* No class has columns of three nodes.
Narrow(cls, nodes) ==
    \A class \in cls : \A a, b, c \in TablesOf(class) \cap nodes : a = b \/ b = c \/ a = c

Ordered(g) == \A p, c \in Tables : Linked(g, p, c) => p > c

\* Two nodes that share a class of table columns are linked.
ClassesLinked(g, cls, nodes) ==
    \A class \in cls : TablesOf(class) \subseteq Tables =>
        \A a, b \in TablesOf(class) \cap nodes : a > b => Linked(g, a, b)

\* The columns of a table that is still to be met are not joined with anything.
Unmet(cls, nodes) ==
    \A class \in cls : \A k \in class : k[1] \in Tables \ nodes => class = {k}

WalkClasses ==
    /\ Partition(classes)
    /\ Unmet(classes, node_map)
    /\ PairsTogether(edges, classes)
    /\ Narrow(classes, node_map) => Ordered(edges) /\ ClassesLinked(edges, classes, node_map)

LEMMA TableNumbers ==
    ASSUME NEW t \in Tables
    PROVE  t \in Nat /\ t < NumTables /\ NumTables - t \in Nat /\ t + 1 \in 0 .. NumTables
  BY NumTablesAssumption DEF Tables

\* The child of the edge is of the class, met, and not the parent.
LEMMA ResolvedChild ==
    ASSUME node_map \subseteq Tables, NEW class, class \subseteq ColKey,
           NEW parent \in class, NEW child \in class,
           child[1] \in node_map, child[1] # parent[1]
    PROVE  LET best == ResolveChild(parent, child, class)
           IN  /\ best \in class /\ best[1] \in node_map /\ best[1] # parent[1]
               /\ best = child \/ best[1] > child[1]
<1> DEFINE better == {k \in class : /\ k[1] \in node_map \ {parent[1]}
                                    /\ k[1] > child[1]}
           best   == ResolveChild(parent, child, class)
<1>1. CASE better = {}
  BY <1>1 DEF ResolveChild
<1>2. CASE better # {}
  <2>1. \A k \in better : /\ k[1] \in Nat /\ NumTables - k[1] \in Nat /\ k[2] \in Nat
    <3> TAKE k \in better
    <3>1. k[1] \in Tables /\ k[2] \in Columns
      BY DEF ColKey
    <3>2. k[1] \in Nat /\ NumTables - k[1] \in Nat
      BY <3>1, TableNumbers
    <3> QED BY <3>1, <3>2, ColumnsAssumption
  <2> DEFINE Heights == {NumTables - k[1] : k \in better}
  <2>2. Heights \subseteq Nat /\ Heights # {}
    BY <1>2, <2>1
  <2>3. PICK h \in Heights : \A m \in Heights : h <= m
    <3> HIDE DEF Heights
    <3> QED BY <2>2, LeastNat
  <2> DEFINE Highest == {k \in better : NumTables - k[1] = h}
             Indices == {k[2] : k \in Highest}
  <2>4. Indices \subseteq Nat /\ Indices # {}
    BY <2>1
  <2>5. PICK i \in Indices : \A m \in Indices : i <= m
    <3> HIDE DEF Indices
    <3> QED BY <2>4, LeastNat
  <2>6. PICK k \in Highest : k[2] = i
    OBVIOUS
  <2>7. \A o \in better : k[1] > o[1] \/ (k[1] = o[1] /\ k[2] <= o[2])
    <3> TAKE o \in better
    <3>1. NumTables - k[1] <= NumTables - o[1]
      BY <2>3
    <3>2. CASE k[1] = o[1]
      BY <2>5, <2>6, <3>2
    <3>3. CASE k[1] # o[1]
      BY <2>1, <3>1, <3>3, NumTablesAssumption
    <3> QED BY <3>2, <3>3
  <2>8. best \in better
    <3>1. \E x \in better : \A o \in better : x[1] > o[1] \/ (x[1] = o[1] /\ x[2] <= o[2])
      BY <2>7
    <3>2. best = CHOOSE x \in better : \A o \in better :
                    x[1] > o[1] \/ (x[1] = o[1] /\ x[2] <= o[2])
      BY <1>2 DEF ResolveChild
    <3> HIDE DEF better, best
    <3> QED BY <3>1, <3>2
  <2> HIDE DEF best
  <2> QED BY <2>8 DEF best
<1> QED BY <1>1, <1>2

\* What a condition does to the edges.
LEMMA ConditionEdge ==
    ASSUME WalkTypes, WalkClasses, NEW l \in ColKey, NEW r \in ColKey, JoinCondition(l, r)
    PROVE  \/ /\ edges' = edges
              /\ ~ ({l[1], r[1]} \subseteq node_map /\ l[1] # r[1])
           \/ \E parent, child \in {l, r}, best \in UFFind(l) \cup UFFind(r) :
                /\ {l[1], r[1]} \subseteq node_map
                /\ parent[1] > child[1]
                /\ best[1] \in node_map /\ best[1] # parent[1]
                /\ best = child \/ best[1] > child[1]
                /\ edges' = AddToEdge(parent[1], best[1], <<parent[2], best[2]>>)
<1>1. CASE {l[1], r[1]} \subseteq node_map /\ l[1] # r[1]
  <2> DEFINE parent == ParentSide(l, r)
             child  == IF parent = l THEN r ELSE l
             both   == UFFind(l) \cup UFFind(r)
             best   == ResolveChild(parent, child, both)
  <2>1. l \in both /\ r \in both /\ both \subseteq ColKey
    BY UnionIs DEF WalkClasses
  <2>2. l[1] \in Nat /\ r[1] \in Nat
    BY <1>1, TableNumbers DEF WalkTypes
  <2>3. parent \in {l, r} /\ child \in {l, r} /\ parent[1] > child[1]
    BY <1>1, <2>2 DEF ParentSide
  <2>4. edges' = AddToEdge(parent[1], best[1], <<parent[2], best[2]>>)
    BY <1>1 DEF JoinCondition
  <2>5. child[1] \in node_map /\ child[1] # parent[1]
    BY <1>1, <2>2, <2>3
  <2> HIDE DEF parent, child, both
  <2>6. /\ best \in both /\ best[1] \in node_map /\ best[1] # parent[1]
        /\ best = child \/ best[1] > child[1]
    BY <2>1, <2>3, <2>5, ResolvedChild DEF WalkTypes
  <2> HIDE DEF best
  <2> QED BY <1>1, <2>3, <2>4, <2>6 DEF both
<1>2. CASE ~ ({l[1], r[1]} \subseteq node_map /\ l[1] # r[1])
  BY <1>2 DEF JoinCondition
<1> QED BY <1>1, <1>2

\* The graph h is g with one more column pair on the edge from p to c.
GainsPair(g, h, p, c, pair) ==
    /\ h \in Graph
    /\ Linked(h, p, c)
    /\ \A x, y \in Tables : Linked(g, x, y) => Linked(h, x, y)
    /\ \A x, y \in Tables : Linked(h, x, y) => Linked(g, x, y) \/ (x = p /\ y = c)
    /\ \A x, y \in Tables : \A i \in DOMAIN h[x, y] :
            \/ i \in DOMAIN g[x, y] /\ h[x, y][i] = g[x, y][i]
            \/ x = p /\ y = c /\ h[x, y][i] = pair

LEMMA EdgeAdded ==
    ASSUME edges \in Graph, NEW p \in Tables, NEW c \in Tables, NEW pair \in ColPair
    PROVE  GainsPair(edges, AddToEdge(p, c, pair), p, c, pair)
<1> DEFINE e == <<p, c>>
           s == Append(edges[e], pair)
           h == AddToEdge(p, c, pair)
<1>1. edges[e] \in Seq(ColPair)
  BY DEF Graph
<1>2. /\ s \in Seq(ColPair) /\ s # << >>
      /\ \A i \in DOMAIN s : \/ i \in DOMAIN edges[e] /\ s[i] = edges[e][i]
                             \/ s[i] = pair
  BY <1>1
<1> HIDE DEF s
<1>3. h = [edges EXCEPT ![e] = s]
  BY DEF AddToEdge, s
<1> HIDE DEF h
<1>4. h \in Graph /\ h[e] = s
  BY <1>2, <1>3 DEF Graph
<1>5. \A x, y \in Tables : ~ (x = p /\ y = c) => h[x, y] = edges[x, y]
  <2> TAKE x, y \in Tables
  <2> HAVE ~ (x = p /\ y = c)
  <2>1. <<x, y>> # e /\ <<x, y>> \in Tables \X Tables
    OBVIOUS
  <2> HIDE DEF e
  <2> QED BY <1>3, <2>1 DEF Graph
<1>6. h[p, c] = s
  BY <1>4
<1>7. Linked(h, p, c)
  BY <1>2, <1>6 DEF Linked
<1>8. ASSUME NEW x \in Tables, NEW y \in Tables
      PROVE  /\ Linked(edges, x, y) => Linked(h, x, y)
             /\ Linked(h, x, y) => Linked(edges, x, y) \/ (x = p /\ y = c)
             /\ \A i \in DOMAIN h[x, y] :
                    \/ i \in DOMAIN edges[x, y] /\ h[x, y][i] = edges[x, y][i]
                    \/ x = p /\ y = c /\ h[x, y][i] = pair
  <2>1. CASE x = p /\ y = c
    BY <1>2, <1>6, <1>7, <2>1
  <2>2. CASE ~ (x = p /\ y = c)
    BY <1>5, <2>2 DEF Linked
  <2> QED BY <2>1, <2>2
<1>9. GainsPair(edges, h, p, c, pair)
  BY <1>4, <1>7, <1>8 DEF GainsPair
<1> QED BY <1>9 DEF h

\* Narrow classes were narrow before.
LEMMA NarrowBefore ==
    ASSUME NEW cls, NEW new, \A class \in cls : \E wide \in new : class \subseteq wide,
           NEW nodes, NEW more, nodes \subseteq more, Narrow(new, more)
    PROVE  Narrow(cls, nodes)
<1> SUFFICES ASSUME NEW class \in cls,
                    NEW a \in TablesOf(class) \cap nodes, NEW b \in TablesOf(class) \cap nodes,
                    NEW c \in TablesOf(class) \cap nodes
             PROVE  a = b \/ b = c \/ a = c
  BY DEF Narrow
<1>1. PICK wide \in new : class \subseteq wide
  OBVIOUS
<1>2. TablesOf(class) \subseteq TablesOf(wide)
  BY <1>1 DEF TablesOf
<1> QED BY <1>1, <1>2 DEF Narrow

\* The classes of the two sides are joined, and an edge between their nodes gets
\* a pair of columns of the joined class.
LEMMA ConditionClasses ==
    ASSUME WalkTypes, WalkClasses, NEW l \in ColKey, NEW r \in ColKey, JoinCondition(l, r)
    PROVE  WalkClasses' /\ edges' \in Graph
<1> DEFINE both == UFFind(l) \cup UFFind(r)
           new  == UFUnion(l, r)
<1>1. classes' = new /\ node_map' = node_map /\ join # NoJoin
      /\ l[1] \in join.left /\ r[1] \in join.right
  BY DEF JoinCondition
<1>2. /\ Partition(new) /\ both \in new /\ l \in both /\ r \in both /\ both \subseteq ColKey
      /\ \A class \in new : class = both \/ class \in classes
      /\ \A class \in classes : \E wide \in new : class \subseteq wide
  BY UnionIs DEF WalkClasses
<1>3. /\ UFFind(l) \in classes /\ l \in UFFind(l)
      /\ UFFind(r) \in classes /\ r \in UFFind(r)
  BY FindIs DEF WalkClasses
<1> HIDE DEF both, new
<1>4. l[1] \in Seen /\ r[1] \in Seen
  BY <1>1 DEF WalkTypes
<1>5. \A k \in ColKey : (k[1] \in Tables /\ k[1] \in Seen) => k[1] \in node_map
  BY DerivedAssumption DEF Seen
<1>6. Unmet(new, node_map)
  <2> SUFFICES ASSUME NEW class \in new, NEW k \in class, k[1] \in Tables \ node_map
               PROVE  class = {k}
    BY DEF Unmet
  <2>1. CASE class \in classes
    BY <2>1 DEF WalkClasses, Unmet
  <2>2. CASE class = both
    <3>1. PICK x \in {l, r} : k \in UFFind(x)
      BY <2>2 DEF both
    <3>2. UFFind(x) = {k}
      BY <1>3, <3>1 DEF WalkClasses, Unmet
    <3>3. x = k /\ x \in ColKey
      BY <1>3, <3>1, <3>2
    <3> QED BY <1>4, <1>5, <3>1, <3>3
  <2> QED BY <1>2, <2>1, <2>2
<1>7. CASE edges' = edges /\ ~ ({l[1], r[1]} \subseteq node_map /\ l[1] # r[1])
  <2>1. PairsTogether(edges, new)
    <3>1. ASSUME NEW x \in Tables, NEW y \in Tables, NEW i \in DOMAIN edges[x, y]
          PROVE  Together(new, <<x, edges[x, y][i][1]>>, <<y, edges[x, y][i][2]>>)
      <4>1. Together(classes, <<x, edges[x, y][i][1]>>, <<y, edges[x, y][i][2]>>)
        BY DEF WalkClasses, PairsTogether
      <4> QED BY <1>2, <4>1 DEF Together
    <3> QED BY <3>1 DEF PairsTogether
  <2>2. ASSUME Narrow(new, node_map)
        PROVE  Ordered(edges) /\ ClassesLinked(edges, new, node_map)
    <3>1. Narrow(classes, node_map)
      BY <1>2, <2>2, NarrowBefore
    <3>2. Ordered(edges) /\ ClassesLinked(edges, classes, node_map)
      BY <3>1 DEF WalkClasses
    <3>3. ASSUME TablesOf(both) \subseteq Tables,
                 NEW a \in TablesOf(both) \cap node_map, NEW b \in TablesOf(both) \cap node_map,
                 a > b
          PROVE  Linked(edges, a, b)
      <4>1. /\ TablesOf(both) = TablesOf(UFFind(l)) \cup TablesOf(UFFind(r))
            /\ l[1] \in TablesOf(UFFind(l)) /\ r[1] \in TablesOf(UFFind(r))
        BY <1>3 DEF TablesOf, both
      <4>2. l[1] \in node_map /\ r[1] \in node_map
        BY <1>4, <1>5, <3>3, <4>1
      <4>3. l[1] = r[1]
        BY <1>7, <4>2
      <4>4. PICK x \in {l, r} : {a, b} \subseteq TablesOf(UFFind(x))
        <5>1. a \in {l[1]} \/ b \in {l[1]} \/ a = b
          BY <1>2, <2>2, <4>1, <4>2 DEF Narrow
        <5> QED BY <3>3, <4>1, <4>3, <5>1
      <4>5. UFFind(x) \in classes /\ TablesOf(UFFind(x)) \subseteq Tables
        BY <1>3, <3>3, <4>1
      <4> QED BY <3>2, <3>3, <4>4, <4>5 DEF ClassesLinked
    <3> QED BY <1>2, <3>2, <3>3 DEF ClassesLinked
  <2> QED BY <1>1, <1>2, <1>6, <1>7, <2>1, <2>2 DEF WalkClasses, WalkTypes
<1>8. CASE \E parent, child \in {l, r}, best \in both :
                /\ {l[1], r[1]} \subseteq node_map
                /\ parent[1] > child[1]
                /\ best[1] \in node_map /\ best[1] # parent[1]
                /\ best = child \/ best[1] > child[1]
                /\ edges' = AddToEdge(parent[1], best[1], <<parent[2], best[2]>>)
  <2>1. PICK parent \in {l, r}, child \in {l, r}, best \in both :
                /\ {l[1], r[1]} \subseteq node_map
                /\ parent[1] > child[1]
                /\ best[1] \in node_map /\ best[1] # parent[1]
                /\ best = child \/ best[1] > child[1]
                /\ edges' = AddToEdge(parent[1], best[1], <<parent[2], best[2]>>)
    BY <1>8
  <2> DEFINE h == AddToEdge(parent[1], best[1], <<parent[2], best[2]>>)
  <2>2. /\ parent[1] \in Tables /\ best[1] \in Tables /\ child[1] \in Tables
        /\ <<parent[2], best[2]>> \in ColPair
        /\ parent = <<parent[1], parent[2]>> /\ best = <<best[1], best[2]>>
        /\ parent \in both /\ child \in both
    BY <1>2, <2>1 DEF WalkTypes, ColKey, ColPair
  <2>3. GainsPair(edges, h, parent[1], best[1], <<parent[2], best[2]>>)
    <3>1. edges \in Graph
      BY DEF WalkTypes
    <3> QED BY ONLY <2>2, <3>1, EdgeAdded DEF h
  <2> DEFINE pair == <<parent[2], best[2]>>
  <2>7. pair[1] = parent[2] /\ pair[2] = best[2]
    OBVIOUS
  <2> HIDE DEF h, pair
  <2>4. PairsTogether(h, new)
    <3>1. Together(new, parent, best)
      BY <1>2, <2>2 DEF Together
    <3>2. ASSUME NEW x \in Tables, NEW y \in Tables, NEW i \in DOMAIN h[x, y]
          PROVE  Together(new, <<x, h[x, y][i][1]>>, <<y, h[x, y][i][2]>>)
      <4>1. CASE i \in DOMAIN edges[x, y] /\ h[x, y][i] = edges[x, y][i]
        <5>1. Together(classes, <<x, h[x, y][i][1]>>, <<y, h[x, y][i][2]>>)
          BY <4>1 DEF WalkClasses, PairsTogether
        <5> QED BY <1>2, <4>1, <5>1 DEF Together
      <4>2. CASE x = parent[1] /\ y = best[1] /\ h[x, y][i] = pair
        <5>1. /\ h[x, y][i][1] = parent[2] /\ h[x, y][i][2] = best[2]
          BY <2>7, <4>2
        <5>2. /\ <<x, h[x, y][i][1]>> = parent /\ <<y, h[x, y][i][2]>> = best
          BY <2>2, <4>2, <5>1
        <5> QED BY <3>1, <5>2
      <4> QED BY <2>3, <4>1, <4>2 DEF GainsPair, pair
    <3> QED BY <3>2 DEF PairsTogether
  <2>5. ASSUME Narrow(new, node_map)
        PROVE  Ordered(h) /\ ClassesLinked(h, new, node_map)
    <3>1. Narrow(classes, node_map)
      BY <1>2, <2>5, NarrowBefore
    <3>2. Ordered(edges) /\ ClassesLinked(edges, classes, node_map)
      BY <3>1 DEF WalkClasses
    <3>3. {parent[1], child[1], best[1]} \subseteq TablesOf(both) \cap node_map
      BY <2>1, <2>2 DEF TablesOf
    <3>4. best[1] = child[1]
      <4>1. parent[1] \in Nat /\ child[1] \in Nat
        BY <2>2, TableNumbers
      <4>2. parent[1] # child[1]
        BY <2>1, <4>1
      <4> QED BY <1>2, <2>1, <2>5, <3>3, <4>2 DEF Narrow
    <3>5. Ordered(h)
      BY <2>1, <2>3, <3>2, <3>4 DEF Ordered, GainsPair
    <3>6. ASSUME TablesOf(both) \subseteq Tables,
                 NEW a \in TablesOf(both) \cap node_map, NEW b \in TablesOf(both) \cap node_map,
                 a > b
          PROVE  Linked(h, a, b)
      <4>1. /\ a \in Nat /\ b \in Nat /\ parent[1] \in Nat /\ child[1] \in Nat
        BY <2>2, <3>6, TableNumbers
      <4>2. {a, b} = {parent[1], child[1]}
        BY <1>2, <2>1, <2>5, <3>3, <3>6, <4>1 DEF Narrow
      <4>3. a = parent[1] /\ b = child[1]
        BY <2>1, <3>6, <4>1, <4>2
      <4> QED BY <2>3, <3>4, <4>3 DEF GainsPair
    <3>7. ClassesLinked(h, new, node_map)
      <4> SUFFICES ASSUME NEW class \in new, TablesOf(class) \subseteq Tables,
                          NEW a \in TablesOf(class) \cap node_map,
                          NEW b \in TablesOf(class) \cap node_map, a > b
                   PROVE  Linked(h, a, b)
        BY DEF ClassesLinked
      <4>1. CASE class = both
        BY <3>6, <4>1
      <4>2. CASE class \in classes
        <5>1. Linked(edges, a, b)
          BY <3>2, <4>2 DEF ClassesLinked
        <5> QED BY <2>3, <5>1 DEF GainsPair
      <4> QED BY <1>2, <4>1, <4>2
    <3> QED BY <3>5, <3>7
  <2>6. edges' = h
    BY <2>1 DEF h
  <2> QED BY <1>1, <1>2, <1>6, <2>3, <2>4, <2>5, <2>6 DEF WalkClasses, GainsPair
<1> QED BY <1>7, <1>8, ConditionEdge DEF both

-----------------------------------------------------------------------------
\* The steps of the walk.

LEMMA FrontLast ==
    ASSUME NEW S, NEW s \in Seq(S), s # << >>
    PROVE  Front(s) \in Seq(S) /\ Last(s) \in S /\ Len(Front(s)) = Len(s) - 1
<1>1. Len(s) \in Nat \ {0}
  OBVIOUS
<1>2. Last(s) \in S
  BY <1>1 DEF Last
<1>3. Front(s) \in Seq(S) /\ Len(Front(s)) = Len(s) - 1
  <2> DEFINE n == Len(s) - 1
  <2>1. \A i \in 1 .. n : s[i] \in S
    OBVIOUS
  <2>2. n \in Nat
    BY <1>1
  <2> HIDE DEF n
  <2>3. 1 \in Int /\ n \in Int
    BY <2>2
  <2>4. /\ SubSeq(s, 1, n) \in Seq(S)
        /\ Len(SubSeq(s, 1, n)) = IF 1 <= n THEN n - 1 + 1 ELSE 0
    BY ONLY <2>1, <2>3, SubSeqProperties
  <2>5. Len(SubSeq(s, 1, n)) = n
    BY <2>2, <2>4
  <2> QED BY <2>4, <2>5 DEF Front, n
<1> QED BY <1>2, <1>3

\* The next table has not been met, or counting its predecessors fails.
LEMMA NextIsTable ==
    ASSUME node_map \subseteq Tables, Cardinality(node_map) < NumTables
    PROVE  NextIndex \in Tables
<1>1. IsFiniteSet(Tables)
  BY FS_Interval, NumTablesAssumption DEF Tables
<1>2. Cardinality(node_map) \in Nat
  BY <1>1, FS_Subset, FS_CardinalityType
<1> QED BY <1>2, NumTablesAssumption DEF NextIndex, Tables

LEMMA WalkTypesStep ==
    ASSUME WalkTypes, WalkClasses, Next
    PROVE  WalkTypes'
<1>1. CASE VisitLeaf
  <2>1. NextIndex \in Tables
    BY <1>1, NextIsTable DEF VisitLeaf, WalkTypes
  <2>2. node_map' \subseteq Tables /\ Seen \subseteq Seen' /\ NextIndex \in Seen'
    BY <1>1, <2>1 DEF VisitLeaf, WalkTypes, Seen
  <2>3. plans \in Seq(SUBSET Seen') /\ {NextIndex} \in SUBSET Seen'
    BY <2>2 DEF WalkTypes
  <2>4. plans' \in Seq(SUBSET Seen')
    BY <1>1, <2>3 DEF VisitLeaf
  <2> QED BY <1>1, <2>2, <2>4 DEF VisitLeaf, WalkTypes
<1>2. ASSUME NEW type \in JoinTypes, EnterJoin(type)
      PROVE  WalkTypes'
  <2>1. plans \in Seq(SUBSET Seen) /\ plans # << >> /\ Len(plans) >= 2
    BY <1>2 DEF EnterJoin, WalkTypes
  <2>2. /\ Front(plans) \in Seq(SUBSET Seen) /\ Last(plans) \in SUBSET Seen
        /\ Len(Front(plans)) = Len(plans) - 1
    BY <2>1, FrontLast
  <2>3. Front(plans) # << >>
    BY <2>1, <2>2
  <2>4. Front(Front(plans)) \in Seq(SUBSET Seen) /\ Last(Front(plans)) \in SUBSET Seen
    BY <2>2, <2>3, FrontLast
  <2>5. Seen' = Seen
    BY <1>2 DEF EnterJoin, Seen
  <2>6. join' \in [type : JoinTypes, left : SUBSET Seen, right : SUBSET Seen,
                   first : BOOLEAN, edge : BOOLEAN]
    BY <1>2, <2>2, <2>4 DEF EnterJoin
  <2> QED BY <1>2, <2>4, <2>5, <2>6 DEF EnterJoin, WalkTypes
<1>3. ASSUME NEW l \in ColKey, NEW r \in ColKey, JoinCondition(l, r)
      PROVE  WalkTypes'
  <2>1. edges' \in Graph
    BY <1>3, ConditionClasses
  <2>2. Seen' = Seen /\ node_map' = node_map /\ plans' = plans /\ join_edges' = join_edges
    BY <1>3 DEF JoinCondition, Seen
  <2>3. join' \in [type : JoinTypes, left : SUBSET Seen, right : SUBSET Seen,
                   first : BOOLEAN, edge : BOOLEAN]
    <3> DEFINE edge == IF join.first THEN join.edge
                       ELSE {l[1], r[1]} \subseteq Tables \cup Registered
    <3>1. join \in [type : JoinTypes, left : SUBSET Seen, right : SUBSET Seen,
                    first : BOOLEAN, edge : BOOLEAN]
      BY <1>3 DEF JoinCondition, WalkTypes
    <3>2. edge \in BOOLEAN
      BY <3>1
    <3>3. join' = [join EXCEPT !.first = TRUE, !.edge = edge]
      BY <1>3 DEF JoinCondition
    <3> HIDE DEF edge
    <3> QED BY <3>1, <3>2, <3>3
  <2>4. conditions' \in 0 .. MaxConditions
    BY <1>3, MaxConditionsAssumption DEF JoinCondition, WalkTypes
  <2>5. preserved' \subseteq (Tables \cup Derived) \X (Tables \cup Derived)
    <3>1. l[1] \in Tables \cup Derived /\ r[1] \in Tables \cup Derived
      BY DEF ColKey
    <3>2. Preserves(join.type, l[1], r[1]) \subseteq {<<l[1], r[1]>>, <<r[1], l[1]>>}
      BY DEF Preserves
    <3> QED BY <1>3, <3>1, <3>2 DEF JoinCondition, WalkTypes
  <2> QED BY <2>1, <2>2, <2>3, <2>4, <2>5 DEF WalkTypes
<1>4. CASE LeaveJoin
  <2>1. Seen' = Seen
    BY <1>4 DEF LeaveJoin, Seen
  <2>2. join.left \in SUBSET Seen /\ join.right \in SUBSET Seen
    BY <1>4 DEF LeaveJoin, WalkTypes
  <2>3. VisibleAbove(join) \in SUBSET Seen
    BY <2>2 DEF VisibleAbove
  <2>4. plans' \in Seq(SUBSET Seen)
    BY <1>4, <2>3 DEF LeaveJoin, WalkTypes
  <2>5. join_edges' \in Nat
    BY <1>4 DEF LeaveJoin, WalkTypes
  <2> QED BY <1>4, <2>1, <2>4, <2>5 DEF LeaveJoin, WalkTypes
<1>5. CASE VisitBinary
  <2>1. plans \in Seq(SUBSET Seen) /\ plans # << >> /\ Len(plans) >= 2
    BY <1>5 DEF VisitBinary, WalkTypes
  <2>2. /\ Front(plans) \in Seq(SUBSET Seen) /\ Last(plans) \in SUBSET Seen
        /\ Len(Front(plans)) = Len(plans) - 1
    BY <2>1, FrontLast
  <2>3. Front(plans) # << >>
    BY <2>1, <2>2
  <2>4. Front(Front(plans)) \in Seq(SUBSET Seen) /\ Last(Front(plans)) \in SUBSET Seen
    BY <2>2, <2>3, FrontLast
  <2>5. Seen' = Seen
    BY <1>5 DEF VisitBinary, Seen
  <2>6. Last(plans) \cup Last(Front(plans)) \in SUBSET Seen
    BY <2>2, <2>4
  <2>7. plans' \in Seq(SUBSET Seen)
    BY <1>5, <2>4, <2>6 DEF VisitBinary
  <2> QED BY <1>5, <2>5, <2>7 DEF VisitBinary, WalkTypes
<1>6. ASSUME NEW d \in Derived, VisitDerived(d)
      PROVE  WalkTypes'
  <2>1. plans \in Seq(SUBSET Seen) /\ plans # << >>
    BY <1>6 DEF VisitDerived, WalkTypes
  <2>2. Front(plans) \in Seq(SUBSET Seen) /\ Last(plans) \in SUBSET Seen
    BY <2>1, FrontLast
  <2>3. Last(plans) \cup {d} \in SUBSET Seen
    BY <2>2 DEF Seen
  <2>4. Seen' = Seen
    BY <1>6 DEF VisitDerived, Seen
  <2>5. plans' \in Seq(SUBSET Seen)
    BY <1>6, <2>2, <2>3 DEF VisitDerived
  <2> QED BY <1>6, <2>4, <2>5 DEF VisitDerived, WalkTypes
<1> QED BY <1>1, <1>2, <1>3, <1>4, <1>5, <1>6 DEF Next

LEMMA WalkClassesStep ==
    ASSUME WalkTypes, WalkClasses, Next
    PROVE  WalkClasses'
<1>1. CASE VisitLeaf
  <2>1. /\ node_map' = node_map \cup {NextIndex}
        /\ edges' = edges /\ classes' = classes /\ NextIndex \in Tables
    BY <1>1, NextIsTable DEF VisitLeaf, WalkTypes
  <2>2. Unmet(classes, node_map')
    BY <2>1 DEF WalkClasses, Unmet
  <2>3. ASSUME Narrow(classes, node_map')
        PROVE  Ordered(edges) /\ ClassesLinked(edges, classes, node_map')
    <3>1. \A class \in classes : \E wide \in classes : class \subseteq wide
      OBVIOUS
    <3>2. Narrow(classes, node_map)
      BY <2>1, <2>3 DEF Narrow
    <3>3. Ordered(edges) /\ ClassesLinked(edges, classes, node_map)
      BY <3>2 DEF WalkClasses
    <3>4. ASSUME NEW class \in classes, TablesOf(class) \subseteq Tables,
                 NEW a \in TablesOf(class) \cap node_map',
                 NEW b \in TablesOf(class) \cap node_map', a > b
          PROVE  Linked(edges, a, b)
      <4>1. CASE a \in node_map /\ b \in node_map
        BY <3>3, <3>4, <4>1 DEF ClassesLinked
      <4>2. CASE a \notin node_map \/ b \notin node_map
        <5>1. PICK k \in class : k[1] \in Tables \ node_map
          BY <2>1, <3>4, <4>2 DEF TablesOf
        <5>2. class = {k}
          BY <5>1 DEF WalkClasses, Unmet
        <5>3. a = k[1] /\ b = k[1]
          BY <3>4, <5>2 DEF TablesOf
        <5>4. a \in Nat
          BY <3>4, TableNumbers
        <5> QED BY <3>4, <5>3, <5>4
      <4> QED BY <4>1, <4>2
    <3> QED BY <3>3, <3>4 DEF ClassesLinked
  <2> QED BY <2>1, <2>2, <2>3 DEF WalkClasses
<1>2. ASSUME NEW l \in ColKey, NEW r \in ColKey, JoinCondition(l, r)
      PROVE  WalkClasses'
  BY <1>2, ConditionClasses
<1>3. CASE UNCHANGED <<edges, node_map, classes>>
  BY <1>3 DEF WalkClasses
<1> QED BY <1>1, <1>2, <1>3 DEF Next, EnterJoin, LeaveJoin, VisitBinary, VisitDerived

-----------------------------------------------------------------------------
\* The planner: the walk, the flip, the levels and the placement.

SettingTypes ==
    /\ card \in [Tables -> Cardinalities]
    /\ pass_mode \in PassModes
    /\ gets \in GetSets
    /\ flip_roots \in BOOLEAN
    /\ cursor \in 0 .. NumTables
    /\ phase \in {"start", "round", "done"}
    /\ pc \in {"walk", "flip", "levels", "place", "unchanged"}

\* Nothing of the two passes has happened yet.
BeforePlacing ==
    /\ level = [t \in Tables |-> 0]
    /\ todo = {}
    /\ forward_filter_ops = NoOps /\ backward_filter_ops = NoOps
    /\ equiv_class_bf_source = {} /\ sequence = 0 /\ stage = "forward"
    /\ stacks = NoOps /\ related_create = << >>
    /\ passthrough = {} /\ pushdown_targets = << >>
    /\ step = "generate"

Placing ==
    /\ PlaceState
    /\ level \in [Tables -> -1 .. NumTables - 1]
    /\ stage # "tree"
    /\ PP!AllFit(classes, forward_filter_ops)
    /\ PP!AllFit(classes, backward_filter_ops)

PlannerInv ==
    /\ SettingTypes
    /\ WalkTypes
    /\ Partition(classes)
    /\ PairsTogether(edges, classes)
    /\ pc = "walk" => WalkClasses
    /\ pc # "place" => BeforePlacing
    /\ pc = "place" => Placing

LEMMA NoOpsFit == ASSUME NEW cls PROVE PP!AllFit(cls, NoOps)
  BY DEF PP!AllFit, NoOps, PP!Tables, Tables

\* Before the levels are computed the placement has nothing to do.
LEMMA BeforeIsPlacing == edges \in Graph /\ BeforePlacing => Placing
<1> SUFFICES ASSUME edges \in Graph, BeforePlacing PROVE Placing
  OBVIOUS
<1>1. \A e \in Tables \X Tables : ~ (level[e[2]] >= 1)
  BY DEF BeforePlacing
<1>2. PP!LevelledEdges(edges, level) = {}
  BY <1>1 DEF PP!LevelledEdges, PP!Tables, Tables
<1>3. edges \in PP!Graph
  BY DEF PP!Graph, Graph, PP!ColPair, ColPair, PP!Tables, Tables
<1>4. level \in [Tables -> -1 .. NumTables - 1] /\ level \in [PP!Tables -> -1 .. NumTables]
  BY NumTablesAssumption DEF BeforePlacing, PP!Tables, Tables
<1>5. PP!GraphInv
  BY <1>2, <1>3, <1>4 DEF PP!GraphInv, BeforePlacing
<1>6. PP!NoOps = NoOps
  BY DEF PP!NoOps, NoOps, PP!Tables, Tables
<1>7. PP!Starts
  BY <1>2, <1>5, <1>6 DEF PP!Starts, BeforePlacing
<1>8. PP!StageInv
  BY <1>7, Given, PP!StageInvStarts DEF PP!StageInvStarts
<1>9. PP!PlaceInv /\ PP!PushInv
  BY <1>6 DEF PP!PlaceInv, PP!PushInv, BeforePlacing
<1> QED BY <1>4, <1>8, <1>9, NoOpsFit DEF Placing, PlaceState, BeforePlacing

LEMMA AlwaysPlacing == PlannerInv => Placing
  BY BeforeIsPlacing DEF PlannerInv, WalkTypes

LEMMA OptInitInv == OptInit => PlannerInv
<1> SUFFICES ASSUME OptInit PROVE PlannerInv
  OBVIOUS
<1> USE DEF OptInit
<1>1. SettingTypes
  <2>1. (CHOOSE c \in Cardinalities : TRUE) \in Cardinalities
    BY CardinalitiesAssumption
  <2> QED BY <2>1, NumTablesAssumption DEF SettingTypes
<1>2. NoEdges \in Graph /\ \A p, c \in Tables : NoEdges[p, c] = << >>
  <2>1. << >> \in Seq(ColPair)
    OBVIOUS
  <2> QED BY <2>1 DEF NoEdges, Graph
<1>3. WalkTypes
  <2>1. plans \in Seq(SUBSET Seen)
    BY DEF Init
  <2>2. conditions \in 0 .. MaxConditions /\ join_edges \in Nat /\ join = NoJoin
    BY MaxConditionsAssumption DEF Init
  <2>3. edges \in Graph /\ node_map \subseteq Tables /\ preserved = {}
    BY <1>2 DEF Init
  <2> QED BY <2>1, <2>2, <2>3 DEF WalkTypes
<1>4. Partition(classes)
  <2>1. classes = {{k} : k \in ColKey}
    BY DEF Init
  <2>2. \A k \in ColKey : {k} \in classes /\ k \in {k}
    BY <2>1
  <2>3. \A class \in classes : \E k \in ColKey : class = {k}
    BY <2>1
  <2>4. classes \subseteq SUBSET ColKey
    <3>1. \A class \in classes : class \subseteq ColKey
      BY <2>3
    <3> QED BY <3>1
  <2>5. \A c, d \in classes : \A k \in c : k \in d => c = d
    <3> TAKE c, d \in classes
    <3>1. PICK i \in ColKey : c = {i}
      BY <2>3
    <3>2. PICK j \in ColKey : d = {j}
      BY <2>3
    <3> QED BY <3>1, <3>2
  <2> QED BY <2>2, <2>4, <2>5 DEF Partition
<1>5. PairsTogether(edges, classes)
  <2>1. \A p, c \in Tables : DOMAIN edges[p, c] = {}
    <3>1. edges = NoEdges /\ DOMAIN << >> = {}
      BY DEF Init
    <3> QED BY <1>2, <3>1
  <2> QED BY <2>1 DEF PairsTogether
<1>6. Unmet(classes, node_map)
  BY DEF Unmet, Init
<1>7. Ordered(edges)
  BY <1>2 DEF Ordered, Linked, Init
<1>8. ClassesLinked(edges, classes, node_map)
  BY DEF ClassesLinked, Init
<1>9. BeforePlacing
  BY DEF BeforePlacing, NoOps
<1> QED BY <1>1, <1>3, <1>4, <1>5, <1>6, <1>7, <1>8, <1>9 DEF PlannerInv, WalkClasses

LEMMA WalkStepInv == PlannerInv /\ WalkStep => PlannerInv'
<1> SUFFICES ASSUME PlannerInv, WalkStep PROVE PlannerInv'
  OBVIOUS
<1>1. pc = "walk" /\ pc' = "walk" /\ Next /\ WalkTypes /\ WalkClasses
  BY DEF WalkStep, PlannerInv
<1>2. WalkTypes' /\ WalkClasses'
  BY <1>1, WalkTypesStep, WalkClassesStep
<1>3. SettingTypes'
  BY DEF WalkStep, settings, flipvars, SettingTypes, PlannerInv
<1>4. BeforePlacing'
  BY <1>1 DEF WalkStep, stagevars, placevars, BeforePlacing, PlannerInv
<1> QED BY <1>1, <1>2, <1>3, <1>4 DEF PlannerInv, WalkClasses

LEMMA EndWalkInv == PlannerInv /\ EndWalk => PlannerInv'
<1> SUFFICES ASSUME PlannerInv, EndWalk PROVE PlannerInv'
  OBVIOUS
<1>1. pc = "walk" /\ pc' \in {"unchanged", "flip", "levels"}
  BY DEF EndWalk
<1>2. SettingTypes'
  BY <1>1 DEF EndWalk, flipvars, SettingTypes, PlannerInv
<1>3. Seen' = Seen
  BY DEF EndWalk, Seen
<1>4. plans' \in Seq(SUBSET Seen)
  BY DEF EndWalk
<1>5. WalkTypes'
  BY <1>3, <1>4, MaxConditionsAssumption DEF EndWalk, WalkTypes, PlannerInv
<1>6. BeforePlacing'
  BY <1>1 DEF EndWalk, stagevars, placevars, BeforePlacing, PlannerInv
<1>7. Partition(classes)' /\ PairsTogether(edges, classes)'
  BY DEF EndWalk, PlannerInv
<1> QED BY <1>1, <1>2, <1>5, <1>6, <1>7 DEF PlannerInv

\* Reversing the edges of a node keeps what they join.
LEMMA ReversedPairs ==
    ASSUME NEW g \in Graph, NEW n \in Tables, NEW cls, PairsTogether(g, cls)
    PROVE  Flip!ReverseEdges(g, n) \in Graph /\ PairsTogether(Flip!ReverseEdges(g, n), cls)
<1> DEFINE h == [e \in Tables \X Tables |->
                    IF e[1] = n THEN << >>
                    ELSE IF e[2] = n /\ Linked(g, n, e[1]) THEN SwapSides(g[n, e[1]])
                    ELSE g[e]]
<1>1. Flip!ReverseEdges(g, n) = h
  BY DEF Flip!ReverseEdges, Flip!Linked, Linked, Flip!SwapSides, SwapSides, Flip!Tables, Tables
<1>2. \A e \in Tables \X Tables : SwapSides(g[n, e[1]]) \in Seq(ColPair)
  BY SwapSidesFacts DEF Graph
<1>3. h \in Graph
  <2>1. << >> \in Seq(ColPair)
    OBVIOUS
  <2> QED BY <1>2, <2>1 DEF Graph
<1>6. DOMAIN << >> = {}
  OBVIOUS
<1>4. ASSUME NEW p \in Tables, NEW c \in Tables, NEW i \in DOMAIN h[p, c]
      PROVE  Together(cls, <<p, h[p, c][i][1]>>, <<c, h[p, c][i][2]>>)
  <2>1. CASE p = n
    <3>1. h[p, c] = << >>
      BY <2>1
    <3> HIDE DEF h
    <3> QED BY <1>6, <3>1
  <2>2. CASE p # n /\ c = n /\ Linked(g, n, p)
    <3>1. h[p, c] = SwapSides(g[n, p])
      BY <2>2
    <3> HIDE DEF h
    <3> DEFINE swapped == <<g[n, p][i][2], g[n, p][i][1]>>
    <3>2. i \in DOMAIN g[n, p] /\ h[p, c][i] = swapped
      BY <3>1 DEF SwapSides
    <3>3. Together(cls, <<n, g[n, p][i][1]>>, <<p, g[n, p][i][2]>>)
      BY <3>2 DEF PairsTogether
    <3>5. swapped[1] = g[n, p][i][2] /\ swapped[2] = g[n, p][i][1]
      OBVIOUS
    <3> HIDE DEF swapped
    <3>4. h[p, c][i][1] = g[n, p][i][2] /\ h[p, c][i][2] = g[n, p][i][1]
      BY <3>2, <3>5
    <3> QED BY <2>2, <3>3, <3>4 DEF Together
  <2>3. CASE p # n /\ ~ (c = n /\ Linked(g, n, p))
    <3>1. h[p, c] = g[p, c]
      BY <2>3
    <3> HIDE DEF h
    <3> QED BY <3>1 DEF PairsTogether
  <2> QED BY <2>1, <2>2, <2>3
<1>5. PairsTogether(h, cls)
  <2> HIDE DEF h
  <2> QED BY <1>4 DEF PairsTogether
<1> QED BY <1>1, <1>3, <1>5

LEMMA FlipStepInv == PlannerInv /\ FlipStep => PlannerInv'
<1> SUFFICES ASSUME PlannerInv, FlipStep PROVE PlannerInv'
  OBVIOUS
<1>1. pc = "flip" /\ pc' \in {"flip", "levels"} /\ Flip!Next
  BY DEF FlipStep
<1>2. edges \in Graph /\ node_map \subseteq Tables /\ PairsTogether(edges, classes)
  BY DEF PlannerInv, WalkTypes
<1>3. /\ edges' = edges \/ \E n \in node_map : edges' = Flip!ReverseEdges(edges, n)
      /\ node_map' = node_map /\ card' = card
      /\ cursor' \in {cursor, 0} \/ (cursor \in node_map /\ cursor' = cursor + 1)
      /\ phase' \in {phase, "done", "round"}
  BY <1>1 DEF Flip!Next, Flip!FindAnchor, Flip!SkipNode, Flip!FlipNode, Flip!EndRound
<1>4. edges' \in Graph /\ PairsTogether(edges', classes)
  BY <1>2, <1>3, ReversedPairs
<1>5. cursor' \in 0 .. NumTables
  <2>1. CASE cursor' \in {cursor, 0}
    BY <2>1, NumTablesAssumption DEF PlannerInv, SettingTypes
  <2>2. CASE cursor \in node_map /\ cursor' = cursor + 1
    BY <1>2, <2>2, TableNumbers
  <2> QED BY <1>3, <2>1, <2>2
<1>6. SettingTypes'
  BY <1>1, <1>3, <1>5 DEF FlipStep, SettingTypes, PlannerInv
<1>7. WalkTypes' /\ Partition(classes)' /\ PairsTogether(edges, classes)'
  BY <1>3, <1>4 DEF FlipStep, walkvars, WalkTypes, Seen, PlannerInv
<1>8. BeforePlacing'
  BY <1>1 DEF FlipStep, stagevars, placevars, BeforePlacing, PlannerInv
<1> QED BY <1>1, <1>6, <1>7, <1>8 DEF PlannerInv

LEMMA SameLevel == \A g, n : PP!Level(g, n) = Level(g, n)
<1>1. \A g, n : PP!Parents(g, n) = Parents(g, n)
  BY DEF PP!Parents, Parents, PP!Linked, Linked, PP!Tables, Tables
<1>2. \A g : PP!Below(g) = Below(g)
  BY <1>1 DEF PP!Below, Below, PP!Tables, Tables
<1>3. ASSUME NEW g, NEW n PROVE PP!Level(g, n) = Level(g, n)
  <2> DEFINE at == Below(g)
  <2>1. PP!Below(g) = at
    BY <1>2
  <2> HIDE DEF at
  <2>2. PP!Level(g, n) = IF n \in at[NumTables] THEN -1
                         ELSE CHOOSE k \in 0 .. NumTables - 1 : n \in at[k] /\ n \notin at[k + 1]
    BY <2>1 DEF PP!Level
  <2>3. Level(g, n) = IF n \in at[NumTables] THEN -1
                      ELSE CHOOSE k \in 0 .. NumTables - 1 : n \in at[k] /\ n \notin at[k + 1]
    BY DEF Level, at
  <2> QED BY <2>2, <2>3
<1> QED BY <1>3

LEMMA ComputeLevelsInv == PlannerInv /\ ComputeLevels => PlannerInv'
<1> SUFFICES ASSUME PlannerInv, ComputeLevels PROVE PlannerInv'
  OBVIOUS
<1>1. /\ pc = "levels" /\ pc' = "place" /\ BeforePlacing
      /\ edges' = edges /\ node_map' = node_map /\ classes' = classes /\ edges \in Graph
  BY DEF ComputeLevels, PlannerInv, WalkTypes
<1>2. SettingTypes'
  BY <1>1 DEF ComputeLevels, settings, flipvars, SettingTypes, PlannerInv
<1>3. WalkTypes' /\ Partition(classes)' /\ PairsTogether(edges, classes)'
  BY <1>1 DEF ComputeLevels, walkvars, WalkTypes, Seen, PlannerInv
<1>4. PP!NoOps = NoOps
  BY DEF PP!NoOps, NoOps, PP!Tables, Tables
<1>5. PP!JustLevelled'
  <2>1. edges' \in PP!Graph
    BY <1>1 DEF PP!Graph, Graph, PP!ColPair, ColPair, PP!Tables, Tables
  <2>2. level' = [n \in PP!Tables |-> PP!Level(edges', n)]
    <3>1. level' = [n \in Tables |-> Level(edges, n)]
      BY DEF ComputeLevels
    <3> QED BY <1>1, <3>1, SameLevel DEF PP!Tables, Tables
  <2>3. todo' = PP!LevelledEdges(edges', level')
    BY <1>1 DEF ComputeLevels, PP!LevelledEdges, Place!LevelledEdges, PP!Linked,
       Place!Linked, PP!Tables, Place!Tables
  <2>4. /\ stage' = "forward" /\ sequence' = 0 /\ equiv_class_bf_source' = {}
        /\ forward_filter_ops' = NoOps /\ backward_filter_ops' = NoOps
    BY <1>1 DEF ComputeLevels, BeforePlacing
  <2> QED BY <1>4, <2>1, <2>2, <2>3, <2>4 DEF PP!JustLevelled
<1>6. (PP!StageInv /\ level \in [Tables -> -1 .. NumTables - 1])'
  BY <1>5, LevelledIsPlaceState, PTL
<1>7. (PP!PlaceInv /\ PP!PushInv)'
  BY <1>1, <1>4 DEF ComputeLevels, placevars, PP!PlaceInv, PP!PushInv, BeforePlacing
<1>8. Placing'
  BY <1>1, <1>6, <1>7, NoOpsFit DEF ComputeLevels, Placing, PlaceState, BeforePlacing
<1> QED BY <1>1, <1>2, <1>3, <1>8 DEF PlannerInv

\* The edges join equal columns, as the theorems about the placement want it.
LEMMA PairsEquated ==
    ASSUME Partition(classes), PairsTogether(edges, classes)
    PROVE  EdgePairsEquated /\ PP!EdgesEquated
<1>1. ASSUME NEW p \in Tables, NEW c \in Tables, NEW i \in DOMAIN edges[p, c]
      PROVE  UFFind(<<p, edges[p, c][i][1]>>) = UFFind(<<c, edges[p, c][i][2]>>)
  <2>1. Together(classes, <<p, edges[p, c][i][1]>>, <<c, edges[p, c][i][2]>>)
    BY DEF PairsTogether
  <2> QED BY <2>1, TogetherIs
<1>2. EdgePairsEquated
  BY <1>1 DEF EdgePairsEquated, Equated
<1>3. \A k : PP!ClassOf(k) = UFFind(k)
  BY DEF PP!ClassOf, UFFind
<1>4. PP!EdgesEquated
  BY <1>1, <1>3 DEF PP!EdgesEquated, PP!Equated, PP!Tables, Tables
<1> QED BY <1>2, <1>4

LEMMA PlaceStepInv == PlannerInv /\ PlaceStep => PlannerInv'
<1> SUFFICES ASSUME PlannerInv, PlaceStep PROVE PlannerInv'
  OBVIOUS
<1>1. pc = "place" /\ pc' = "place" /\ Place!PNext /\ Placing
  BY DEF PlaceStep, PlannerInv
<1>2. PlaceState'
  BY <1>1, PlaceStateStep DEF Placing
<1>3. /\ UNCHANGED <<edges, classes, level, card, pass_mode, gets>>
      /\ stage' \in {stage, "backward", "done"}
      /\ PP!AllFit(classes, forward_filter_ops')
      /\ PP!AllFit(classes, backward_filter_ops')
  <2>1. CASE PP!Generate
    <3>1. PP!Next /\ UNCHANGED <<pass_mode, gets>>
      BY <2>1 DEF PP!Generate
    <3>2. /\ UNCHANGED <<edges, classes, level, card>>
          /\ stage' \in {stage, "backward", "done"}
      BY <3>1 DEF PP!Next, PP!ForwardEdge, PP!AddForward, PP!EndForward, PP!BackwardEdge,
         PP!EndBackward
    <3>3. PP!EdgesEquated /\ PP!StageInv
      BY <1>1, PairsEquated DEF PlannerInv, Placing, PlaceState
    <3>4. /\ PP!AllFit(classes, forward_filter_ops')
          /\ PP!AllFit(classes, backward_filter_ops')
      BY <1>1, <3>1, <3>3, Given, PP!SingleKeyStep DEF PP!SingleKeyStep, Placing
    <3> QED BY <3>1, <3>2, <3>4
  <2>2. CASE PP!PlaceOperators
    <3>1. UNCHANGED <<PP!vars, pass_mode, gets>>
      BY <2>2 DEF PP!PlaceOperators, PP!ApplyStageModifications,
         PP!LinkProbeFilterToCreateFilter, PP!SetupDynamicFilterPushdown
    <3> QED BY <1>1, <3>1 DEF PP!vars, Placing
  <2> QED BY <1>1, <2>1, <2>2, SamePlaceStep DEF PP!HNext
<1>4. Placing'
  BY <1>1, <1>2, <1>3 DEF Placing
<1>5. SettingTypes'
  BY <1>1, <1>3 DEF PlaceStep, flipvars, SettingTypes, PlannerInv
<1>6. WalkTypes' /\ Partition(classes)' /\ PairsTogether(edges, classes)'
  BY <1>3 DEF PlaceStep, walkvars, WalkTypes, Seen, PlannerInv
<1> QED BY <1>1, <1>4, <1>5, <1>6 DEF PlannerInv

LEMMA PlannerInvStutters == PlannerInv /\ UNCHANGED optvars => PlannerInv'
<1> SUFFICES ASSUME PlannerInv, UNCHANGED optvars PROVE PlannerInv'
  OBVIOUS
<1> USE DEF optvars, walkvars, flipvars, stagevars, placevars, settings
<1>1. SettingTypes'
  BY DEF SettingTypes, PlannerInv
<1>2. WalkTypes' /\ Partition(classes)' /\ PairsTogether(edges, classes)'
  BY DEF WalkTypes, Seen, PlannerInv
<1>3. WalkClasses => WalkClasses'
  BY DEF WalkClasses
<1>4. BeforePlacing => BeforePlacing'
  BY DEF BeforePlacing
<1>5. ASSUME Placing PROVE Placing'
  <2>1. PP!StageInv /\ PP!PlaceInv /\ PP!PushInv /\ UNCHANGED PP!hvars
    BY <1>5 DEF Placing, PlaceState, PP!hvars, PP!allvars, PP!vars, PP!placement, PP!treevars
  <2>2. PP!StageInv'
    BY <2>1, Given, PP!StageInvStep DEF PP!StageInvStep
  <2>3. PP!PlaceInv'
    BY <2>1, Given, PP!PlaceInvStep DEF PP!PlaceInvStep
  <2>4. PP!PushInv'
    BY <2>1, Given, PP!PushInvStep DEF PP!PushInvStep
  <2> QED BY <1>5, <2>2, <2>3, <2>4 DEF Placing, PlaceState
<1> QED BY <1>1, <1>2, <1>3, <1>4, <1>5 DEF PlannerInv

\* Whatever the plan, the planner keeps its types, the partition of the columns
\* and edges within its classes, and the placement starts from the levels of the
\* graph (robust_optimizer.cpp:1604-1700).
THEOREM PlannerInvariant == OptSpec => []PlannerInv
<1>1. PlannerInv /\ [OptNext]_optvars => PlannerInv'
  BY WalkStepInv, EndWalkInv, FlipStepInv, ComputeLevelsInv, PlaceStepInv,
     PlannerInvStutters DEF OptNext
<1> QED BY <1>1, OptInitInv, PTL DEF OptSpec

-----------------------------------------------------------------------------
\* What the invariant says of every reachable state.

\* Every state of the planner has its types, between the parts and within them:
\* the estimates exist before the flip reads them, the levels before the passes do
\* (robust_optimizer.cpp:1596-1688).
THEOREM PlannerTypes == OptSpec => []OptTypeOK
<1>1. PlannerInv => OptTypeOK
  <2> SUFFICES ASSUME PlannerInv PROVE OptTypeOK
    OBVIOUS
  <2>1. WalkTypes /\ SettingTypes /\ Partition(classes) /\ Placing
    BY AlwaysPlacing DEF PlannerInv
  <2>2. Seen \subseteq Tables \cup Derived
    BY <2>1 DEF WalkTypes, Seen
  <2>3. plans \in Seq(SUBSET (Tables \cup Derived)) /\ join \in Joins \cup {NoJoin}
    BY <2>1, <2>2 DEF WalkTypes, Joins
  <2>4. TypeOK
    BY <2>1, <2>3 DEF TypeOK, WalkTypes, Partition
  <2>5. Place!PTypeOK
    BY <2>1, PlaceTypes DEF Placing, SettingTypes
  <2> QED BY <2>1, <2>4, <2>5 DEF OptTypeOK, SettingTypes
<1> QED BY <1>1, PlannerInvariant, PTL

\* A class with columns of at most two nodes has no three nodes.
LEMMA AtMostTwo ==
    ASSUME node_map \subseteq Tables,
           \A class \in classes : Cardinality(NodesOf(class)) <= 2
    PROVE  Narrow(classes, node_map)
<1> SUFFICES ASSUME NEW class \in classes,
                    NEW a \in TablesOf(class) \cap node_map,
                    NEW b \in TablesOf(class) \cap node_map,
                    NEW c \in TablesOf(class) \cap node_map,
                    a # b, b # c, a # c
             PROVE  FALSE
  BY DEF Narrow
<1> DEFINE N == NodesOf(class)
<1>1. N = TablesOf(class) \cap node_map
  BY DEF NodesOf, TablesOf
<1>2. IsFiniteSet(Tables)
  BY FS_Interval, NumTablesAssumption DEF Tables
<1>3. IsFiniteSet(N) /\ Cardinality(N) \in Nat /\ Cardinality(N) <= 2
  BY <1>1, <1>2, FS_Subset, FS_CardinalityType
<1> HIDE DEF N
<1>4. IsFiniteSet({a}) /\ Cardinality({a}) = 1
  BY FS_Singleton
<1> DEFINE two == {a} \cup {b}
           three == two \cup {c}
<1>5. IsFiniteSet(two) /\ Cardinality(two) = 1 + 1
  <2>1. b \notin {a}
    OBVIOUS
  <2> QED BY ONLY <1>4, <2>1, FS_AddElement
<1>6. c \notin two /\ three \in SUBSET N
  BY <1>1
<1> HIDE DEF two
<1>7. Cardinality(three) = 1 + 1 + 1
  BY ONLY <1>5, <1>6, FS_AddElement
<1> HIDE DEF three
<1>8. Cardinality(three) <= Cardinality(N)
  BY <1>3, <1>6, FS_Subset
<1> QED BY <1>3, <1>7, <1>8

\* When every edge goes down the order of the tables there is no cycle.
LEMMA OrderedIsAcyclic == ASSUME NEW g, Ordered(g) PROVE Acyclic(g)
<1> SUFFICES ASSUME NEW S \in (SUBSET Tables) \ {{}}
             PROVE  \E n \in S : Parents(g, n) \cap S = {}
  BY DEF Acyclic
<1> DEFINE Heights == {NumTables - n : n \in S}
<1>1. Heights \subseteq Nat /\ Heights # {}
  BY TableNumbers
<1>2. PICK h \in Heights : \A m \in Heights : h <= m
  <2> HIDE DEF Heights
  <2> QED BY <1>1, LeastNat
<1>3. PICK n \in S : h = NumTables - n
  OBVIOUS
<1>4. \A p \in S : NumTables - n <= NumTables - p
  BY <1>2, <1>3
<1>5. \A p \in S : ~ (p > n)
  <2> TAKE p \in S
  <2>1. p \in Nat /\ n \in Nat
    BY TableNumbers
  <2> QED BY <1>4, <2>1, NumTablesAssumption
<1>6. Parents(g, n) \cap S = {}
  BY <1>5 DEF Parents, Ordered
<1> QED BY <1>6

\* On every plan, with any number of tables and conditions: when no equivalence
\* class has columns of three tables, the walk gives a graph without cycles whose
\* edges go from later to earlier tables and which links all that is joined.
\* Wider classes may lose an edge or close a cycle, because the resolution of a
\* child looks for the latest member only (robust_optimizer.cpp:610-660).
THEOREM NarrowPlansGiveDag == OptSpec => []WalkedPlansGiveDag
<1>1. PlannerInv => WalkedPlansGiveDag
  <2> SUFFICES ASSUME PlannerInv, pc = "walk",
                      \A class \in classes : Cardinality(NodesOf(class)) <= 2
               PROVE  /\ Acyclic(edges)
                      /\ \A p, c \in Tables : Linked(edges, p, c) => p > c
                      /\ \A class \in classes : \A a, b \in NodesOf(class) :
                            (a > b /\ {k[1] : k \in class} \subseteq Tables) => Linked(edges, a, b)
    BY DEF WalkedPlansGiveDag, NarrowClassesGiveDag
  <2>1. WalkClasses /\ node_map \subseteq Tables
    BY DEF PlannerInv, WalkTypes
  <2>2. Ordered(edges) /\ ClassesLinked(edges, classes, node_map)
    BY <2>1, AtMostTwo DEF WalkClasses
  <2>3. Acyclic(edges)
    BY <2>2, OrderedIsAcyclic
  <2> QED BY <2>2, <2>3 DEF Ordered, ClassesLinked, NodesOf, TablesOf
<1> QED BY <1>1, PlannerInvariant, PTL

\* On every plan, cyclic graphs, flipped roots and both passes included: each
\* PROBE that is placed is linked to a CREATE that builds all its filters, and no
\* CREATE waits for itself (robust_optimizer.cpp:1369-1395,
\* physical_create_filter.cpp:671-697).
THEOREM PlansRun == OptSpec => []PlacedPlanRuns
<1>1. PlannerInv => PlacedPlanRuns
  BY AlwaysPlacing, PlacedRuns DEF Placing
<1> QED BY <1>1, PlannerInvariant, PTL

\* On every plan the columns an edge joins are columns the conditions equate,
\* before and after the flip, and a filter of one column is probed with an equal
\* column, although a broadcast takes the filter built for another edge of the
\* class (robust_optimizer.cpp:610-660, 745-779, 1085-1160).
THEOREM TransfersKeepClasses == OptSpec => []TransfersStayWithinClasses
<1>1. PlannerInv => TransfersStayWithinClasses
  <2> SUFFICES ASSUME PlannerInv PROVE TransfersStayWithinClasses
    OBVIOUS
  <2>1. EdgePairsEquated
    BY PairsEquated DEF PlannerInv
  <2>2. Placing
    BY AlwaysPlacing
  <2>3. PP!SingleKeyProbesEquated
    BY <2>2, Given, PP!SingleKeysEquated
       DEF PP!SingleKeysEquated, Placing, PlaceState, PP!StageInv
  <2>4. Place!SingleKeyProbesEquated
    BY <2>3 DEF PP!SingleKeyProbesEquated, Place!SingleKeyProbesEquated, PP!OpsOf,
       Place!OpsOf, PP!ToSet, Place!ToSet, PP!ProbesComparable, Place!ProbesComparable,
       PP!Equated, Place!Equated, PP!ClassOf, Place!ClassOf, PP!Tables, Place!Tables
  <2> QED BY <2>1, <2>4 DEF TransfersStayWithinClasses
<1> QED BY <1>1, PlannerInvariant, PTL

=============================================================================
