------------------------------ MODULE PlanWalk ------------------------------
(***************************************************************************)
(* PhysicalDAGDFS: the walk over the optimised join plan that builds the   *)
(* transfer graph.  The plan itself is chosen as the walk proceeds: the    *)
(* build-first recursion meets the operators of a plan in post-order, so   *)
(* every plan is a sequence of leaves, joins and other operators, and the  *)
(* sub-plans already walked wait on a stack, each as the set of tables     *)
(* whose columns the operators above it can still name.                    *)
(*                                                                         *)
(* A table in Derived stands for an operator that has a table index and    *)
(* columns of its own but is not a leaf (an aggregate result, a computed   *)
(* projection, a union): its columns take part in the equivalence classes  *)
(* and never become nodes.  Renamed columns have been resolved to the      *)
(* column they rename before they reach the walk.  A MARK join visits only *)
(* its left child and processes no condition: it leaves no trace.          *)
(***************************************************************************)
EXTENDS TransferGraph, SequencesExt

CONSTANTS
    Derived,          \* table indices of operators that are not leaves
    Registered,       \* those of Derived that table_lookup knows
    JoinTypes,        \* the join types of the plan, MARK apart
    MaxConditions     \* bound: equality conditions in the whole plan

ASSUME DerivedAssumption == Derived \cap Tables = {} /\ Registered \subseteq Derived
ASSUME MaxConditionsAssumption == MaxConditions \in Nat

VARIABLES
    edges,        \* the graph: PhysicalDAGNode::parents, children, edges_to_parents
    node_map,     \* tables met so far, in order: table t has dfs_index t
    plans,        \* stack of walked sub-plans: the tables each makes visible
    join,         \* the join whose conditions are being processed, or NoJoin
    classes,      \* the equivalence classes of uf_parent
    conditions,   \* number of conditions processed
    join_edges,   \* number of joins CreateJoinEdges makes an edge of
    preserved     \* history: <<t, u>> when an outer or anti join on a condition
                  \* between t and u keeps the rows of t that match nothing in u

vars == <<edges, node_map, plans, join, classes, conditions, join_edges, preserved>>

ColKey == (Tables \cup Derived) \X Columns

\* `first` holds once a first condition has been processed, `edge` when the
\* tables of that first condition are both registered.
NoJoin == [type |-> "none", left |-> {}, right |-> {}, first |-> FALSE, edge |-> FALSE]
Joins  == [type : JoinTypes, left : SUBSET (Tables \cup Derived),
           right : SUBSET (Tables \cup Derived), first : BOOLEAN, edge : BOOLEAN]

-----------------------------------------------------------------------------
\* uf_parent is used as a partition of the column keys: UFFind names the class
\* of a key (a key never met is its own class), UFUnion joins two classes.

UFFind(k) == CHOOSE class \in classes : k \in class

UFUnion(a, b) ==
    (classes \ {UFFind(a), UFFind(b)}) \cup {UFFind(a) \cup UFFind(b)}

\* The join types whose result shows the columns of one side only.
LeftOnly  == {"SEMI", "ANTI"}
RightOnly == {"RIGHT_SEMI", "RIGHT_ANTI"}

VisibleAbove(j) ==
    CASE j.type \in LeftOnly  -> j.left
      [] j.type \in RightOnly -> j.right
      [] OTHER                -> j.left \cup j.right

\* The sides of a condition whose unmatched rows the join keeps.
Preserves(type, left, right) ==
    {e \in {<<left, right>>, <<right, left>>} :
        IF e[1] = left THEN type \in {"LEFT", "OUTER", "ANTI"}
                    ELSE type \in {"RIGHT", "OUTER", "RIGHT_ANTI"}}

\* The join types ExtractOperatorsRecursive turns into a JoinEdge.
ExtractedTypes == {"INNER", "LEFT", "RIGHT", "SEMI", "RIGHT_SEMI"}

-----------------------------------------------------------------------------

Init ==
    /\ edges = NoEdges
    /\ node_map = {}
    /\ plans = << >>
    /\ join = NoJoin
    /\ classes = {{k} : k \in ColKey}
    /\ conditions = 0
    /\ join_edges = 0
    /\ preserved = {}

\* Mutant of NextIndex: counting starts with the insertion.
IndexFromOne == Cardinality(node_map) + 1

NextIndex == Cardinality(node_map)

\* A leaf operator: the next table of the order becomes a node without edges.
VisitLeaf ==
    /\ join = NoJoin
    /\ Cardinality(node_map) < NumTables
    /\ node_map' = node_map \cup {NextIndex}
    /\ plans' = Append(plans, {NextIndex})
    /\ UNCHANGED <<edges, join, classes, conditions, join_edges, preserved>>

\* A comparison or delim join whose right (build) child and then left (probe)
\* child have been walked; its conditions are processed next.
EnterJoin(type) ==
    /\ join = NoJoin
    /\ Len(plans) >= 2
    /\ LET left  == Last(plans)
           right == Last(Front(plans))
       IN  join' = [type |-> type, left |-> left, right |-> right,
                    first |-> FALSE, edge |-> FALSE]
    /\ plans' = Front(Front(plans))
    /\ UNCHANGED <<edges, node_map, classes, conditions, join_edges, preserved>>

\* Mutant of AddToEdge: the parent's and the child's column change places.
AddSwappedToEdge(p, c, pair) == [edges EXCEPT ![<<p, c>>] = Append(@, <<pair[2], pair[1]>>)]

\* One pair of columns is added to the edge from p to c, which is created when
\* the two are not already linked.
AddToEdge(p, c, pair) == [edges EXCEPT ![<<p, c>>] = Append(@, pair)]

\* The column the edge gets on its child side: of the columns in the class of
\* the child's column, one on the node with the highest dfs_index above the
\* child's that is not the parent; the child's own column when there is none.
ResolveChild(parent, child, class) ==
    LET better == {k \in class : /\ k[1] \in node_map \ {parent[1]}
                                 /\ k[1] > child[1]}
    IN  IF better = {} THEN child
        ELSE CHOOSE k \in better : \A o \in better :
                \/ k[1] > o[1]
                \/ k[1] = o[1] /\ k[2] <= o[2]

\* Mutant of ParentSide: the build side, met earlier, becomes the parent.
BuildSide(l, r) == IF l[1] > r[1] THEN r ELSE l

\* The later one of two nodes becomes the parent.
ParentSide(l, r) == IF l[1] > r[1] THEN l ELSE r

\* The two sides of the condition are equated; if both are columns of distinct
\* nodes, the later node becomes a parent of the (resolved) earlier one.
JoinCondition(l, r) ==
    /\ join # NoJoin
    /\ l[1] \in join.left
    /\ r[1] \in join.right
    /\ conditions < MaxConditions
    /\ conditions' = conditions + 1
    /\ join' = [join EXCEPT
                    !.first = TRUE,
                    !.edge = IF join.first THEN @
                             ELSE {l[1], r[1]} \subseteq Tables \cup Registered]
    /\ preserved' = preserved \cup Preserves(join.type, l[1], r[1])
    /\ classes' = UFUnion(l, r)
    /\ IF {l[1], r[1]} \subseteq node_map /\ l[1] # r[1]
       THEN LET parent == ParentSide(l, r)
                child  == IF parent = l THEN r ELSE l
                best   == ResolveChild(parent, child, UFFind(l) \cup UFFind(r))
            IN  edges' = AddToEdge(parent[1], best[1], <<parent[2], best[2]>>)
       ELSE UNCHANGED edges
    /\ UNCHANGED <<node_map, plans, join_edges>>

LeaveJoin ==
    /\ join # NoJoin
    /\ plans' = Append(plans, VisibleAbove(join))
    /\ join_edges' = join_edges + (IF join.edge /\ join.type \in ExtractedTypes THEN 1 ELSE 0)
    /\ join' = NoJoin
    /\ UNCHANGED <<edges, node_map, classes, conditions, preserved>>

\* Any other operator with two children (a cross product, a non-equality join).
VisitBinary ==
    /\ join = NoJoin
    /\ Len(plans) >= 2
    /\ plans' = Append(Front(Front(plans)), Last(plans) \cup Last(Front(plans)))
    /\ UNCHANGED <<edges, node_map, join, classes, conditions, join_edges, preserved>>

\* An aggregate, projection or union on top of a sub-plan adds columns that are
\* not renamed table columns.
VisitDerived(d) ==
    /\ join = NoJoin
    /\ plans # << >>
    /\ \A i \in DOMAIN plans : d \notin plans[i]
    /\ plans' = Append(Front(plans), Last(plans) \cup {d})
    /\ UNCHANGED <<edges, node_map, join, classes, conditions, join_edges, preserved>>

Next ==
    \/ VisitLeaf
    \/ \E type \in JoinTypes : EnterJoin(type)
    \/ \E l, r \in ColKey : JoinCondition(l, r)
    \/ LeaveJoin
    \/ VisitBinary
    \/ \E d \in Derived : VisitDerived(d)

Spec == Init /\ [][Next]_vars

-----------------------------------------------------------------------------

TypeOK ==
    /\ edges \in Graph
    /\ node_map \subseteq Tables
    /\ plans \in Seq(SUBSET (Tables \cup Derived))
    /\ join \in Joins \cup {NoJoin}
    /\ classes \subseteq SUBSET ColKey
    /\ conditions \in 0 .. MaxConditions
    /\ join_edges \in Nat
    /\ preserved \subseteq (Tables \cup Derived) \X (Tables \cup Derived)

Equated(a, b) == UFFind(a) = UFFind(b)

\* Every column pair of every edge joins two columns the plan's conditions make
\* equal: the equivalence resolution may replace the child, not the meaning of
\* the edge (robust_optimizer.cpp:610-640).
EdgePairsEquated ==
    \A p, c \in Tables : \A i \in DOMAIN edges[p, c] :
        Equated(<<p, edges[p, c][i][1]>>, <<c, edges[p, c][i][2]>>)

\* The nodes with a column in an equivalence class.
NodesOf(class) == {k[1] : k \in class} \cap node_map

\* When no class spans more than two nodes, the walk gives what its comments
\* promise: edges go from the table executed later to the one executed
\* earlier, so there is no cycle, and two tables that share a class of plain
\* table columns are linked.
NarrowClassesGiveDag ==
    (\A class \in classes : Cardinality(NodesOf(class)) <= 2) =>
        /\ Acyclic(edges)
        /\ \A p, c \in Tables : Linked(edges, p, c) => p > c
        /\ \A class \in classes : \A a, b \in NodesOf(class) :
            (a > b /\ {k[1] : k \in class} \subseteq Tables) => Linked(edges, a, b)

=============================================================================
