------------------------------ MODULE LargestRoot ------------------------------
(***************************************************************************)
(* The "largest_root" heuristic: LargestRoot picks a maximum spanning tree *)
(* of the join edges, starting from the largest table; BuildRootedTree     *)
(* hangs it up at that table; GenerateStageModifications makes the two     *)
(* passes of operations, without broadcasts.  From there on the operations *)
(* are placed like those of the "join_order" heuristic, so this module     *)
(* extends the placement and describes a planner with either heuristic.    *)
(***************************************************************************)
EXTENDS FilterPlacement, FiniteSetsExt

CONSTANT JoinEdges      \* inputs of largest_root: an edge goes from table_a to table_b

ASSUME JoinEdgesAssumption == \A in \in JoinEdges : in.edges \in Graph

VARIABLES
    heuristic,     \* the robust_heuristic setting
    root,          \* the table the tree is grown from
    mst_nodes,     \* tables in the tree
    mst_edges      \* join edges in the tree

treevars == <<root, mst_nodes, mst_edges>>
hvars == <<allvars, heuristic, treevars>>

-----------------------------------------------------------------------------

\* The first of the largest tables of table_ops, whose order is not tracked.
LargestTables == {t \in Tables : \A o \in Tables : card[o] <= card[t]}

HInit ==
    \/ /\ heuristic = "join_order"
       /\ PInit
       /\ root = 0 /\ mst_nodes = {} /\ mst_edges = {}
    \/ /\ heuristic = "largest_root"
       /\ \E in \in JoinEdges : edges = in.edges /\ classes = in.classes
       /\ card \in [Tables -> Cardinalities]
       /\ root \in LargestTables /\ mst_nodes = {root} /\ mst_edges = {}
       /\ level = [t \in Tables |-> -1] /\ todo = {}
       /\ forward_filter_ops = [t \in Tables |-> << >>]
       /\ backward_filter_ops = [t \in Tables |-> << >>]
       /\ equiv_class_bf_source = {} /\ sequence = 0 /\ stage = "tree"
       /\ pass_mode \in PassModes
       /\ gets \in GetSets
       /\ stacks = [t \in Tables |-> << >>]
       /\ related_create = << >> /\ passthrough = {} /\ pushdown_targets = << >>
       /\ step = "generate"

\* The edges that join a table of the tree to another table.
Crossing ==
    {e \in Tables \X Tables : /\ Linked(edges, e[1], e[2])
                              /\ (e[1] \in mst_nodes) # (e[2] \in mst_nodes)}

\* The weight of an edge is the number of its column pairs.
Weight(e)   == Len(edges[e])
Smaller(e)  == Min({card[e[1]], card[e[2]]})

\* The heaviest of the crossing edges, and of those one whose smaller table is
\* the largest; the first of several in the order of the joins.
BestEdges ==
    {e \in Crossing : \A o \in Crossing :
        \/ Weight(o) < Weight(e)
        \/ Weight(o) = Weight(e) /\ Smaller(o) <= Smaller(e)}

\* One iteration of Prim's algorithm.
GrowTree ==
    /\ stage = "tree"
    /\ mst_nodes # Tables
    /\ \E e \in BestEdges : /\ mst_edges' = mst_edges \cup {e}
                            /\ mst_nodes' = mst_nodes \cup {e[1], e[2]}
    /\ UNCHANGED <<allvars, heuristic, root>>

Neighbours(a, b) == <<a, b>> \in mst_edges \/ <<b, a>> \in mst_edges

\* The tables that are at most k edges away from the root.
Near ==
    LET near[k \in 0 .. NumTables] ==
            IF k = 0 THEN {root}
            ELSE near[k - 1] \cup {t \in Tables : \E s \in near[k - 1] : Neighbours(s, t)}
    IN  near

\* The level the breadth-first search gives a table; -1 if it is not met.
Depth(t) ==
    IF t \in Near[NumTables]
    THEN CHOOSE k \in 0 .. NumTables : t \in Near[k] /\ (k = 0 \/ t \notin Near[k - 1])
    ELSE -1

\* Mutant of ParentOf: an edge goes from table_a to table_b, as it was made.
EdgeAsMade(p, c) == <<p, c>> \in mst_edges

\* edge_to_parent: the search reaches c from p.
ParentOf(p, c) == Neighbours(p, c) /\ Depth(p) < Depth(c)

\* The column pairs of the join edge, the parent's columns first.
ColumnsOf(p, c) == IF <<p, c>> \in mst_edges THEN edges[p, c] ELSE SwapSides(edges[c, p])

\* The tree is complete, or no edge leaves it.  There is no rooted tree when no
\* table is estimated to have a row.
BuildRootedTree ==
    /\ stage = "tree"
    /\ mst_nodes = Tables \/ Crossing = {}
    /\ edges' = [e \in Tables \X Tables |->
                    IF card[root] > 0 /\ ParentOf(e[1], e[2]) THEN ColumnsOf(e[1], e[2])
                    ELSE << >>]
    /\ level' = [t \in Tables |-> Depth(t)]
    /\ todo' = LevelledEdges(edges', level')
    /\ stage' = "forward"
    /\ UNCHANGED <<classes, card, forward_filter_ops, backward_filter_ops,
                   equiv_class_bf_source, sequence, placement, heuristic, treevars>>

\* The children of one level are taken by ascending cardinality.
SmallestFirst(e) ==
    \A o \in todo : level[o[2]] = level[e[2]] => card[e[2]] <= card[o[2]]

ForwardTreeEdge ==
    /\ stage = "forward"
    /\ \E e \in todo : /\ \A o \in todo : level[o[2]] <= level[e[2]]
                       /\ SmallestFirst(e)
                       /\ AddForward(e[1], e[2])

BackwardTreeEdge ==
    /\ stage = "backward"
    /\ \E e \in todo : /\ \A o \in todo : level[e[2]] <= level[o[2]]
                       /\ SmallestFirst(e)
                       /\ AddBackward(e[1], e[2])
                       /\ todo' = todo \ {e}
    /\ UNCHANGED <<edges, classes, level, card, forward_filter_ops,
                   equiv_class_bf_source, stage>>

GenerateStageModifications ==
    /\ step = "generate"
    /\ ForwardTreeEdge \/ EndForward \/ BackwardTreeEdge \/ EndBackward
    /\ step' = IF stage' = "done" THEN "apply" ELSE step
    /\ UNCHANGED <<pass_mode, gets, stacks, related_create, passthrough, pushdown_targets,
                   heuristic, treevars>>

PlaceOperators ==
    /\ ApplyStageModifications \/ LinkProbeFilterToCreateFilter \/ SetupDynamicFilterPushdown
    /\ UNCHANGED <<heuristic, treevars>>

HNext ==
    \/ heuristic = "join_order" /\ Generate /\ UNCHANGED <<heuristic, treevars>>
    \/ heuristic = "largest_root" /\ (GrowTree \/ BuildRootedTree \/ GenerateStageModifications)
    \/ PlaceOperators

HSpec == HInit /\ [][HNext]_hvars

-----------------------------------------------------------------------------

\* The rooted tree reaches every table the largest one is joined with, over any
\* number of joins, and none is met twice: the root has no parent, every other
\* table of the tree has one, a level above it, and no edge leaves the tree
\* (robust_optimizer.cpp:216-377).  There is no tree without a table that is
\* estimated to have a row.
LargestIsOnlyRoot ==
    (heuristic = "largest_root" /\ stage # "tree" /\ card[root] > 0) =>
        /\ \A t \in Tables : card[t] <= card[root]
        /\ Parents(edges, root) = {}
        /\ \A t \in mst_nodes \ {root} :
            /\ Cardinality(Parents(edges, t)) = 1
            /\ \A p \in Parents(edges, t) : level[t] = level[p] + 1
        /\ Connected(edges, mst_nodes)
        /\ \A t \in Tables \ mst_nodes : level[t] = -1

=============================================================================
