--------------------------- MODULE TransferStages ---------------------------
(***************************************************************************)
(* GenerateStageModificationsFromDAG: the two passes of filter operations  *)
(* that the transfer graph asks for.  The forward pass goes from the       *)
(* deepest level up: each child builds a filter that its parents probe.    *)
(* The backward pass goes from the roots down: a filter built once per     *)
(* equivalence class is broadcast to every later table that joins on it.   *)
(***************************************************************************)
EXTENDS TransferGraph, SequencesExt

CONSTANTS
    Inputs,           \* graphs with classes, as records [edges, classes]
    Cardinalities     \* the values estimated_cardinality may take

ASSUME InputsAssumption == \A in \in Inputs : in.edges \in Graph
ASSUME CardinalitiesAssumption == Cardinalities \subseteq Nat

VARIABLES
    edges,                 \* the graph
    classes,               \* the classes of uf_parent
    level,                 \* PhysicalDAGNode::level, as the level loop left it
    card,                  \* estimated_cardinality of each table
    todo,                  \* edges the current pass has not processed
    forward_filter_ops,    \* per table, the operations above its scan
    backward_filter_ops,   \* per table, the operations above those
    equiv_class_bf_source, \* set of [class, table, index, columns]
    sequence,              \* the next sequence number
    stage                  \* "forward", "backward", "done"

vars == <<edges, classes, level, card, todo, forward_filter_ops, backward_filter_ops,
          equiv_class_bf_source, sequence, stage>>

-----------------------------------------------------------------------------

ClassOf(key) == CHOOSE class \in classes : key \in class

\* Mutant of ParentCols: the child's column indices.
ParentColsOfChild(p, c) == [i \in DOMAIN edges[p, c] |-> <<p, edges[p, c][i][2]>>]

\* edge.parent_cols and edge.child_cols
ParentCols(p, c) == [i \in DOMAIN edges[p, c] |-> <<p, edges[p, c][i][1]>>]
ChildCols(p, c)  == [i \in DOMAIN edges[p, c] |-> <<c, edges[p, c][i][2]>>]

\* A FilterOperation: a filter of build_columns, built on one table (create) or
\* probed with probe_columns on another.
CreateOp(build, bcols, probe, pcols, forward, seq) ==
    [is_create |-> TRUE, build_table |-> build, build_columns |-> bcols,
     probe_table |-> probe, probe_columns |-> pcols, forward |-> forward, seq |-> seq]

\* Mutant of ProbeOp: the two tables change places.
TurnedProbeOp(build, bcols, probe, pcols, forward, seq) ==
    [CreateOp(probe, pcols, build, bcols, forward, seq) EXCEPT !.is_create = FALSE]

ProbeOp(build, bcols, probe, pcols, forward, seq) ==
    [CreateOp(build, bcols, probe, pcols, forward, seq) EXCEPT !.is_create = FALSE]

\* The edges the level loops reach: the nodes on or below a cycle have level -1.
LevelledEdges(g, lev) ==
    {e \in Tables \X Tables : Linked(g, e[1], e[2]) /\ lev[e[2]] >= 1}

ChildrenTodo == {e[2] : e \in todo}

\* Nodes of one level are visited in the order of all_nodes.
HighestChild ==
    CHOOSE c \in ChildrenTodo : \A o \in ChildrenTodo :
        \/ level[c] < level[o]
        \/ level[c] = level[o] /\ c <= o

DeepestChild ==
    CHOOSE c \in ChildrenTodo : \A o \in ChildrenTodo :
        \/ level[c] > level[o]
        \/ level[c] = level[o] /\ c <= o

Init ==
    /\ \E in \in Inputs :
        /\ edges = in.edges
        /\ classes = in.classes
        /\ level = [n \in Tables |-> Level(in.edges, n)]
        /\ todo = LevelledEdges(in.edges, level)
    /\ card \in [Tables -> Cardinalities]
    /\ forward_filter_ops = [t \in Tables |-> << >>]
    /\ backward_filter_ops = [t \in Tables |-> << >>]
    /\ equiv_class_bf_source = {}
    /\ sequence = 0
    /\ stage = "forward"

\* One iteration of the forward loop: the child creates, the parent probes.
AddForward(p, c) ==
    LET bcols == ChildCols(p, c)
        pcols == ParentCols(p, c)
    IN  /\ forward_filter_ops' = [forward_filter_ops EXCEPT
                ![c] = Append(@, CreateOp(c, bcols, p, pcols, TRUE, sequence)),
                ![p] = Append(@, ProbeOp(c, bcols, p, pcols, TRUE, sequence + 1))]
        /\ todo' = todo \ {<<p, c>>}
        /\ sequence' = sequence + 2
        /\ UNCHANGED <<edges, classes, level, card, backward_filter_ops,
                       equiv_class_bf_source, stage>>

\* edges_to_parents is in the order the edges were made, which is not tracked.
ForwardEdge ==
    /\ stage = "forward"
    /\ todo # {}
    /\ \E p \in {q \in Tables : <<q, DeepestChild>> \in todo} : AddForward(p, DeepestChild)

\* Mutant of EndForward: the loop over the levels stops before the last one.
EndForwardShort ==
    /\ stage = "forward"
    /\ todo = {}
    /\ stage' = "backward"
    /\ todo' = {e \in LevelledEdges(edges, level) : \E n \in Tables : level[e[2]] < level[n]}
    /\ UNCHANGED <<edges, classes, level, card, forward_filter_ops, backward_filter_ops,
                   equiv_class_bf_source, sequence>>

EndForward ==
    /\ stage = "forward"
    /\ todo = {}
    /\ stage' = "backward"
    /\ todo' = LevelledEdges(edges, level)
    /\ UNCHANGED <<edges, classes, level, card, forward_filter_ops, backward_filter_ops,
                   equiv_class_bf_source, sequence>>

\* The edges of one child are taken by ascending cardinality of the parent;
\* the sort leaves the order of equal parents open.
NextBackward(e) ==
    /\ e \in todo
    /\ e[2] = HighestChild
    /\ \A o \in todo : o[2] = e[2] => card[e[1]] <= card[o[1]]

\* The source of an earlier edge of the class, if there is one.  The class of
\* an edge is that of the parent's column in its first pair.
SourcesFor(e) ==
    {s \in equiv_class_bf_source : s.class = ClassOf(ParentCols(e[1], e[2])[1])}

\* The class has a filter already: its create operation also gets the columns
\* of this child, each with the build column at the same position (the last
\* one, past the end), and the child probes it.
Broadcast(e, source) ==
    LET pcols   == ChildCols(e[1], e[2])
        size    == Len(source.columns)
        matched == [i \in DOMAIN pcols |-> source.columns[IF i <= size THEN i ELSE size]]
        use     == ProbeOp(source.table, source.columns, e[2], pcols, FALSE, sequence)
        widened == [backward_filter_ops EXCEPT
                        ![source.table][source.index].probe_columns = @ \o pcols,
                        ![source.table][source.index].build_columns = @ \o matched]
    IN  /\ backward_filter_ops' = [widened EXCEPT ![e[2]] = Append(@, use)]
        /\ sequence' = sequence + 1
        /\ UNCHANGED equiv_class_bf_source

\* The parent creates, the child probes.
AddBackward(p, c) ==
    LET bcols == ParentCols(p, c)
        pcols == ChildCols(p, c)
    IN  /\ backward_filter_ops' = [backward_filter_ops EXCEPT
                ![p] = Append(@, CreateOp(p, bcols, c, pcols, FALSE, sequence)),
                ![c] = Append(@, ProbeOp(p, bcols, c, pcols, FALSE, sequence + 1))]
        /\ sequence' = sequence + 2

\* The first edge of its class is the source of the class.
NewSource(e) ==
    LET bcols == ParentCols(e[1], e[2])
    IN  /\ AddBackward(e[1], e[2])
        /\ equiv_class_bf_source' = equiv_class_bf_source \cup
                {[class |-> ClassOf(bcols[1]), table |-> e[1], columns |-> bcols,
                  index |-> Len(backward_filter_ops[e[1]]) + 1]}

BackwardEdge ==
    /\ stage = "backward"
    /\ \E e \in todo :
        /\ NextBackward(e)
        /\ IF SourcesFor(e) = {} THEN NewSource(e)
           ELSE \E source \in SourcesFor(e) : Broadcast(e, source)
        /\ todo' = todo \ {e}
    /\ UNCHANGED <<edges, classes, level, card, forward_filter_ops, stage>>

EndBackward ==
    /\ stage = "backward"
    /\ todo = {}
    /\ stage' = "done"
    /\ UNCHANGED <<edges, classes, level, card, todo, forward_filter_ops, backward_filter_ops,
                   equiv_class_bf_source, sequence>>

Next == ForwardEdge \/ EndForward \/ BackwardEdge \/ EndBackward

Spec == Init /\ [][Next]_vars

-----------------------------------------------------------------------------

FilterOp ==
    [is_create : BOOLEAN, build_table : Tables, probe_table : Tables,
     build_columns : Seq(Tables \X Columns), probe_columns : Seq(Tables \X Columns),
     forward : BOOLEAN, seq : Nat]

TypeOK ==
    /\ edges \in Graph
    /\ level \in [Tables -> -1 .. NumTables - 1]
    /\ card \in [Tables -> Cardinalities]
    /\ todo \subseteq Tables \X Tables
    /\ \A t \in Tables : /\ forward_filter_ops[t] \in Seq(FilterOp)
                         /\ backward_filter_ops[t] \in Seq(FilterOp)
    /\ sequence \in Nat
    /\ stage \in {"forward", "backward", "done"}

Equated(a, b) == ClassOf(a) = ClassOf(b)

OpsOf(ops) == UNION {ToSet(ops[t]) : t \in Tables}

\* Each pass is a full semi-join reduction.  On its own table's stack every
\* probe comes before the first create, in both passes, so that a filter is
\* built from rows that all filters arriving in that pass have reduced
\* (robust_optimizer.cpp:1041-1069 and 1085-1160).
ProbesBeforeCreates ==
    \A t \in Tables : \A ops \in {forward_filter_ops[t], backward_filter_ops[t]} :
        \A i, j \in DOMAIN ops : (ops[i].is_create /\ ~ ops[j].is_create) => j < i

\* Every edge of the graph reduces both its tables: when the passes are done
\* the parent has probed a filter of the child, and the child a filter of the
\* class of the edge, which need not have been built by that parent.
EdgesReduceBothSides ==
    stage = "done" => \A e \in LevelledEdges(edges, level) :
        /\ \E i \in DOMAIN forward_filter_ops[e[1]] :
            LET op == forward_filter_ops[e[1]][i] IN
                /\ ~ op.is_create
                /\ op.build_table = e[2]
        /\ \E i \in DOMAIN backward_filter_ops[e[2]] :
            LET op == backward_filter_ops[e[2]][i] IN
                /\ ~ op.is_create
                /\ Equated(op.build_columns[1], ParentCols(e[1], e[2])[1])

\* A forward filter travels up and a backward filter travels down the levels of
\* the graph, broadcasts included: with ProbesBeforeCreates, no two tables wait
\* for each other's filters within a pass.
FiltersFollowLevels ==
    /\ \A op \in OpsOf(forward_filter_ops) :
        level[op.probe_table] < level[op.build_table]
    /\ \A op \in OpsOf(backward_filter_ops) :
        ~ op.is_create => level[op.build_table] < level[op.probe_table]

\* What a probe does with its columns: the filter of each build column is looked
\* up with the probe column at the same position, which must exist and be equal.
ProbesComparable(op) ==
    \A i \in DOMAIN op.build_columns :
        /\ i \in DOMAIN op.probe_columns
        /\ Equated(op.build_columns[i], op.probe_columns[i])

\* A probe of a filter of one column tests an equal column with it, whichever
\* edge of the class the filter was built for.
SingleKeyProbesEquated ==
    \A op \in OpsOf(forward_filter_ops) \cup OpsOf(backward_filter_ops) :
        Len(op.build_columns) = 1 /\ ~ op.is_create => ProbesComparable(op)

\* Every probe of both passes compares equal columns: the filter removes only
\* rows that cannot join.  A broadcast gives tables that "all join on the same
\* key" the one filter (README.md:194).
ProbePairsEquated ==
    \A op \in OpsOf(forward_filter_ops) \cup OpsOf(backward_filter_ops) :
        ~ op.is_create => ProbesComparable(op)

=============================================================================
