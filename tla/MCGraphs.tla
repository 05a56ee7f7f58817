------------------------------ MODULE MCGraphs ------------------------------
(***************************************************************************)
(* Inputs for the modules that start from a finished transfer graph.       *)
(* Acyclic graphs on every order of the tables are covered by relabelling, *)
(* so edges go from higher to lower tables.  The classes are the finest    *)
(* that equate the pairs of the edges, as for a plan without derived       *)
(* columns.                                                                *)
(***************************************************************************)
EXTENDS TransferGraph, FiniteSetsExt, SequencesExt

DownwardPairs == {e \in Tables \X Tables : e[1] > e[2]}

GraphOf(E, cols) ==
    [e \in Tables \X Tables |-> IF e \in E THEN cols[e] ELSE << >>]

Merged(partition, a, b) ==
    LET ca == CHOOSE k \in partition : a \in k
        cb == CHOOSE k \in partition : b \in k
    IN  (partition \ {ca, cb}) \cup {ca \cup cb}

EquatedBy(g) ==
    UNION {{<<<<e[1], q[1]>>, <<e[2], q[2]>>>> : q \in ToSet(g[e])} : e \in DOMAIN g}

FinestClasses(g) ==
    FoldSet(LAMBDA pair, partition : Merged(partition, pair[1], pair[2]),
            {{k} : k \in Tables \X Columns}, EquatedBy(g))

WithClasses(graphs) == {[edges |-> g, classes |-> FinestClasses(g)] : g \in graphs}

\* Column 0 is the key of each table.  A parent joins a child's key with its
\* own key or with a foreign key, its column 1: classes run through several
\* tables, a table is in two of them, and it builds filters in both passes.
ForeignKeyInputs ==
    WithClasses(UNION {{GraphOf(E, cols) : cols \in [E -> {<< <<0, 0>> >>, << <<1, 0>> >>}]} :
                        E \in SUBSET DownwardPairs})

\* Every join adds a table to those joined before, so its edges form a tree, or a
\* forest when there are cross products.
Forest(E) ==
    \A S \in (SUBSET E) \ {{}} : Cardinality(S) < Cardinality({e[1] : e \in S} \cup {e[2] : e \in S})

JoinTreeInputs ==
    WithClasses(UNION {{GraphOf(E, cols) : cols \in [E -> {<< <<0, 0>> >>, << <<1, 0>> >>}]} :
                        E \in {D \in SUBSET DownwardPairs :
                                Forest(D) /\ Cardinality(D) >= NumTables - 2}})

\* The last table joins every other one on one column or on two different ones.
MultiColumnInputs ==
    LET E == {e \in DownwardPairs : e[1] = NumTables - 1}
        TwoPairs == {qr \in ColPair \X ColPair :
                        qr[1][1] # qr[2][1] /\ qr[1][2] # qr[2][2]}
    IN  WithClasses({GraphOf(E, cols) : cols \in [E -> {<<q>> : q \in ColPair} \cup TwoPairs]})

\* One table with several parents, each joined on a column of its own.
SharedChildInputs ==
    WithClasses({GraphOf(E, [e \in E |-> << <<0, e[1] - 1>> >>]) :
                    E \in SUBSET {e \in DownwardPairs : e[2] = 0}})
=============================================================================
