---------------------------- MODULE TransferGraph ----------------------------
(***************************************************************************)
(* The transfer graph that the "join_order" heuristic derives from the    *)
(* join plan: one node per scanned base table, one edge per pair of joined *)
(* tables, from a parent (executed later) to a child (executed earlier).   *)
(*                                                                         *)
(* A table is named by its dfs_index, the order in which the build-first   *)
(* walk of PhysicalDAGDFS meets it.  The parents, children and             *)
(* edges_to_parents vectors of all nodes are one function: edges[p, c] is  *)
(* the list of column pairs <<column of p, column of c>> of the edge from  *)
(* p to c, and it is empty when there is no such edge.  already_linked     *)
(* makes at most one edge per ordered pair of tables.                      *)
(***************************************************************************)
EXTENDS Integers, Sequences, FiniteSets

CONSTANTS
    NumTables,    \* number of base tables the walk can meet
    Columns       \* column indices a table may have

ASSUME NumTablesAssumption == NumTables \in Nat \ {0}
ASSUME ColumnsAssumption == Columns \subseteq Nat

Tables  == 0 .. NumTables - 1
ColPair == Columns \X Columns
Graph   == [Tables \X Tables -> Seq(ColPair)]

NoEdges == [e \in Tables \X Tables |-> << >>]

-----------------------------------------------------------------------------

Linked(g, p, c) == g[p, c] # << >>

Parents(g, n)  == {p \in Tables : Linked(g, p, n)}
Children(g, n) == {c \in Tables : Linked(g, n, c)}

\* The parentless nodes among `nodes`.
Roots(g, nodes) == {n \in nodes : Parents(g, n) = {}}

\* No edge cycle: every set of tables has a member with no parent in the set.
Acyclic(g) ==
    \A S \in (SUBSET Tables) \ {{}} : \E n \in S : Parents(g, n) \cap S = {}

\* Every two parts of `nodes` are joined by some edge.
Connected(g, nodes) ==
    \A S \in (SUBSET nodes) \ {{}, nodes} :
        \E n \in S, m \in nodes \ S : Linked(g, n, m) \/ Linked(g, m, n)

\* Reversing an edge exchanges the two sides of each of its column pairs.
SwapSides(pairs) == [i \in DOMAIN pairs |-> <<pairs[i][2], pairs[i][1]>>]

\* The nodes above which there is a path of k edges, for k up to the number of
\* tables; a path that long runs through a cycle.
Below(g) ==
    LET at[k \in 0 .. NumTables] ==
            IF k = 0 THEN Tables
                     ELSE {n \in Tables : Parents(g, n) \cap at[k - 1] # {}}
    IN  at

\* The level of a node: the longest path from a root down to it, and -1 for a
\* node on a cycle or below one, which the level loop never reaches.
Level(g, n) ==
    LET below == Below(g)
    IN  IF n \in below[NumTables] THEN -1
        ELSE CHOOSE k \in 0 .. NumTables - 1 :
                n \in below[k] /\ n \notin below[k + 1]

\* The join of tables with rows d on the columns that are equated: one row of each
\* table, with equal values in all columns of a class.
JoinOf(d, equated) ==
    {f \in [Tables -> UNION {d[t] : t \in Tables}] :
        /\ \A t \in Tables : f[t] \in d[t]
        /\ \A class \in equated : \A a, b \in class : f[a[1]][a[2]] = f[b[1]][b[2]]}

=============================================================================
