------------------------------ MODULE RootFlip ------------------------------
(***************************************************************************)
(* FlipRootsToLeaves: every root of the transfer graph but the one with    *)
(* the largest cardinality (the anchor) is turned into a leaf by reversing *)
(* the edges to its children; that may make new roots, so the nodes are    *)
(* visited in rounds until a whole round reverses nothing.                 *)
(***************************************************************************)
EXTENDS TransferGraph

CONSTANTS
    StartGraphs,      \* the graphs a behaviour may start from
    Cardinalities     \* the values estimated_cardinality may take

ASSUME StartGraphsAssumption == \A g \in StartGraphs : g \in Graph /\ Acyclic(g)
ASSUME CardinalitiesAssumption == Cardinalities \subseteq Nat

VARIABLES
    edges,      \* the graph
    node_map,   \* its nodes: the first dfs indices (all_nodes is in that order)
    card,       \* estimated_cardinality of each table
    anchor,     \* the root that stays one
    cursor,     \* position in all_nodes
    flipped,    \* whether this round has reversed a root
    phase       \* "start", "round" or "done"

vars == <<edges, node_map, card, anchor, cursor, flipped, phase>>

-----------------------------------------------------------------------------

\* Mutant of ReverseEdges: the edges to the children stay.
AddReversedEdges(g, n) ==
    [e \in Tables \X Tables |->
        IF e[2] = n /\ Linked(g, n, e[1]) THEN SwapSides(g[n, e[1]]) ELSE g[e]]

\* Mutant of ReverseEdges: the column pairs are moved as they are.
ReverseWithoutSwap(g, n) ==
    [e \in Tables \X Tables |->
        IF e[1] = n THEN << >>
        ELSE IF e[2] = n /\ Linked(g, n, e[1]) THEN g[n, e[1]]
        ELSE g[e]]

\* All edges of root n reversed, with the two sides of their column pairs
\* exchanged: the children of n become its parents.
ReverseEdges(g, n) ==
    [e \in Tables \X Tables |->
        IF e[1] = n THEN << >>
        ELSE IF e[2] = n /\ Linked(g, n, e[1]) THEN SwapSides(g[n, e[1]])
        ELSE g[e]]

\* Mutant of LargestRoot: a search that starts from the smallest estimate and
\* ends past the last table when no root exceeds it.
RootAboveOne ==
    LET larger == {r \in Roots(edges, node_map) : card[r] > 1}
    IN  IF larger = {} THEN NumTables ELSE CHOOSE r \in larger : TRUE

\* Of several roots with the largest cardinality the first in all_nodes wins.
LargestRoot ==
    CHOOSE r \in Roots(edges, node_map) : \A o \in Roots(edges, node_map) :
        card[r] > card[o] \/ (card[r] = card[o] /\ r <= o)

Init ==
    /\ edges \in StartGraphs
    /\ node_map = Tables
    /\ card \in [Tables -> Cardinalities]
    /\ anchor = 0
    /\ cursor = 0
    /\ flipped = FALSE
    /\ phase = "start"

\* Steps 1 and 2: with at most one root there is nothing to flip.
FindAnchor ==
    /\ phase = "start"
    /\ IF Cardinality(Roots(edges, node_map)) <= 1
       THEN /\ phase' = "done"
            /\ UNCHANGED anchor
       ELSE /\ phase' = "round"
            /\ anchor' = LargestRoot
    /\ UNCHANGED <<edges, node_map, card, cursor, flipped>>

\* Mutant of Flippable: the anchor is not spared.
AnyRoot(n) == Parents(edges, n) = {}

Flippable(n) == Parents(edges, n) = {} /\ n # anchor

\* One iteration of the loop over all_nodes.
SkipNode ==
    /\ phase = "round"
    /\ cursor \in node_map
    /\ ~ Flippable(cursor)
    /\ cursor' = cursor + 1
    /\ UNCHANGED <<edges, node_map, card, anchor, flipped, phase>>

\* A root without children is "flipped" as well: no edge changes, but the
\* round counts as one that reversed something.
FlipNode ==
    /\ phase = "round"
    /\ cursor \in node_map
    /\ Flippable(cursor)
    /\ edges' = ReverseEdges(edges, cursor)
    /\ flipped' = TRUE
    /\ cursor' = cursor + 1
    /\ UNCHANGED <<node_map, card, anchor, phase>>

\* Mutant of EndRound: the next round takes over the last one's outcome.
EndRoundKeepsFlipped ==
    /\ phase = "round"
    /\ cursor \notin node_map
    /\ IF flipped
       THEN cursor' = 0 /\ UNCHANGED phase
       ELSE phase' = "done" /\ UNCHANGED cursor
    /\ UNCHANGED <<edges, node_map, card, anchor, flipped>>

\* The end of a round: another one if this one flipped a root.
EndRound ==
    /\ phase = "round"
    /\ cursor \notin node_map
    /\ IF flipped
       THEN /\ cursor' = 0
            /\ flipped' = FALSE
            /\ UNCHANGED phase
       ELSE /\ phase' = "done"
            /\ UNCHANGED <<cursor, flipped>>
    /\ UNCHANGED <<edges, node_map, card, anchor>>

Next == FindAnchor \/ SkipNode \/ FlipNode \/ EndRound

\* The procedure is a sequential loop: it keeps running.
Spec == Init /\ [][Next]_vars /\ WF_vars(Next)

-----------------------------------------------------------------------------

TypeOK ==
    /\ edges \in Graph
    /\ node_map \subseteq Tables
    /\ card \in [Tables -> Cardinalities]
    /\ anchor \in Tables
    /\ cursor \in 0 .. NumTables
    /\ flipped \in BOOLEAN
    /\ phase \in {"start", "round", "done"}

\* Reversing a root never closes a cycle, in whatever order roots are met: the
\* levels computed afterwards exist (robust_optimizer.cpp:738-782).
StaysAcyclic == phase # "start" => Acyclic(edges)

\* The anchor is never reversed, and when the procedure ends it is the only
\* root left, unless there was nothing to choose from
\* (robust_optimizer.cpp:738-739, "until only anchor remains").
OnlyAnchorRemains ==
    /\ phase = "round" => Parents(edges, anchor) = {}
    /\ phase = "done" => \/ Cardinality(Roots(edges, node_map)) <= 1
                         \/ Roots(edges, node_map) = {anchor}

\* The join conditions between a and b, seen from a, whichever is the parent.
JoinColumns(g, a, b) == {g[a, b], SwapSides(g[b, a])} \ {<< >>}

\* Flipping changes who filters whom, never which columns are joined.
JoinColumnsKept ==
    [][\A a, b \in Tables : JoinColumns(edges, a, b)' = JoinColumns(edges, a, b)]_vars

=============================================================================
