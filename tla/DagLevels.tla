------------------------------ MODULE DagLevels ------------------------------
(***************************************************************************)
(* The levels of the transfer graph.  BuildPhysicalPlanDAG computes them   *)
(* by sweeps over all nodes until nothing changes; FlipRootsToLeaves, if   *)
(* it is enabled and has more than one root to choose from, flips the      *)
(* roots (RootFlip) and then computes the levels again.  The walk does not *)
(* exclude cycles, so the sweeps also run on graphs that have some.        *)
(***************************************************************************)
EXTENDS RootFlip, FiniteSetsExt

CONSTANT OtherGraphs      \* further graphs, which are levelled without a flip

ASSUME OtherGraphsAssumption == OtherGraphs \subseteq Graph

VARIABLES
    flip_roots,   \* the robust_flip_roots setting
    level,        \* PhysicalDAGNode::level
    position,     \* position of the sweep in all_nodes
    changed,      \* whether this sweep has changed a level
    pc            \* "levels", "flip", "levels again", "done"

levelvars == <<level, position, changed>>
lvars == <<vars, flip_roots, levelvars, pc>>

Levelling == pc \in {"levels", "levels again"}

-----------------------------------------------------------------------------

StartLevels(g) == [n \in Tables |-> IF Parents(g, n) = {} THEN 0 ELSE -1]

LInit ==
    /\ \/ Init /\ flip_roots = TRUE
       \/ /\ edges \in OtherGraphs
          /\ node_map = Tables
          /\ card = [n \in Tables |-> CHOOSE c \in Cardinalities : TRUE]
          /\ anchor = 0 /\ cursor = 0 /\ flipped = FALSE /\ phase = "start"
          /\ flip_roots = FALSE
    /\ level = StartLevels(edges)
    /\ position = 0
    /\ changed = FALSE
    /\ pc = "levels"

\* Mutant of LevelBelowParents: below the highest parent, not below all.
BelowOneParent(n) == Min({level[p] : p \in Parents(edges, n)}) + 1

\* The level the parents of n give it, if they all have one.
LevelBelowParents(n) == Max({level[p] : p \in Parents(edges, n)}) + 1

\* Mutant of ParentsLevelled: one parent with a level is enough.
OneParentLevelled(n) == \E p \in Parents(edges, n) : level[p] >= 0

ParentsLevelled(n) == Parents(edges, n) # {} /\ \A p \in Parents(edges, n) : level[p] >= 0

VisitNode ==
    /\ Levelling
    /\ position \in Tables
    /\ IF /\ ParentsLevelled(position)
          /\ level[position] # LevelBelowParents(position)
       THEN /\ level' = [level EXCEPT ![position] = LevelBelowParents(position)]
            /\ changed' = TRUE
       ELSE UNCHANGED <<level, changed>>
    /\ position' = position + 1
    /\ UNCHANGED <<vars, flip_roots, pc>>

\* A sweep that has changed a level is followed by another one.
EndSweep ==
    /\ Levelling
    /\ position \notin Tables
    /\ position' = 0
    /\ changed' = FALSE
    /\ pc' = IF changed THEN pc
             ELSE IF pc = "levels" /\ flip_roots THEN "flip" ELSE "done"
    /\ UNCHANGED <<vars, flip_roots, level>>

\* A step of the flip.  When it has flipped roots the levels start afresh;
\* when there was at most one root they stay as they are.
FlipStep ==
    /\ pc = "flip"
    /\ Next
    /\ IF phase' # "done" THEN UNCHANGED <<level, pc>>
       ELSE IF phase = "start" THEN pc' = "done" /\ UNCHANGED level
       ELSE pc' = "levels again" /\ level' = StartLevels(edges')
    /\ UNCHANGED <<flip_roots, position, changed>>

LNext == VisitNode \/ EndSweep \/ FlipStep

\* Sequential loops: they keep running.
LSpec == LInit /\ [][LNext]_lvars /\ WF_lvars(LNext)

-----------------------------------------------------------------------------

\* In the end the levels are the longest paths from a root of the graph as it
\* is then, flipped or not, and -1 exactly on the nodes on or below a cycle,
\* which GenerateStageModificationsFromDAG then never visits
\* (robust_optimizer.cpp:685-713, 726-728, 784-812).
LevelsAreLongestPaths == pc = "done" => \A n \in Tables : level[n] = Level(edges, n)

\* The first level a node gets in a computation is its last: no sweep corrects
\* an earlier one, because a node waits until all its parents have theirs
\* (robust_optimizer.cpp:693-705).
LevelsAssignedOnce ==
    [][Levelling => \A n \in Tables : level[n] >= 0 => level'[n] = level[n]]_lvars

\* On a connected graph the rounds of the flip come to an end, although a flip
\* may undo an earlier one: the anchor's neighbours settle first, then theirs.
\* The sweeps end on every graph (robust_optimizer.cpp:689-713, 738-812).
LevelsTerminate ==
    (~ flip_roots \/ Connected(edges, node_map)) => <>(pc = "done")

=============================================================================
