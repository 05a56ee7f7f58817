--------------------------- MODULE TransferPlanner ---------------------------
(***************************************************************************)
(* RobustOptimizerContextState::Optimize with the "join_order" heuristic:  *)
(* the walk over the join plan, the flip of the roots, the levels, the two *)
(* passes and the placement of their operators, one after the other on the *)
(* graph the plan really gives.  Each part is the module that models it;   *)
(* this one extends the walk, whose actions are its first step.            *)
(***************************************************************************)
EXTENDS PlanWalk

CONSTANTS
    Cardinalities, PassModes, GetSets                \* see FilterPlacement

ASSUME CardinalitiesAssumption == Cardinalities \subseteq Nat /\ Cardinalities # {}
ASSUME PassModesAssumption == PassModes \subseteq {"both", "forward_only"}
ASSUME GetSetsAssumption == GetSets \subseteq SUBSET Tables

VARIABLES
    card, anchor, cursor, flipped, phase,                      \* RootFlip
    level, todo, forward_filter_ops, backward_filter_ops,      \* TransferStages
    equiv_class_bf_source, sequence, stage,
    pass_mode, gets, stacks, related_create, passthrough,      \* FilterPlacement
    pushdown_targets, step,
    flip_roots,      \* the robust_flip_roots setting
    pc               \* "walk", "flip", "levels", "place", or "unchanged": no transfer

Flip == INSTANCE RootFlip WITH StartGraphs <- {}
Place == INSTANCE FilterPlacement WITH Inputs <- {}

walkvars  == <<plans, join, conditions, join_edges, preserved>>
flipvars  == <<anchor, cursor, flipped, phase>>
stagevars == <<level, todo, forward_filter_ops, backward_filter_ops,
               equiv_class_bf_source, sequence, stage>>
placevars == <<stacks, related_create, passthrough, pushdown_targets, step>>
settings  == <<card, flip_roots, pass_mode, gets>>
optvars   == <<edges, node_map, classes, walkvars, flipvars, stagevars, placevars,
               settings, pc>>

-----------------------------------------------------------------------------

OptInit ==
    /\ Init
    /\ card = [t \in Tables |-> CHOOSE c \in Cardinalities : TRUE]
    /\ anchor = 0 /\ cursor = 0 /\ flipped = FALSE /\ phase = "start"
    /\ level = [t \in Tables |-> 0] /\ todo = {}
    /\ forward_filter_ops = [t \in Tables |-> << >>]
    /\ backward_filter_ops = [t \in Tables |-> << >>]
    /\ equiv_class_bf_source = {} /\ sequence = 0 /\ stage = "forward"
    /\ pass_mode \in PassModes
    /\ gets \in GetSets
    /\ stacks = [t \in Tables |-> << >>]
    /\ related_create = << >> /\ passthrough = {} /\ pushdown_targets = << >>
    /\ step = "generate"
    /\ flip_roots \in BOOLEAN
    /\ pc = "walk"

WalkStep ==
    /\ pc = "walk"
    /\ Next
    /\ UNCHANGED <<flipvars, stagevars, placevars, settings, pc>>

\* The whole plan has been walked.  With at most one join edge Optimize returns
\* before it builds the graph.  The locals of the walk go out of scope, and the
\* estimates of the tables, which nothing has read so far, are chosen.
EndWalk ==
    /\ pc = "walk"
    /\ join = NoJoin
    /\ Len(plans) = 1
    /\ pc' = IF join_edges <= 1 THEN "unchanged"
             ELSE IF flip_roots THEN "flip" ELSE "levels"
    /\ IF join_edges <= 1 THEN UNCHANGED card ELSE card' \in [Tables -> Cardinalities]
    /\ plans' = << >>
    /\ conditions' = 0
    /\ join_edges' = 0
    /\ UNCHANGED <<edges, node_map, classes, join, preserved, flipvars, stagevars,
                   placevars, flip_roots, pass_mode, gets>>

FlipStep ==
    /\ pc = "flip"
    /\ Flip!Next
    /\ pc' = IF phase' = "done" THEN "levels" ELSE pc
    /\ UNCHANGED <<classes, walkvars, stagevars, placevars, flip_roots, pass_mode, gets>>

\* The level loop, and the grouping by level that starts the two passes.
ComputeLevels ==
    /\ pc = "levels"
    /\ level' = [n \in Tables |-> Level(edges, n)]
    /\ todo' = Place!LevelledEdges(edges, level')
    /\ pc' = "place"
    /\ UNCHANGED <<edges, node_map, classes, walkvars, flipvars, forward_filter_ops,
                   backward_filter_ops, equiv_class_bf_source, sequence, stage,
                   placevars, settings>>

PlaceStep ==
    /\ pc = "place"
    /\ Place!PNext
    /\ UNCHANGED <<node_map, walkvars, flipvars, flip_roots, pc>>

OptNext == WalkStep \/ EndWalk \/ FlipStep \/ ComputeLevels \/ PlaceStep

\* The optimizer runs on one thread and does not pause once it has its graph.
OptSpec ==
    OptInit /\ [][OptNext]_optvars
            /\ WF_optvars(FlipStep \/ ComputeLevels \/ PlaceStep)

-----------------------------------------------------------------------------

OptTypeOK ==
    /\ TypeOK
    /\ Place!PTypeOK
    /\ cursor \in 0 .. NumTables
    /\ phase \in {"start", "round", "done"}
    /\ flip_roots \in BOOLEAN
    /\ pc \in {"walk", "flip", "levels", "place", "unchanged"}

\* Once the plan has been walked: when no equivalence class spans more than two
\* nodes, the graph is the one the comments of the walk describe, acyclic, with
\* every parent executed after its children (robust_optimizer.cpp:610-660).
WalkedPlansGiveDag ==
    (pc = "walk" /\ join = NoJoin /\ Len(plans) = 1) => NarrowClassesGiveDag

\* On any plan, cyclic graphs included: the operators that are placed are
\* linked to the filters they read, and none waits for itself.
PlacedPlanRuns == Place!EveryProbeFindsItsFilters /\ Place!NoWaitCycle

\* On any plan, flipped or not, the edges still join equal columns when the
\* operations are generated from them, and a filter of one column is probed with
\* an equal column: the equivalence resolution, the flip and the broadcast agree on
\* what a class is.
TransfersStayWithinClasses ==
    /\ EdgePairsEquated
    /\ Place!SingleKeyProbesEquated

\* Whenever the walk has given a connected acyclic graph, the operators get
\* placed; the flip is the only unbounded loop on the way.
ConnectedPlansFinish ==
    (pc = "flip" /\ Connected(edges, node_map) /\ Acyclic(edges))
        ~> (step = "planned")

\* "repeatedly flip non-anchor roots until only anchor remains"
\* (robust_optimizer.cpp:738): the flip ends for every plan.
EveryPlanFinishes == (pc = "flip") ~> (step = "planned")

\* No filter removes rows that an outer join would have kept: "Queries return
\* identical results" (README.md:16).
PreservedRowsSurvive ==
    \A pos \in Place!Probes :
        LET op == Place!Op(pos) IN <<op.probe_table, op.build_table>> \notin preserved

=============================================================================
