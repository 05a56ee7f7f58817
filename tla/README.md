# Verification of Robust: predicate transfer in TLA+

Robust is a DuckDB extension.  Its optimizer rewrites the plan of a multi-join
query so that every table builds filters on its join keys and is reduced by the
filters of its neighbours; its two physical operators, CREATE_FILTER and
PROBE_FILTER, do that at run time on all threads of the query.  This directory
holds TLA+ modules translated from the source under `src/`, TLC configurations
that check them on small instances, and TLAPS proofs for arbitrary ones.  Paths
below are relative to the extension's own `src/` directory (`optimizer/...`,
`operators/...`).

The claim behind everything is that of the extension's README: *"Queries return
identical results - they just touch dramatically fewer rows"*.  It splits into:
a filter may remove only rows that cannot join; a plan that is rewritten must
still be executable (no cyclic waits, no unresolved column); what one operator
takes in it must hand on; the optimizer must end.

## 1. Inventory

| component | state | operations | talks to |
|---|---|---|---|
| **plan walk** `PhysicalDAGDFS` (robust_optimizer.cpp:497-683) | nodes, edges with column pairs, union-find of columns | visit leaf, join, condition | reads the plan; graph goes to flip, levels, stages |
| **root flip** `FlipRootsToLeaves` (718-782) | the graph, the anchor | rounds of edge reversals | between walk and levels |
| **levels** (685-713, 784-812) | `level` per node | sweeps until nothing changes | decides the order of both passes |
| **stages** `GenerateStageModificationsFromDAG` (1000-1165) | two lists of `FilterOperation` per table, one backward source per class | forward pass, backward pass, broadcast | operations go to placement |
| **placement** `BuildStackedBFOperators`, `ApplyStageModifications`, `LinkProbeFilterToCreateFilter`, `SetupDynamicFilterPushdown` (1167-1508) | the plan, links, pushdown targets, passthrough flags | merge, stack, link, set up pushdown | decides what CREATE and PROBE do at run time |
| **lift passes** (1510-1584) | the plan | move a MARK join or a FILTER below a stack of filter operators | between placement and linking |
| **driver** `Optimize` (1596-1692) | the settings | the sequence of the above | called by DuckDB |
| **CREATE_FILTER sink** (physical_create_filter.cpp:88-531) | per thread: rows, bounds, distinct values; shared: collections, statistics, bloom filter, probe-empty flag | Sink, Combine, Finalize | many threads; pushes filters into scans; flag shared with siblings |
| **CREATE_FILTER source** (553-669) | partitions of chunks, atomic counter | GetGlobalSourceState, GetData | tasks of the pipeline above |
| **PROBE_FILTER** (physical_probe_filter.cpp) | filters found on first use | Execute, BuildPipelines | reads CREATE's filters, raises the flag |
| **pipeline construction** (physical_create_filter.cpp:671-728, physical_probe_filter.cpp:211-243) | `this_pipeline` of each CREATE | BuildPipelines, BuildPipelinesFromRelated | the first caller makes a CREATE's pipeline, all depend on it |
| **bloom filter** (bloom_filter.cpp) | bits, `sized_for_rows`, `has_data`, `finalized` | Initialize, Insert, Rehash, Lookup | shared by CREATE and PROBE |
| **probe-empty registry** (probe_empty_registry.hpp) | flag per probe table | GetOrCreate, QueryEnd | all operators of a query |
| **largest_root heuristic** (robust_optimizer.cpp:216-378, 831-998) | spanning tree, rooted tree | LargestRoot, BuildRootedTree, GenerateStageModifications | alternative to walk..stages; same placement |
| **plan creation** (logical_*_filter.cpp) | the physical twin of each logical operator | CreatePlan, linking from either side | the links become pipeline dependencies |
| **rename resolution, table manager, profiling, settings, printing** | look-up tables, counters | - | - |

What makes it hard: the optimizer is sequential, but several of its loops work
on state that earlier iterations rewrote (an edge's child is *replaced* by
another table of its class, roots are flipped in rounds, a class's create
operation is widened by later edges, two parallel vectors are merged, the
second lift pass moves what the first has moved).  The run-time part is
concurrent: threads sink, combine and stop on a relaxed flag at different
moments, tasks claim partitions, and pipelines wait for each other along links
the optimizer has drawn.  A dependency, a link or a filter that is missing is
reported by nothing: the filter is skipped, and only the reduction suffers; a flag
that is up without reason stops operators of a whole query.  The hazards are listed, each at its line and with the
properties that cover it, in `PROJECT.json`.

## 2. Modules

| module | models | extends / uses |
|---|---|---|
| `TransferGraph` | the graph: tables, edges with column pairs, roots, levels, acyclicity | - |
| `PlanWalk` | the walk, union-find, equivalence resolution, join extraction | TransferGraph |
| `RootFlip` | the flip | TransferGraph |
| `DagLevels` | the level sweeps, before and after the flip | RootFlip |
| `TransferStages` | the two passes | TransferGraph |
| `FilterPlacement` | stacking, linking, pushdown setup; what linked operators find and wait for | TransferStages |
| `LargestRoot` | the largest_root heuristic, and the planner with either heuristic | FilterPlacement |
| `QueryPromise` | abstract: what a query promises whoever asks it | TransferGraph |
| `TransferExecution` | plan creation, pipelines and their execution on rows, the registry | LargestRoot; refines QueryPromise |
| `TransferPlanner` | `Optimize`: walk, flip, levels, stages, placement on one graph | PlanWalk; instances of RootFlip, FilterPlacement |
| `FilterLift` | both lift passes | - |
| `FilterPromise` | abstract: what a CREATE_FILTER promises the rest of the plan | - |
| `FilterSink` | Sink, Combine, Finalize | refines FilterPromise |
| `FilterSource` | partition claiming and reading | - |
| `TransferGraphProofs` | lemmas on the graph: cycles, levels, induction | TransferGraph |
| `RootFlipProofs` | proofs about RootFlip and DagLevels | DagLevels, TransferGraphProofs |
| `FilterPlacementProofs` | proofs about TransferStages, FilterPlacement and LargestRoot | LargestRoot, TransferGraphProofs |
| `TransferPlannerProofs` | proofs about PlanWalk and TransferPlanner | TransferPlanner; instances of FilterPlacementProofs |
| `TransferExecutionProofs` | proofs about TransferExecution, from the graph to the result | TransferExecution, FilterPlacementProofs |
| `FilterLiftProofs`, `FilterSinkProofs`, `FilterSourceProofs` | proofs | the module they are about |
| `MC*`, `MCGraphs` | instances for TLC | the module they are about |

**TransferGraph.** A table is its dfs index.  `edges[p, c]` is the list of
column pairs of the edge from parent `p` to child `c`, empty without an edge;
it stands for the `parents`, `children` and `edges_to_parents` vectors, which
the code keeps in step.  The order of a node's edges is not kept: where the code
iterates over it (ForwardEdge) the model takes every order, and where it
sorts (NextBackward) every order of equal keys.

**PlanWalk.** The recursion meets a plan in post-order, build side first, so a
plan is a sequence of VisitLeaf, EnterJoin, JoinCondition, LeaveJoin,
VisitBinary and VisitDerived, and the stack `plans` holds, for each sub-plan
walked, which tables' columns can still be named.  So TLC explores every plan,
not a list of them.  `classes` is the partition the union-find represents;
`ResolveChild` is robust_optimizer.cpp:606-633.  Simplifications: renamed
columns are already resolved; the subquery side of a MARK join, which the walk
skips, is left out altogether (joins inside it would still count as join edges
in `Optimize`); conditions are equalities between columns, the only ones the code
looks at.

**RootFlip, DagLevels.** One action per loop iteration.  DagLevels runs the
sweeps of BuildPhysicalPlanDAG, then, if the flip is enabled, that of RootFlip and
the sweeps that follow it; with the flip off it also starts from graphs with cycles,
because the walk does not exclude them.  The other modules use the result, `Level`
in TransferGraph, which LevelsAreLongestPaths justifies.

**TransferStages.** One action per edge in each pass; operations are records
with the fields of `FilterOperation`.

**FilterPlacement.** `stacks[t]` are the operators above the scan of `t`, and a
position `<<t, i>>` names one.  The four steps are atomic: each is a pure
function of the plan.  Linking searches from the top of the plan; the CREATEs of
one table all stand on one stack, so "first found" is "topmost".  `PushedFrom`,
`FoundAt` and `WaitsFor` say what the linked operators will do with columns
and pipelines (physical_create_filter.cpp:390-401, physical_probe_filter.cpp:92-111,
BuildPipelines of both).  The lift passes are not between stacking and linking
here; see section 6.

**LargestRoot.** The module describes a planner with either heuristic: `HNext`
is the generation of `join_order` (TransferStages) or of `largest_root`, followed by
the one placement both share.  Prim's algorithm adds an edge per step: the one with
most column pairs, among those the one whose smaller table is largest, and any
of those left, because the order of the joins is not tracked.  BuildRootedTree is
one step (a breadth-first search, its levels by distance), and turns the
columns of an edge that was made in the other direction.  The passes reuse the
operations of TransferStages (`AddForward`, `AddBackward`) without broadcasts.

**TransferExecution.** `exec` is where a query is: planned by LargestRoot's actions,
`"create plan"` (one CreatePlan per operator, bottom-up, the tables in any order,
each linking to the operators made before it), `"build"` (one pipeline per step;
`this_pipeline` is the CREATEs that have one), `"run"`, `"returned"`; QueryEnd clears
the registry and lets the next query in.  A pipeline is named by the position
where it ends and runs when those in `waits` have finished.  `data[t]` are the rows of
a table, functions from columns to values; a CREATE's filter on a column lets a
value pass if `hash` cannot tell it from a value the CREATE holds, so Bloom
filters have false positives.  Sink and source of a CREATE are one step, as FilterSink
and FilterSource justify, except that a CREATE whose flag is up may end with any
part of its rows (StopPipeline), and that a PROBE may raise its flag while its own and other
pipelines still run.  `Admits` translates the look-up of physical_probe_filter.cpp
with its renumbering of the filters found, which is right only when all are.  Simplifications:
a pipeline passes its rows as one set; a scan takes every filter pushed to it,
where DuckDB may suspend one that removes little; the joins above the stacks are
`JoinOf`, the inner join on the column classes.

**QueryPromise.** Ask, Answer, Close: the answer is the join of the tables as they
were when the query was asked.

**TransferPlanner.** `pc` is where `Optimize` is: it extends the walk, and its other
steps are those of RootFlip and FilterPlacement on the same `edges` and `classes`.  It has the default heuristic only.
With at most one extracted join edge it returns early (`"unchanged"`).  The estimates
are chosen when the walk is over because nothing reads them before; the levels are
one step, justified by DagLevels.

**FilterLift.** Both passes look only along first children, so a plan is a set
of spines; one is a sequence from the scan upwards.

**FilterSink.** A thread is idle, holds a chunk, has stopped, or has combined.
The load of the flag (SinkStart / SinkFinished) and the rest of Sink
(SinkIngest) are separate actions: flags may rise in between.  The load is
relaxed, so SinkStart is possible although the flag is up.  Combine is one
action because the code holds `glock`.  RaiseFlag is a PROBE_FILTER or another
CREATE_FILTER on the same probe table that finds it empty.  Rows of a chunk are a
sequence of values of the one build column; a bloom filter is the set of chunks
inserted, without false positives, and `sized_for_rows`.  Comparisons keep the
difference between C++ (false on NaN) and duckdb::Value (NaN greatest).  Column
types for which `UpdateMinMax` does nothing are left out.

**FilterSource.** One action per GetData call.  Which tasks exist is the
scheduler's choice: `tasks` is any non-empty set of at most `num_threads`.

**Mutants.** An operator whose comment begins with "Mutant of" is a plausible
bug in the definition it names.  Nothing uses it: replacing the definition by it
must break the property that `PROJECT.json` pairs it with, which shows that the
property depends on the code modelled.

## 3. Runs

All bounds are constants of the `.cfg` files.

| run | bounds | shows |
|---|---|---|
| `dag_levels` | all 64 downward graphs on 4 tables x 2 cardinalities each, flipped; all 4096 digraphs on 4 tables, not flipped | StaysAcyclic, OnlyAnchorRemains, JoinColumnsKept, LevelsAreLongestPaths, LevelsAssignedOnce, LevelsTerminate |
| `filter_placement` | 4 tables, key / foreign-key edges, both pass modes, two sets of scans; join_order on all downward graphs, largest_root on all trees and forests | ProbesBeforeCreates, EdgesReduceBothSides, FiltersFollowLevels, EveryProbeFindsItsFilters, NoWaitCycle, OneCreatePerPass, SingleParentIsPushed, LargestIsOnlyRoot |
| `transfer_planner` | all plans over 3 tables, 1 derived column set, 3 conditions, 3 join types, 2 cardinalities, flip on/off | WalkedPlansGiveDag, PlacedPlanRuns, TransfersStayWithinClasses, ConnectedPlansFinish |
| `transfer_execution` | 3 tables, key / foreign-key edges, both heuristics and passes, 2 of the tables plain scans, 4 contents per table, exact and colliding hash | PlanSound, FlagsMeanEmpty, FullyReduced, LinkedExactlyOnce, ResultKept, EveryQueryReturns |
| `filter_lift` | 16 stacks under up to 4 operators of 7 kinds | FiltersSeeFilteredRows, LocalConditionsResolve, StackOrderKept |
| `filter_sink` | 2 threads, up to 3 chunks of 5 shapes, 7 operator settings, thresholds scaled to 2 values / 16 bits / 2^3 | NoRowLost, FlagJustified, StatisticsExact, EnoughBits, KeepsPromise |
| `filter_source` | up to 4 tasks, 4 threads, 7 chunks | EmittedAtMostOnce, EmittedWhenClaimed, SourceTerminates |

Why the bounds are enough to be interesting.  Three tables are the fewest on
which an equivalence class is wider than an edge, so that resolution and
broadcast do something; four give diamonds, two roots over a shared child, and
chains in which flips expose new roots.  Two columns separate classes; three
columns are needed only where a merge of three parents is (pushdown_wrong).
After the levels, cardinalities only order a child's parents in the backward pass:
with a single cardinality every order of equal parents is taken, which includes
the sorted order of any estimates, so `filter_placement` needs no second one.
`transfer_planner` has two, for the choice of the anchor.  For
largest_root one cardinality leaves the choice of the root and of the next edge open,
so every tree is grown from every table.  In `transfer_execution`, keys and foreign
keys over two values give rows that match, dangle on one side and dangle on both;
a table may be empty, so that flags rise from a PROBE and from a CREATE without rows, and stop
operators of the other two; with the hash that tells nothing apart every filter
is useless and the result must stay the same.  Two empty tables add nothing that one
does not: the result is empty and every flag is justified.  QueryEnd leads from each
run into the next with other contents.  LEFT, RIGHT and OUTER joins act on the graph as INNER does,
so `transfer_planner` leaves them to `planner_left_join`.  In
the sink, three chunks and two threads make a thread that stops, one that goes
on and one chunk in flight possible at once; the distinct threshold of 2 is
met, exceeded locally, and exceeded only in the merge; estimates of 0, 1, 5, and
9 with a uint width of 3 bits are too low, about right and cut by the
conversion.  Seven chunks over four threads give uneven partitions, fewer
partitions than threads and none.

`CHECK_DEADLOCK FALSE` where the system stops: all modules describe procedures
that end.

Runs that end in a counterexample, each against a sentence of the repository:

| run | property | what happens |
|---|---|---|
| `broadcast_columns` | ProbePairsEquated | the class of an edge is that of its *first* column pair; the other columns are matched by position with those of another edge, so a PROBE tests unrelated columns, or has fewer columns than filters |
| `pushdown_wrong` | PushedPairsEquated | merging CREATEs keeps the first operation's probe columns twice, so build and probe columns no longer line up; with three parents a filter is pushed to a column of another join |
| `planner_hangs` | EveryPlanFinishes | with a second component or an isolated table some root stays flippable for ever |
| `planner_left_join` | PreservedRowsSurvive | the preserved side of an outer join is filtered |
| `sink_nan` | FiltersAdmitStored | the bounds pushed to the scan leave out NaN (or, with NaN first, everything else) |

Each of them has a passing counterpart that states what does hold:
TransfersStayWithinClasses (its part SingleKeyProbesEquated), SingleParentIsPushed,
ConnectedPlansFinish and LevelsTerminate, ResultKept (for inner joins), StatisticsExact
and KeepsPromise (without NaN).

Some limits of the code show only in the premises of passing properties:

- *Classes of three or more tables can close cycles* (robust_optimizer.cpp:606-633).
  The resolution of an edge's child may choose a table met later than the parent.
  WalkedPlansGiveDag is about classes of two nodes; PlacedPlanRuns and
  LevelsAreLongestPaths hold on cyclic graphs as well: the nodes on and below a
  cycle keep level -1 and get no filters.
- *A merged CREATE pushes nothing for its second parent*
  (robust_optimizer.cpp:1193-1212).  Its probe columns start with those of the first
  operation twice, so the build columns are one short, and the second parent's
  PROBE is a passthrough whose scan gets no filter.  SingleParentIsPushed is about
  tables with one parent; of two filters for a column that an edge lists twice, the scan gets the
  first only (physical_create_filter.cpp:390-401).
- *Two passes reduce completely on trees only.*  FullyReduced supposes that the edges form a tree that
  joins all tables, with one column pair each (a filter on two columns is two filters, which let a row
  pass that finds its partners in two different rows), that the pairs equate all that the classes equate,
  that the bloom filters make no mistakes, and that both passes are on.
- *A task reads one partition* (physical_create_filter.cpp:641-669).
  EmittedWhenClaimed supposes a task for every partition; with fewer, the chunks of
  the others would not leave the operator.
- *A FILTER is moved below joins* (robust_optimizer.cpp:1571-1581).
  FindDeepestCreateFilter descends through joins, so a condition on a column that a
  join on the spine provides ends up below that join.  FiltersSeeFilteredRows and
  StackOrderKept hold anyway; that the condition still finds its columns is stated
  (LocalConditionsResolve) for conditions on the scanned table and on marks.
- *A spanning-tree edge keeps the columns of all its conditions*
  (robust_optimizer.cpp:196-213), also of tables other than the two it is filed
  under.  Edges in LargestRoot have columns of their two tables.
- *`this_pipeline` is never reset* (physical_create_filter.cpp:672-696).  A
  second execution of the same physical plan would find the pipelines of the
  first.  In TransferExecution each query has operators of its own.
- *Plans are sound for some graphs only.*  `broadcast_columns` and `pushdown_wrong`
  are plans, of joins on several columns and of tables with three parents, whose
  filters test the wrong columns.  SoundInputs says which graphs these are not, from the graph
  alone: the two columns of each pair lie in one class and classes are disjoint; an edge has one column pair
  if its child has another parent or if another edge has its first pair in the same
  class; a child has at most two parents, unless it joins all of them on one class.  MCTransferExecution
  asserts SoundInputs of its inputs, so TLC evaluates the premise of the theorems.
- *A tree without a table that is estimated to have a row* (robust_optimizer.cpp:216-225).
  The search for the largest table starts from zero rows and finds none then, so LargestIsOnlyRoot supposes
  that the root has one.

A remark on names: the extension's README (line 99) sets `robust_pass_mode` to
`'forward'`, the option and the optimizer know `forward_only`
(robust_extension.cpp:65, robust_optimizer.cpp:1655); `PassModes` has the code's names.

## 4. Fairness

- RootFlip, DagLevels and the flip, level and placement steps of
  TransferPlanner: weak fairness of the whole step.  They are sequential loops of
  one thread that never blocks.  The walk in TransferPlanner has no fairness: it
  chooses the plan, and properties speak of plans once chosen.
- FilterSource: weak fairness of each task in `tasks`.  DuckDB runs a scheduled
  task until it returns FINISHED.
- TransferExecution: weak fairness of `Execute`, from the creation of the physical
  plan to the result.  DuckDB creates the plan and builds the pipelines in one thread
  that never waits, and schedules a pipeline once its dependencies are done.  No fairness
  for single pipelines is needed: a step is always one of finitely many.  Planning, and
  whether another query is asked, have none.
- FilterSink, FilterPlacement, LargestRoot, TransferStages, FilterLift: no liveness
  is claimed, no fairness assumed.

## 5. Proofs

The proofs hold for every value of the constants that meets the named
assumptions of the module.  Three arguments recur.  Induction over numbers is by the
least counterexample (SetInduction in TransferGraphProofs), because the induction rule of the
library takes a predicate as its parameter.  A cycle of waits, or of edges, is excluded by an element of least rank.  And a property of the end of a loop is put as a property of what the
loop has passed so far, with the `todo` set or the cursor as the measure of it.

**RootFlipProofs: the flip.** From StartGraphsAssumption (the start graphs are acyclic) and
CardinalitiesAssumption.  The inductive invariant is

    FlipInv == TypeOK /\ NodesInOrder /\ NoCycle /\ RoundSoFar

NoCycle (`Acyclic(edges)` in every phase) preserves itself: reversing all edges of a *root* turns it into a
leaf, and a set of tables has a parentless member iff it has one without that
leaf, or is the leaf alone (ReverseEdgesAcyclic).  OnlyAnchorRemains does not: that no
root but the anchor is left at the end is known only because the last round
passed every node without a flip.  RoundSoFar says so of the nodes the cursor has
passed, NodesInOrder that the cursor passes all of them.  JoinColumnsKept follows
from acyclicity, which excludes edges in both directions.

**RootFlipProofs: the levels.** From OtherGraphsAssumption (only that they are graphs: cycles
are allowed).  LevelsAreRight shows that the sweeps compute `Level`, the length of the longest path
from a root, on any number of tables, LevelsGivenOnce that no sweep changes a level it finds.  The
inductive invariant LevelsInv says that each level given so far is the final one (`Correct`), and that,
while a sweep has changed nothing, every node it has passed is served: it has its level, or
one of its parents has none.  When a sweep ends without a change all nodes are served, and
then the levelled nodes are exactly those that no cycle is above.  The definition of `Level`
bounds its paths by the number of tables; LevelBound shows that this loses nothing, since the nodes
below the one at the highest level already use up all tables (a pigeonhole count).

**FilterPlacementProofs.** From InputsAssumption, JoinEdgesAssumption and
GetSetsAssumption, on any graph, cyclic ones included, with either heuristic.  StageInv is
the invariant of the passes: what lists of operations look like between two edges (probes before
creates, forward filters from a higher level number to a lower one, backward filters the other way), that
the backward source of a class is a CREATE that exists, and ReducedInv, that every edge no longer
in `todo` has its probes.  ProbesBeforeCreates, FiltersFollowLevels and EdgesReduceBothSides
are read off it.  PlaceInv carries that over to the plan: on each stack the
forward operators are below the backward ones, with at most one CREATE of each, and each PROBE is
linked to a CREATE of its pass that builds its filters.  There is exactly one candidate, since the CREATE of the other pass is
for tables on the other side of its level (OneCandidate).  NoWaitCycle follows by a rank: a
forward CREATE waits only for forward CREATEs further from the roots, a backward CREATE for forward ones and for
backward CREATEs nearer to the roots.

OperatorsForEdges follows each operator back to its edge, from the passes (EdgeInv: a
forward operation has the columns of an edge, and no two CREATEs of a table are for one edge) through the merge
(StackInv: a PROBE is not changed by it, and the CREATE of a table with one parent is that operation) to
the plan.  So a forward PROBE on the only parent of a table and its CREATE have the same two lists of
columns, and the search of PushDynamicFilters, column by column, finds what the PROBE would
have used: SingleParentPushed.

TreeInv is about largest_root: the edges chosen so far are those of a
parent function that leads every table met to the root, with a depth that falls at each step; from it
the rooted tree has one parent per table, a level above it, and reaches the component.

**TransferPlannerProofs.** From the assumptions of PlanWalk and TransferPlanner, for any join plan.
PlannerInv says that `classes` is a partition, that every edge lies within its
classes (PairsTogether) whatever ResolveChild puts in place of the child, and that the walk, the
flip and the levels hand on what the next part needs (WalkClasses, BeforePlacing, Placing).
TransfersStayWithinClasses needs it for the broadcasts: the source of a class was built
for another edge of the class.  While classes are narrow, WalkClasses adds that edges go to earlier
tables and that all that is joined is linked; wider classes lose that, see section 3.
PlacedPlanRuns instantiates the invariants of FilterPlacementProofs.

**FilterLiftProofs.** From SpinesAssumption.  LiftInv has three parts: Shape (one scan, at
the bottom, and no column added twice), LocalsSee (every operator that uses only columns of the scan or marks
computed from it has these below it) and LiftedAbove (up to the cursor no CREATE is
below an operator of the kind that is lifted).  The parts need each other: a moved FILTER ends up
under operators it was above, and the marks it uses are not among them because the first pass
has put all MARK joins below the CREATEs (LiftedAbove); and no other operator loses a column by the
move, because it keeps its place among the rest.  LiftKeepsStackOrder rests on the same observation: a move
takes one operator that is no filter operator out of the spine and puts it back
further down, and the rest keep their order, so the i-th filter operator is the same before and after (the sub-sequence is
stated by ranks, without a recursive selection).

**FilterSinkProofs.** The inductive invariant is

    FlowInv == TypeOK /\ ChunksAccountedFor /\ ThreadsEnd /\ FinalizeLast
               /\ FlagJustified /\ bloom_filter.inserted = Stored

ChunksAccountedFor: unless the probe side is empty, every chunk of the input is
waiting, held by a thread, or stored.  ThreadsEnd: a thread stops early only if
the probe side is empty, and when it has combined, nothing waits or the probe side
is empty.  FinalizeLast: collections are empty after Finalize, results before it.
NoRowLost follows from the three; FlagJustified has to be in the invariant because
a thread concludes from the flag that the probe side is empty: with a chunk in
hand its own input is not, so another operator must have raised it.
SinkKeepsPromise is the refinement of FilterPromise: every
step maps to Store, Publish, Doom or a stutter.  It adds StatisticsCover (bounds and
distinct sets cover the stored keys), and assumes NaN is not a value of the column.
SinkStatisticsExact gives the other direction.  Each thread's statistics, and those merged so far, are *functions of a set*:
the bounds are BoundsOf, the distinct values DistinctOf, of the keys of the chunks they stand for.  Widening,
or merging, takes the function of two sets to that of their union, so the order of chunks and merges cannot
matter; an overflown set stays overflown because sets only grow.  SinkEnoughBits needs that some power of two is at least any
number (by induction, since 2^n > n), so that the choice in NextPowerOfTwo is of something that exists.

**FilterSourceProofs.** The inductive invariant is

    SourceInv == TypeOK /\ ClaimsDistinct /\ ClaimsTaken /\ ReadsInPartition
                 /\ EmittedOnceRead

and the arithmetic lemmas say that partitions are disjoint and cover the chunks.
EmittedWhenClaimed counts: as many distinct claims as tasks, all below
`partition_id`, hence every partition claimed and, all tasks being finished, read.

**TransferExecutionProofs.** From ExecutionsAssumption (rows are functions from the
columns to integers), for any number of tables, any contents and any hash function.
The argument has two halves that meet at PlanSound, which speaks of the columns of the finished plan
only: not of rows, links made, pipelines or flags.

The first half is about planning.  PlansAreSound: on the graphs of SoundInputs the plan is sound.  It
adds SoundInv to the invariants of FilterPlacementProofs: each operation tests a column with a
filter of a column of its class; until an operation is merged or broadcast, the columns
it names are those of one edge, in order; and of a merged CREATE every column of the shifted list it
may push by lies in one class.  Execution begins with a finished plan, and planning runs on the graph
as FilterPlacementProofs sees it (ExecutionPlans).

The second half is about the run time, for any sound plan; its theorems have the form

    XSpec /\ []PlanSound => ...

so that they also speak of sound plans of graphs outside SoundInputs, and FlagsAlwaysMeanEmpty and
ResultAlwaysKept combine them with PlansAreSound.  The inductive invariant is `PlanInv /\ RowsInv`.
PlanInv says which links exist, which
pipelines have been built, and that a pipeline waits at least for the CREATE it
starts from.  RowsInv contains KeepsResult: *for every row of the result, no flag
is up, and each finished pipeline has handed on its part of the row.*  Neither half is
inductive alone.  If a row is in the result, its part passes every pushed
filter (PushAdmitsResult) and every PROBE (ProbeAdmitsResult), because the plan equates
the columns (TestedWithItsColumn undoes the renumbering of the filters) and the filters
come from CREATEs that have handed the row on; so no filter met is empty
(EmptyFilterEmptyResult), no CREATE ends without rows, and no flag goes up; and with no
flag up, no pipeline is cut short.  FlagsMeanEmpty is the contraposition.  ResultKeptThm
is the refinement of QueryPromise: Start maps to Ask, ReturnResult to Answer (the tables
that reach the joins lie between the tables and their parts in the result, and the
join of both is the same, SameJoin), QueryEnd to Close, the rest to stutters.
LinkedExactlyOnce needs no premise: it holds on all graphs, sound or not, because
links lead from PROBEs to CREATEs (LinkedCreates, from PlaceInv).

KeepsResult says that no row is lost; FullyReducedThm says that, on a tree, no other row is left.  Two more
invariants are needed.  WaitInv: a pipeline waits for *all* it depends on, not only for its source.  MatchInv: *each
row that a finished pipeline has handed on has, for every PROBE below its end, a partner among the rows of the PROBE's
CREATE.*  For a PROBE that is a passthrough, the scan has made the test, which is where SingleParentPushed
comes in; for a row cut short by a flag there is nothing to show.  The rest is about the rows once the query
has returned.  By the forward PROBEs, each row of a parent, in whatever pipeline, has a match in each child
(ParentsMatch), so that rows for the tables down to some level that fit together can be continued one level down, and all the way
(OneLevelDown, AllLevelsDown), and rows that fit along all edges of a spanning tree are a row of the result
(FittingIsResult).  For the other direction, a row at the end of a pipeline that has passed *all* PROBEs of
its table (`Top`: what the joins are given, and what a backward CREATE has) is in the result, by induction
on the level: its backward PROBE has found a row s of another table on a lower level, which is in the
result by induction; the parent's row in that result has the value the child's row is looking for, so
the child's row can be exchanged for its own in it, and continued downwards from there
(TopOfChild, Exchanged).  The table of s need not be the parent: a broadcast lets the child
read the filter of any table of its class, which is why the induction is on levels and the value is
carried over by the class.

**What is left to TLC.**

- All liveness (LevelsTerminate, ConnectedPlansFinish, SourceTerminates, EveryQueryReturns): the proof
  system has no rule for fairness.
- The existence of plans and contents that meet the premises of the theorems: the inputs of
  `transfer_execution` meet SoundInputs (asserted), and it reaches returned queries over trees of both
  heuristics with dangling rows and an exact hash, which FullyReduced speaks of.
- The counterexamples of the runs that end in one (section 3).

Every safety property that a passing run checks is the property of a theorem.

## 6. Not modelled, and what could follow

Not modelled:

- *Profiling*: counters and timers that feed a report.  The race at the first
  registration (physical_create_filter.cpp:222) is listed as a hazard; nothing
  that a property here is about depends on it.
- *Table manager, settings, DAG printing, debug output, superseded headers*: filled
  once and read, or text.
- *The rename chains of ResolveColumnBinding*: PlanWalk takes a renamed column as
  resolved.
- *Operators whose result depends on the set of their input rows* (LIMIT, TOP-N,
  window functions) between a scan and a join: a plan of PlanWalk has joins, cross
  products and derived columns.
- *DuckDB*: the native bloom filter's bits and hashing, the scheduler, suspended
  table filters, prepared statements that execute one physical plan twice.
- *The number of tasks* that read a CREATE: FilterSource takes any.

What could follow, in order of importance:

1. **Lift composed with placement**: NoWaitCycle and linking after a block has been
   lifted above a join; the search for the CREATE of a PROBE then crosses stacks.
2. **LIMIT and TOP-N** in the plans of PlanWalk, against ResultKept.
3. **Rename resolution and union-find** as algorithms against reference
   definitions: chains and cycles of renames; path halving keeps the classes.
4. **Proofs**: SoundInputs of the graphs the walk gives for joins on one column, which would join
   TransferPlannerProofs to TransferExecutionProofs; JoinTree of what BuildRootedTree builds, which would
   put FullyReduced for largest_root on the join edges alone.
