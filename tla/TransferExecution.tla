-------------------------- MODULE TransferExecution --------------------------
(***************************************************************************)
(* From the optimized plan to the result of the query: the plan generator  *)
(* makes the physical CREATE_FILTER and PROBE_FILTER operators and links   *)
(* them, BuildPipelines divides them into pipelines that depend on each    *)
(* other, and the pipelines run, in any order the dependencies leave, on   *)
(* tables with rows.  The probe-empty registry is shared by all operators  *)
(* of a query and does not outlive it.                                     *)
(*                                                                         *)
(* A pipeline is named by where it ends: by the position of the CREATE it  *)
(* fills, or by the position above the stack of a table whose rows it      *)
(* hands to the joins.  Sink and source of a CREATE are one step here;     *)
(* FilterSink and FilterSource have their interleavings.                   *)
(***************************************************************************)
EXTENDS LargestRoot

CONSTANTS
    Executions     \* what a query may find, as records [data, hash]: the rows of the
                   \* tables, a row being a function from columns to numbers, and
                   \* which numbers the bloom filters cannot tell apart

ASSUME ExecutionsAssumption ==
    \A ex \in Executions : \A t \in Tables : ex.data[t] \subseteq [Columns -> Int]

VARIABLES
    exec,             \* "optimize", "create plan", "build", "run", "returned"
    physical,         \* positions whose physical operator has been made
    linked,           \* for each of its PROBEs, related_create_filter_vec
    this_pipeline,    \* CREATE positions with a pipeline
    to_build,         \* pipelines whose operators are still to be collected
    waits,            \* for each pipeline collected, those it depends on
    data, hash,       \* the rows of the tables, the hash function
    flags,            \* tables whose probe-empty flag is raised in the registry
    produced          \* for each pipeline that has finished, its rows

planstate == <<physical, linked>>
pipestate == <<this_pipeline, to_build, waits>>
runstate  == <<data, hash, flags, produced>>
execvars  == <<exec, planstate, pipestate, runstate>>
xvars == <<hvars, execvars>>

NoRows == [t \in Tables |-> {}]

XInit ==
    /\ HInit
    /\ exec = "optimize"
    /\ physical = {} /\ linked = << >>
    /\ this_pipeline = {} /\ to_build = {} /\ waits = << >>
    /\ data = NoRows /\ hash = << >> /\ flags = {} /\ produced = << >>

Optimize ==
    /\ exec = "optimize"
    /\ HNext
    /\ exec' = IF step' = "planned" THEN "create plan" ELSE exec
    /\ UNCHANGED <<planstate, pipestate, runstate>>

-----------------------------------------------------------------------------
\* Physical operators and pipelines.

Under(p)   == {pos \in Positions : pos[1] = p[1] /\ pos[2] < p[2]}

\* Mutant of LinkCreate: the CREATE leaves the links to its PROBEs.
LinkNone(pos) == linked

\* LogicalCreateFilter::CreatePlan links the PROBEs that have been made before.
LinkCreate(pos) ==
    [q \in DOMAIN linked |-> IF q \in DOMAIN related_create /\ related_create[q] = pos
                             THEN Append(linked[q], pos) ELSE linked[q]]

\* LogicalProbeFilter::CreatePlan takes its CREATE if that has been made before.
LinkProbe(pos) ==
    [q \in DOMAIN linked \cup {pos} |->
        IF q # pos THEN linked[q]
        ELSE IF pos \in DOMAIN related_create /\ related_create[pos] \in physical
        THEN <<related_create[pos]>> ELSE << >>]

\* Operators are made bottom-up, one stack after the other in the order the
\* joins above have their inputs, which may be any.
CreatePlan(pos) ==
    /\ exec = "create plan"
    /\ pos \in Positions \ physical
    /\ Under(pos) \subseteq physical
    /\ \A q \in physical : q[1] = pos[1] \/ {q[1]} \X DOMAIN stacks[q[1]] \subseteq physical
    /\ physical' = physical \cup {pos}
    /\ linked' = IF Op(pos).is_create THEN LinkCreate(pos) ELSE LinkProbe(pos)
    /\ UNCHANGED <<hvars, exec, pipestate, runstate>>

Outputs == {<<t, Len(stacks[t]) + 1>> : t \in Tables}

EndPlan ==
    /\ exec = "create plan"
    /\ physical = Positions
    /\ exec' = "build"
    /\ to_build' = Outputs
    /\ UNCHANGED <<hvars, planstate, this_pipeline, waits, runstate>>

\* The CREATE a pipeline starts from, if it does not start from the scan.
SourceOf(p) == {c \in Under(p) \cap Creates : \A d \in Under(p) \cap Creates : d[2] <= c[2]}

\* The PROBEs a pipeline passes.
Segment(p)  == {q \in Under(p) \cap Probes : \A c \in SourceOf(p) : c[2] < q[2]}

\* Mutant of DependsOn: PROBEs wait for nobody.
OwnSource(p) == SourceOf(p)

DependsOn(p) == SourceOf(p) \cup UNION {ToSet(linked[q]) : q \in Segment(p)}

\* Mutant of ToCollect: a pipeline made for a PROBE is not collected.
OnlySource(p) == SourceOf(p) \ this_pipeline

\* The CREATEs that get their pipeline, and are visited, on behalf of this one;
\* the others already have one, made by an earlier caller.
ToCollect(p) == DependsOn(p) \ this_pipeline

\* BuildPipelines of the operators of one pipeline, from the top down, with
\* BuildPipelinesFromRelated for the PROBEs.
BuildPipelines(p) ==
    /\ exec = "build"
    /\ p \in to_build
    /\ waits' = [q \in DOMAIN waits \cup {p} |-> IF q = p THEN DependsOn(p) ELSE waits[q]]
    /\ this_pipeline' = this_pipeline \cup DependsOn(p)
    /\ to_build' = (to_build \ {p}) \cup ToCollect(p)
    /\ UNCHANGED <<hvars, exec, planstate, runstate>>

Start ==
    /\ exec = "build"
    /\ to_build = {}
    /\ exec' = "run"
    /\ \E ex \in Executions : data' = ex.data /\ hash' = ex.hash
    /\ UNCHANGED <<hvars, planstate, pipestate, flags, produced>>

-----------------------------------------------------------------------------
\* Execution.

Finished == DOMAIN produced
Runnable == {p \in DOMAIN waits \ Finished : waits[p] \subseteq Finished}

\* LookupSel and the bloom filter pushed to a scan: the filter of the build
\* column b of c lets a value pass.
InFilter(c, b, value) == \E row \in produced[c] : hash[row[b[2]]] = hash[value]

\* PushDynamicFilters: what a finished CREATE pushed to one target lets a row of
\* the scan pass, nothing at all if it has no rows.
PushAdmits(c, target, row) ==
    /\ produced[c] # {}
    /\ \A b \in PushedFrom(c, target) :
        /\ InFilter(c, b, row[target[2]])
        /\ \E low, high \in produced[c] :
            low[b[2]] <= row[target[2]] /\ row[target[2]] <= high[b[2]]

\* The rows of a table that the filters pushed to its scan let pass.  The scan
\* is taken to test them all; DuckDB may suspend one that removes little.
Scanned(t) ==
    {row \in data[t] : \A c \in DOMAIN pushdown_targets \cap Finished :
        \A target \in pushdown_targets[c] : target[1] = t => PushAdmits(c, target, row)}

\* The linked CREATEs that have a filter of the PROBE's j-th build column.
Holders(q, j) ==
    {c \in ToSet(linked[q]) : Op(q).build_columns[j] \in ToSet(Op(c).build_columns)}

FilterFound(q, j) == Holders(q, j) # {}

\* Mutant of TestedColumn: the index of the build column in its own table.
BuildColumn(q, j) == Op(q).build_columns[j]

\* The filters found are numbered and looked up with the PROBE's columns in turn.
TestedColumn(q, j) ==
    Op(q).probe_columns[Cardinality({k \in 1 .. j : FilterFound(q, k)})]

\* ExecuteInternal of a PROBE; a filter that is not finalized is skipped.
Admits(q, row) ==
    q \in passthrough \/
    \A j \in DOMAIN Op(q).build_columns : \A c \in Holders(q, j) \cap Finished :
        InFilter(c, Op(q).build_columns[j], row[TestedColumn(q, j)[2]])

\* The rows a pipeline starts with, and those of them that reach position i.
Entering(p) ==
    IF SourceOf(p) = {} THEN Scanned(p[1]) ELSE UNION {produced[c] : c \in SourceOf(p)}
Reaching(p, i) ==
    {row \in Entering(p) : \A q \in Segment(p) : q[2] < i => Admits(q, row)}

\* A PROBE that is not a passthrough meets an empty filter.
MeetsEmpty(p, q) ==
    /\ q \notin passthrough
    /\ Reaching(p, q[2]) # {}
    /\ \E j \in DOMAIN Op(q).build_columns :
        \E c \in Holders(q, j) \cap Finished : produced[c] = {}

\* The flag of a table, which a PROBE on it raises, and a forward CREATE whose
\* first operation was for a PROBE on it reads and raises.
FlagOf(pos) == Op(pos).probe_table

\* The PROBE meets the empty filter with its first rows, while its pipeline and
\* others run on.
ProbeRaisesFlag(p, q) ==
    /\ exec = "run"
    /\ p \in Runnable
    /\ q \in Segment(p)
    /\ FlagOf(q) \notin flags
    /\ MeetsEmpty(p, q)
    /\ flags' = flags \cup {FlagOf(q)}
    /\ UNCHANGED <<hvars, exec, planstate, pipestate, data, hash, produced>>

ForwardCreate(p) == p \in Creates /\ Op(p).forward

FinishWith(p, rows) ==
    /\ produced' = [q \in Finished \cup {p} |-> IF q = p THEN rows ELSE produced[q]]
    /\ flags' = IF ForwardCreate(p) /\ rows = {} THEN flags \cup {FlagOf(p)} ELSE flags
    /\ UNCHANGED <<hvars, exec, planstate, pipestate, data, hash>>

\* All rows have passed; Finalize raises the flag of a CREATE without rows.
FinishPipeline(p) ==
    /\ exec = "run"
    /\ p \in Runnable
    /\ \A q \in Segment(p) : MeetsEmpty(p, q) => FlagOf(q) \in flags
    /\ FinishWith(p, Reaching(p, p[2]))

StopsEarly(p) == ForwardCreate(p) /\ FlagOf(p) \in flags

\* The threads of a CREATE stop at different moments once its flag is up.
StopPipeline(p) ==
    /\ exec = "run"
    /\ p \in Runnable
    /\ StopsEarly(p)
    /\ \E rows \in SUBSET Reaching(p, p[2]) : FinishWith(p, rows)

\* The joins have all their inputs.
ReturnResult ==
    /\ exec = "run"
    /\ Outputs \subseteq Finished
    /\ exec' = "returned"
    /\ UNCHANGED <<hvars, planstate, pipestate, runstate>>

\* Mutant of ClearedFlags: the registry of the last query is found by the next.
KeptFlags == flags

\* QueryEnd of the registry.
ClearedFlags == {}

\* The next query is planned as the last one and has physical operators of its own.
QueryEnd ==
    /\ exec = "returned"
    /\ exec' = "create plan"
    /\ physical' = {} /\ linked' = << >>
    /\ this_pipeline' = {} /\ to_build' = {} /\ waits' = << >>
    /\ data' = NoRows /\ hash' = << >> /\ produced' = << >>
    /\ flags' = ClearedFlags
    /\ UNCHANGED hvars

Execute ==
    \/ exec = "create plan" /\ (EndPlan \/ \E pos \in Positions : CreatePlan(pos))
    \/ exec = "build" /\ (Start \/ \E p \in to_build : BuildPipelines(p))
    \/ exec = "run" /\ \/ ReturnResult
                       \/ \E p \in Runnable : \/ \E q \in Segment(p) : ProbeRaisesFlag(p, q)
                                              \/ FinishPipeline(p)
                                              \/ StopPipeline(p)

XNext == Optimize \/ Execute \/ QueryEnd

\* A query that is asked is carried through; whether another one is asked is up
\* to the client.
XSpec == XInit /\ [][XNext]_xvars /\ WF_execvars(Execute)

-----------------------------------------------------------------------------

\* Columns that lie in one class.
Together(cls, a, b) == \E class \in cls : a \in class /\ b \in class

JoinedOn(a, b) == Together(classes, a, b)

\* The plan the optimizer leaves, seen column by column: a CREATE builds filters
\* on its own table; its CREATE has all the filters a PROBE reads, and the PROBE tests each
\* with a column of its own table that the query equates with the build
\* column; so does a scan with each filter pushed to it.  This is all that the
\* result of the query depends on (robust_optimizer.cpp:1041-1160, 1193-1212,
\* 1369-1395, physical_create_filter.cpp:390-401).
PlanSound ==
    step = "planned" =>
        /\ \A pos \in Positions : Op(pos) \in FilterOp
        /\ \A c \in Creates : \A i \in DOMAIN Op(c).build_columns :
            Op(c).build_columns[i][1] = c[1]
        /\ \A q \in DOMAIN related_create :
            /\ related_create[q] \in Creates
            /\ FoundAt(q) = DOMAIN Op(q).build_columns
            /\ \A i \in DOMAIN Op(q).build_columns :
                /\ Op(q).probe_columns[i][1] = q[1]
                /\ JoinedOn(Op(q).build_columns[i], Op(q).probe_columns[i])
        /\ \A c \in DOMAIN pushdown_targets : \A target \in pushdown_targets[c] :
            /\ c \in Creates
            /\ target \in Tables \X Columns
            /\ \A b \in PushedFrom(c, target) : JoinedOn(b, target)

\* The columns of an edge lie together, pair by pair, and no column is in two
\* classes, as union-find leaves them.
PairsTogether(g, cls) ==
    \A e \in Tables \X Tables : \A i \in DOMAIN g[e] :
        Together(cls, <<e[1], g[e][i][1]>>, <<e[2], g[e][i][2]>>)
ClassesDisjoint(cls) == \A k, l \in cls : k \cap l # {} => k = l

\* Two edges that lead to one child are merged, and two whose first pairs lie in
\* one class are broadcast: they have one pair each.
OnePairIfMerged(g) ==
    \A e, f \in Tables \X Tables :
        (e # f /\ e[2] = f[2] /\ Linked(g, f[1], f[2])) => Len(g[e]) <= 1
OnePairIfBroadcast(g, cls) ==
    \A e, f \in Tables \X Tables :
        ( /\ e # f /\ Linked(g, e[1], e[2]) /\ Linked(g, f[1], f[2])
          /\ Together(cls, <<e[1], g[e][1][1]>>, <<f[1], g[f][1][1]>>) )
        => Len(g[e]) = 1

\* No child has more than two parents, unless it joins them all on one class.
FewParents(g, cls) ==
    \A t \in Tables :
        \/ Cardinality(Parents(g, t)) <= 2
        \/ \E class \in cls : \A p \in Parents(g, t) : \A i \in DOMAIN g[p, t] :
                <<p, g[p, t][i][1]>> \in class /\ <<t, g[p, t][i][2]>> \in class

\* The graphs whose plans are sound whatever the rows are; MCPushdownWrong and
\* MCBroadcast have graphs outside of them whose plans are not.  The trees of
\* largest_root have no child of two parents, and it broadcasts nothing.
SoundInputs ==
    /\ \A in \in Inputs \cup JoinEdges :
        PairsTogether(in.edges, in.classes) /\ ClassesDisjoint(in.classes)
    /\ \A in \in Inputs :
        /\ OnePairIfMerged(in.edges)
        /\ OnePairIfBroadcast(in.edges, in.classes)
        /\ FewParents(in.edges, in.classes)

\* What the joins are given, and what they return from it.
OutputRows == [t \in Tables |-> produced[<<t, Len(stacks[t]) + 1>>]]

Query == INSTANCE QueryPromise WITH
    status <- IF exec = "run" THEN "asked"
              ELSE IF exec = "returned" THEN "answered" ELSE "idle",
    answer <- IF exec = "returned" THEN JoinOf(OutputRows, classes) ELSE {}

\* What the joins return from the reduced tables is what they return from the
\* tables, and they return it, whatever filters were pushed, empty, or cut short
\* by a flag: the query "return[s] identical results" (README.md:16).
ResultKept == Query!QSafety

\* The result of the query is what it would be without filters.
FullResult == JoinOf(data, classes)

\* A flag in the registry, raised by whichever operator of whichever table, means
\* that the query has no result: stopping an operator by it can lose nothing,
\* also when the operator is a merged one that serves other tables too
\* (physical_create_filter.cpp:201, physical_probe_filter.cpp:157).
FlagsMeanEmpty == flags # {} => FullResult = {}

\* The edges, with one column pair each, form a tree that joins all tables.
JoinTree(g) ==
    /\ Connected(g, Tables) /\ Acyclic(g)
    /\ \A t \in Tables : Cardinality(Parents(g, t)) <= 1
    /\ \A e \in Tables \X Tables : Len(g[e]) <= 1

\* The pairs of the edges equate all that the classes equate: a part of a class
\* is always joined with the rest of it.
SpannedBy(g, cls) ==
    \A class \in cls : \A S \in (SUBSET class) \ {{}, class} :
        \E e \in Tables \X Tables : \E i \in DOMAIN g[e] :
            LET a == <<e[1], g[e][i][1]>>
                b == <<e[2], g[e][i][2]>>
            IN  (a \in S /\ b \in class \ S) \/ (b \in S /\ a \in class \ S)

\* The bloom filters tell apart the values that are in the tables.
ExactFilters ==
    \A t, u \in Tables : \A r \in data[t], s \in data[u] : \A a, b \in Columns :
        hash[r[a]] = hash[s[b]] => r[a] = s[b]

\* After both passes over a tree of joins, with filters that make no mistakes, a
\* table hands on the rows that are in the result and no others, whether it was
\* reduced in its scan, by its PROBEs, or by the filter of a table it is not joined
\* with (robust_optimizer.cpp:1041-1160, 1369-1395, 1452-1505).
FullyReduced ==
    ( /\ exec = "returned"
      /\ pass_mode = "both"
      /\ ExactFilters
      /\ JoinTree(edges)
      /\ SpannedBy(edges, classes) )
    => \A p \in Outputs : produced[p] = {f[p[1]] : f \in FullResult}

\* Whichever of a PROBE and its CREATE is made first, the PROBE gets the link the
\* optimizer gave it, and gets it once (logical_create_filter.cpp:121,
\* logical_probe_filter.cpp:94).
LinkedExactlyOnce ==
    exec \in {"build", "run", "returned"} =>
        \A q \in Probes : linked[q] = IF q \in DOMAIN related_create
                                      THEN <<related_create[q]>> ELSE << >>

\* No pipeline waits for ever: every query that is planned or asked returns.
EveryQueryReturns == (exec \in {"create plan", "build"}) ~> (exec = "returned")

=============================================================================
