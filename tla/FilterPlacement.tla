--------------------------- MODULE FilterPlacement ---------------------------
(***************************************************************************)
(* From the two lists of filter operations of every table to the plan that *)
(* is executed: ApplyStageModifications stacks them as operators above the *)
(* table's scan, LinkProbeFilterToCreateFilter pairs every PROBE with the  *)
(* CREATE whose filters it reads, and SetupDynamicFilterPushdown moves the *)
(* forward filters into the scans, leaving their PROBEs as passthroughs.   *)
(*                                                                         *)
(* It extends the module that generates the operations; an operator of the *)
(* plan is named by a position <<t, i>>: the i-th above the scan of t.     *)
(***************************************************************************)
EXTENDS TransferStages

CONSTANTS
    PassModes,     \* the values of robust_pass_mode considered
    GetSets        \* the sets of tables that may be scanned by a LogicalGet

ASSUME PassModesAssumption == PassModes \subseteq {"both", "forward_only"}
ASSUME GetSetsAssumption == GetSets \subseteq SUBSET Tables

VARIABLES
    pass_mode,            \* the robust_pass_mode setting
    gets,                 \* the tables that are scanned by a LogicalGet
    stacks,               \* per table, the operators above its scan, bottom up
    related_create,       \* for some PROBE positions, the CREATE they read
    passthrough,          \* PROBE positions with is_passthrough set
    pushdown_targets,     \* for each forward CREATE position, columns of scans
    step                  \* "generate", "apply", "link", "pushdown", "planned"

placement == <<pass_mode, gets, stacks, related_create, passthrough,
               pushdown_targets, step>>
allvars == <<vars, placement>>

-----------------------------------------------------------------------------

\* One CREATE of a run of consecutive CREATEs of a table is added to those
\* merged so far.  A run of one is kept as it is; merging starts from a copy of
\* the first operation whose build_columns have been cleared and whose
\* probe_columns have not, and then adds the columns of all operations.
AddToRun(first, run_length, merged, op) ==
    LET base == IF run_length = 1
                THEN [first EXCEPT !.probe_columns = @ \o first.probe_columns]
                ELSE merged
    IN  [base EXCEPT !.build_columns = @ \o op.build_columns,
                     !.probe_columns = @ \o op.probe_columns]

\* Mutant of MergeCreates: every operation becomes an operator.
Unmerged(ops) == ops

\* The next operation joins the run of CREATEs at the end or becomes an operator
\* of its own.
AddOperation(acc, op) ==
    IF acc.run > 0 /\ op.is_create /\ op.build_table = Last(acc.out).build_table
    THEN [acc EXCEPT !.run = @ + 1,
                     !.out[Len(acc.out)] = AddToRun(acc.first, acc.run, @, op)]
    ELSE [out |-> Append(acc.out, op), first |-> op,
          run |-> IF op.is_create THEN 1 ELSE 0]

\* The operators made of the first k operations, and the run they end with.
MergedUpTo(ops) ==
    LET merged[k \in 0 .. Len(ops)] ==
            IF k = 0 THEN [out |-> << >>, first |-> << >>, run |-> 0]
                     ELSE AddOperation(merged[k - 1], ops[k])
    IN  merged

\* BuildStackedBFOperators: the operations of one pass, in order, with every
\* run of consecutive CREATEs of one table merged into a single operator.
MergeCreates(ops) == MergedUpTo(ops)[Len(ops)].out

Positions == UNION {{t} \X DOMAIN stacks[t] : t \in Tables}
Op(pos)   == stacks[pos[1]][pos[2]]
Creates   == {pos \in Positions : Op(pos).is_create}
Probes    == {pos \in Positions : ~ Op(pos).is_create}

PInit ==
    /\ Init
    /\ pass_mode \in PassModes
    /\ gets \in GetSets
    /\ stacks = [t \in Tables |-> << >>]
    /\ related_create = << >>
    /\ passthrough = {}
    /\ pushdown_targets = << >>
    /\ step = "generate"

Generate ==
    /\ step = "generate"
    /\ Next
    /\ step' = IF stage' = "done" THEN "apply" ELSE step
    /\ UNCHANGED <<pass_mode, gets, stacks, related_create, passthrough, pushdown_targets>>

\* Mutant of Stacked: all rows are reduced before the first filter is built.
ProbesFirst(forward, backward) ==
    LET CreatesIn(ops) == SelectSeq(ops, LAMBDA op : op.is_create)
        ProbesIn(ops)  == SelectSeq(ops, LAMBDA op : ~ op.is_create)
    IN  ProbesIn(forward \o backward)
            \o MergeCreates(CreatesIn(forward)) \o MergeCreates(CreatesIn(backward))

\* The forward operators lie below the backward ones.
Stacked(forward, backward) == MergeCreates(forward) \o MergeCreates(backward)

ApplyStageModifications ==
    /\ step = "apply"
    /\ LET backward == IF pass_mode = "forward_only" THEN [t \in Tables |-> << >>]
                       ELSE backward_filter_ops
       IN  stacks' = [t \in Tables |-> Stacked(forward_filter_ops[t], backward[t])]
    /\ step' = "link"
    /\ UNCHANGED <<vars, pass_mode, gets, related_create, passthrough, pushdown_targets>>

\* Mutant of Candidates: the topmost CREATE of the table, whoever it is for.
CreatesOfTable(pos) == {c \in Creates : c[1] = Op(pos).build_table}

\* The CREATEs of the table a PROBE names that have a column on the PROBE's
\* table; the search runs from the top of the plan and takes the first.
Candidates(pos) ==
    {c \in Creates : /\ c[1] = Op(pos).build_table
                     /\ \E i \in DOMAIN Op(c).probe_columns :
                            Op(c).probe_columns[i][1] = Op(pos).probe_table}

LinkProbeFilterToCreateFilter ==
    /\ step = "link"
    /\ related_create' =
            [pos \in {p \in Probes : Candidates(p) # {}} |->
                CHOOSE c \in Candidates(pos) : \A o \in Candidates(pos) : o[2] <= c[2]]
    /\ step' = "pushdown"
    /\ UNCHANGED <<vars, pass_mode, gets, stacks, passthrough, pushdown_targets>>

\* Mutant of PushedProbes: nobody asks what the scan is.
ForwardProbes == {pos \in DOMAIN related_create : Op(pos).forward}

\* The forward PROBEs of a forward CREATE whose table is scanned by a
\* LogicalGet: their columns become targets of the CREATE.
PushedProbes ==
    {pos \in DOMAIN related_create : /\ Op(pos).forward
                                     /\ Op(related_create[pos]).forward
                                     /\ Op(pos).probe_table \in gets}

SetupDynamicFilterPushdown ==
    /\ step = "pushdown"
    /\ passthrough' = PushedProbes
    /\ pushdown_targets' =
            [c \in {p \in Creates : Op(p).forward} |->
                UNION {ToSet(Op(pos).probe_columns) :
                        pos \in {p \in PushedProbes : related_create[p] = c}}]
    /\ step' = "planned"
    /\ UNCHANGED <<vars, pass_mode, gets, stacks, related_create>>

PNext ==
    \/ Generate
    \/ ApplyStageModifications
    \/ LinkProbeFilterToCreateFilter
    \/ SetupDynamicFilterPushdown

PSpec == PInit /\ [][PNext]_allvars

-----------------------------------------------------------------------------
\* What the planned operators do when they run, as far as columns go.

\* PushDynamicFilters: the build columns whose filters a CREATE pushes to a
\* target: that at the first position where the target is a probe column.
PushedFrom(c, target) ==
    LET op == Op(c)
        at == {i \in DOMAIN op.build_columns \cap DOMAIN op.probe_columns :
                    op.probe_columns[i] = target}
    IN  {op.build_columns[i] : i \in {j \in at : \A k \in at : j <= k}}

\* What the scan of a passthrough PROBE tests the PROBE's i-th column with; only
\* a LogicalGet can take a filter.
ReachScan(pos, i) ==
    LET target == Op(pos).probe_columns[i]
        create == related_create[pos]
    IN  IF Op(pos).probe_table \in gets /\ target \in pushdown_targets[create]
        THEN PushedFrom(create, target) ELSE {}

\* ExecuteInternal: the build columns, by position, for which a PROBE finds a
\* filter.  The filters found are looked up with its columns in their order.
FoundAt(pos) ==
    {i \in DOMAIN Op(pos).build_columns :
        Op(pos).build_columns[i] \in ToSet(Op(related_create[pos]).build_columns)}

\* A CREATE waits for the CREATEs below it in its stack and for those that the
\* PROBEs below it are linked to (pipeline dependencies).
WaitsFor(c) ==
    LET below == {pos \in Positions : pos[1] = c[1] /\ pos[2] < c[2]}
    IN  (below \cap Creates) \cup {related_create[p] : p \in below \cap DOMAIN related_create}

-----------------------------------------------------------------------------

PTypeOK ==
    /\ TypeOK
    /\ pass_mode \in PassModes
    /\ gets \in GetSets
    /\ \A t \in Tables : stacks[t] \in Seq(FilterOp)
    /\ DOMAIN related_create \subseteq Probes
    /\ passthrough \subseteq Probes
    /\ \A c \in DOMAIN pushdown_targets : pushdown_targets[c] \subseteq Tables \X Columns
    /\ step \in {"generate", "apply", "link", "pushdown", "planned"}

\* Every PROBE of the plan, a broadcast included, is linked to a CREATE of its
\* own pass that builds all the filters the PROBE reads, so that position i of
\* its filters and position i of its columns belong together
\* (robust_optimizer.cpp:1369-1395, physical_probe_filter.cpp:97-110).
EveryProbeFindsItsFilters ==
    step \in {"pushdown", "planned"} => \A pos \in Probes :
        /\ pos \in DOMAIN related_create
        /\ Op(related_create[pos]).forward = Op(pos).forward
        /\ FoundAt(pos) = DOMAIN Op(pos).build_columns

\* The pipelines of the CREATEs can be run in some order: none of them waits,
\* over any number of links and stacks, for itself
\* (physical_probe_filter.cpp:232-236, physical_create_filter.cpp:671-697).
NoWaitCycle ==
    step \in {"pushdown", "planned"} =>
        \A S \in (SUBSET Creates) \ {{}} : \E c \in S : WaitsFor(c) \cap S = {}

\* In each pass a table builds its filters in one operator, once all PROBEs of
\* the pass have reduced its rows: the rows are materialized once per pass.
OneCreatePerPass ==
    \A c, d \in Creates : (c[1] = d[1] /\ Op(c).forward = Op(d).forward) => c = d

\* A filter pushed into a scan was built on a column equal to the scanned one:
\* the query returns "identical results" (README.md:16).
PushedPairsEquated ==
    \A c \in DOMAIN pushdown_targets : \A target \in pushdown_targets[c] :
        \A b \in PushedFrom(c, target) : Equated(b, target)

\* As long as a table has one parent only, its forward filter is not lost: the
\* PROBE is a passthrough, and then the scan of the parent tests each column
\* with the filter the PROBE would have used, or it is left as it is.  Of the
\* filters for a column that the edge lists twice the scan gets the first, where
\* PushDynamicFilters leaves its loop (physical_create_filter.cpp:390-401, 450).
SingleParentIsPushed ==
    \A pos \in passthrough :
        Cardinality(Parents(edges, Op(pos).build_table)) = 1 =>
            \A i \in DOMAIN Op(pos).probe_columns :
                (\A k \in 1 .. i - 1 : Op(pos).probe_columns[k] # Op(pos).probe_columns[i]) =>
                    ReachScan(pos, i) = {Op(pos).build_columns[i]}

=============================================================================
