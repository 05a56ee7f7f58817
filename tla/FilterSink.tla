----------------------------- MODULE FilterSink -----------------------------
(***************************************************************************)
(* The sink of PhysicalCreateFilter: several threads append the chunks of  *)
(* their pipeline to local collections, insert the join column into the    *)
(* shared bloom filter and keep local statistics of it (min, max, distinct *)
(* values); Combine merges a thread's state under the lock; Finalize joins *)
(* the collections, rebuilds an undersized bloom filter and pushes filters *)
(* to the scan of the probe table.  A probe side known to be empty raises  *)
(* a shared flag, on which every thread stops taking in rows.              *)
(*                                                                         *)
(* One build column: the loops over build columns treat each by itself.    *)
(* A chunk is the sequence of that column's values.  Values are numbers in *)
(* the order of duckdb::Value, where NaN is the greatest; the comparisons  *)
(* of C++ are false on NaN.                                                *)
(***************************************************************************)
EXTENDS Integers, Sequences, FiniteSets

CONSTANTS
    Threads,
    Chunks,
    Values,              \* the values of the join column, NULL apart
    NULL,
    NaN,                 \* the not-a-number of the column's type
    Inputs,              \* inputs a behaviour may start from: some chunks of rows
    Operators,           \* settings of the operator, see OperatorSettings
    DistinctThreshold,   \* robust_dynamic_or_filter_threshold (50 by default)
    MinBits,             \* least size of a bloom filter (512)
    BitsPerRow,          \* what a bloom filter is allocated for (12)
    MinBitsPerRow,       \* below this it is rebuilt (8)
    UintRange            \* 2^32: the estimate passes through a uint32_t

OperatorSettings ==
    [is_forward_pass : BOOLEAN, has_targets : BOOLEAN,
     filter_type : {"all", "bf_only", "minmax_only", "none"},
     estimated_cardinality : Nat]

ASSUME ValuesAssumption == Values \subseteq Nat /\ NULL \notin Values /\ NULL \in Int
ASSUME NaNAssumption == NaN \in Nat /\ \A v \in Values : v <= NaN
ASSUME InputsAssumption ==
    \A i \in Inputs : /\ DOMAIN i \subseteq Chunks
                      /\ \A c \in DOMAIN i : i[c] \in Seq(Values \cup {NULL}) \ {<< >>}
ASSUME FiniteAssumption == IsFiniteSet(Chunks) /\ IsFiniteSet(Values)
ASSUME ThreadsAssumption == Threads # {}
ASSUME OperatorsAssumption == Operators \subseteq OperatorSettings
ASSUME SizesAssumption ==
    /\ DistinctThreshold \in Nat
    /\ MinBits \in Nat \ {0}
    /\ MinBitsPerRow \in Nat \ {0}
    /\ BitsPerRow \in Nat /\ BitsPerRow >= MinBitsPerRow
    /\ UintRange \in Nat \ {0}

VARIABLES
    input,               \* the chunks of the input, never changed
    op,                  \* the operator's settings, never changed
    waiting,             \* chunks of the input no thread has fetched yet
    thread,              \* what each thread does: see ThreadStates
    local,               \* CreateFilterLocalSinkState of each thread
    local_data_collections,  \* the chunks of the combined collections
    column_min_max,
    column_distinct,
    total_data,          \* the chunks Finalize has put together
    bloom_filter,
    probe_empty_flag,
    probe_empty,         \* history: another operator found the probe side empty
    pushed,              \* the filters at the scan of the probe table
    finalized            \* Finalize has run

vars == <<input, op, waiting, thread, local, local_data_collections, column_min_max,
          column_distinct, total_data, bloom_filter, probe_empty_flag, probe_empty,
          pushed, finalized>>

-----------------------------------------------------------------------------
\* Statistics of the join column.

NonNull(rows) == {v \in {rows[i] : i \in DOMAIN rows} : v # NULL}

KeysOf(chunks) == UNION {NonNull(input[c]) : c \in chunks}

RowCount(chunks) ==
    LET Rows == UNION {{c} \X DOMAIN input[c] : c \in chunks} IN Cardinality(Rows)

NoMinMax == [has_value |-> FALSE, min |-> 0, max |-> 0]
MinMax(lo, hi) == [has_value |-> TRUE, min |-> lo, max |-> hi]

Least(S)    == CHOOSE v \in S : \A o \in S : v <= o
Greatest(S) == CHOOSE v \in S : \A o \in S : v >= o

\* TypedUpdateMinMax within one chunk: NaN is never less nor greater, so a NaN
\* in the first non-NULL row stays and a later one is passed over.
ChunkMinMax(rows) ==
    LET first == CHOOSE i \in DOMAIN rows :
                    rows[i] # NULL /\ \A j \in DOMAIN rows : j < i => rows[j] = NULL
        plain == NonNull(rows) \ {NaN}
    IN  IF NonNull(rows) = {} THEN NoMinMax
        ELSE IF rows[first] = NaN THEN MinMax(NaN, NaN)
        ELSE MinMax(Least(plain), Greatest(plain))

\* The merge of two bounds compares duckdb::Values.
Widen(mm, other) ==
    IF ~other.has_value THEN mm
    ELSE IF ~mm.has_value THEN other
    ELSE MinMax(IF other.min < mm.min THEN other.min ELSE mm.min,
                IF other.max > mm.max THEN other.max ELSE mm.max)

Overflown     == [values |-> {}, over_threshold |-> TRUE]
Distinct(S)   == [values |-> S, over_threshold |-> FALSE]

\* Mutant of AddDistinct: a set as large as the threshold is dropped.
AddDistinctBelow(cd, S) ==
    IF cd.over_threshold \/ Cardinality(cd.values \cup S) >= DistinctThreshold
    THEN Overflown
    ELSE Distinct(cd.values \cup S)

\* Values are inserted one by one until the set is larger than the threshold.
AddDistinct(cd, S) ==
    IF cd.over_threshold \/ Cardinality(cd.values \cup S) > DistinctThreshold
    THEN Overflown
    ELSE Distinct(cd.values \cup S)

EmptyLocal == [data |-> {}, min_max |-> NoMinMax, distinct |-> Distinct({})]

-----------------------------------------------------------------------------
\* Bloom filters.

PowersOfTwo(n) == LET power[e \in 0 .. n] == IF e = 0 THEN 1 ELSE 2 * power[e - 1] IN power

NextPowerOfTwo(n) ==
    LET power == PowersOfTwo(n)
    IN  power[CHOOSE e \in 0 .. n : power[e] >= n /\ (e = 0 \/ power[e - 1] < n)]

AllocatedBits(rows) ==
    NextPowerOfTwo(IF rows * BitsPerRow > MinBits THEN rows * BitsPerRow ELSE MinBits)

\* Mutant of NewBloomFilter: the estimate passes through an int32_t.
NewSignedBloomFilter(estimate) ==
    LET cut == estimate % UintRange
    IN  [inserted |-> {}, finalized |-> FALSE,
         sized_for_rows |-> IF 2 * cut < UintRange THEN cut ELSE cut - UintRange]

\* PTBloomFilter::Initialize takes the estimate as a uint32_t.
NewBloomFilter(estimate) ==
    [inserted |-> {}, sized_for_rows |-> estimate % UintRange, finalized |-> FALSE]

\* Mutants of Resize: the rows are inserted again into a filter of the old size;
\* the filter is cleared and the rows are not inserted again.
RehashInPlace(bf, data) == [bf EXCEPT !.inserted = data]

Reinitialize(bf, data) ==
    IF RowCount(data) * MinBitsPerRow > AllocatedBits(bf.sized_for_rows)
    THEN [bf EXCEPT !.inserted = {}, !.sized_for_rows = RowCount(data)]
    ELSE bf

\* ReinitializeAndRehash when there are fewer than MinBitsPerRow bits per row.
Resize(bf, data) ==
    IF RowCount(data) * MinBitsPerRow > AllocatedBits(bf.sized_for_rows)
    THEN [bf EXCEPT !.inserted = data, !.sized_for_rows = RowCount(data)]
    ELSE bf

-----------------------------------------------------------------------------
\* PushDynamicFilters: the table filters pushed for the probe column.

IsDenseRange(S) == Greatest(S) - Least(S) + 1 = Cardinality(S)

EqualPushed ==
    /\ op.filter_type = "all"
    /\ ~column_distinct.over_threshold
    /\ Cardinality(column_distinct.values) = 1

InPushed ==
    /\ op.filter_type = "all"
    /\ ~column_distinct.over_threshold
    /\ Cardinality(column_distinct.values) > 1
    /\ ~IsDenseRange(column_distinct.values)

DynamicFilters(data, bf) ==
    IF ~op.is_forward_pass \/ ~op.has_targets THEN {}
    ELSE IF data = {} THEN {[kind |-> "NEVER"]}
    ELSE UNION {
        IF EqualPushed \/ InPushed
        THEN {[kind |-> "IN", values |-> column_distinct.values]} ELSE {},
        IF op.filter_type \in {"all", "bf_only"} /\ ~EqualPushed /\ bf.inserted # {}
        THEN {[kind |-> "BF", values |-> KeysOf(bf.inserted)]} ELSE {},
        IF op.filter_type \in {"all", "minmax_only"} /\ ~EqualPushed /\ column_min_max.has_value
        THEN {[kind |-> "RANGE", values |-> {v \in Values : /\ v >= column_min_max.min
                                                           /\ v <= column_min_max.max}]}
        ELSE {}}

-----------------------------------------------------------------------------
\* A thread fetches a chunk, takes it in, and combines when there is no more.

Idle          == [state |-> "idle"]
Holding(c)    == [state |-> "holding", chunk |-> c]
Stopped       == [state |-> "stopped"]
Combined      == [state |-> "combined"]
ThreadStates  == {Idle, Stopped, Combined} \cup {Holding(c) : c \in Chunks}

Init ==
    /\ input \in Inputs
    /\ op \in Operators
    /\ waiting = DOMAIN input
    /\ thread = [t \in Threads |-> Idle]
    /\ local = [t \in Threads |-> EmptyLocal]
    /\ local_data_collections = {}
    /\ column_min_max = NoMinMax
    /\ column_distinct = Distinct({})
    /\ total_data = {}
    /\ bloom_filter = NewBloomFilter(op.estimated_cardinality)
    /\ probe_empty_flag = FALSE
    /\ probe_empty = FALSE
    /\ pushed = {}
    /\ finalized = FALSE

\* Sink up to the load of the flag.  The load is relaxed: it may miss a store.
SinkStart(t, c) ==
    /\ thread[t] = Idle
    /\ c \in waiting
    /\ waiting' = waiting \ {c}
    /\ thread' = [thread EXCEPT ![t] = Holding(c)]
    /\ UNCHANGED <<input, op, local, local_data_collections, column_min_max, column_distinct,
                   total_data, bloom_filter, probe_empty_flag, probe_empty, pushed, finalized>>

\* Mutant of FlagSeen: every forward operator gives up at once.
ForwardOperator == op.is_forward_pass

\* Only a forward operator has the flag.
FlagSeen == op.is_forward_pass /\ probe_empty_flag

\* A thread that sees the flag gives up its chunk and fetches no other.
SinkFinished(t, c) ==
    /\ thread[t] = Idle
    /\ c \in waiting
    /\ FlagSeen
    /\ waiting' = waiting \ {c}
    /\ thread' = [thread EXCEPT ![t] = Stopped]
    /\ UNCHANGED <<input, op, local, local_data_collections, column_min_max, column_distinct,
                   total_data, bloom_filter, probe_empty_flag, probe_empty, pushed, finalized>>

\* The rest of Sink: the flag is not looked at again.
SinkIngest(t, c) ==
    /\ thread[t] = Holding(c)
    /\ thread' = [thread EXCEPT ![t] = Idle]
    /\ local' = [local EXCEPT ![t] =
            [data     |-> @.data \cup {c},
             min_max  |-> IF op.is_forward_pass
                          THEN Widen(@.min_max, ChunkMinMax(input[c])) ELSE @.min_max,
             distinct |-> IF op.is_forward_pass
                          THEN AddDistinct(@.distinct, NonNull(input[c])) ELSE @.distinct]]
    /\ bloom_filter' = [bloom_filter EXCEPT !.inserted = @ \cup {c}]
    /\ UNCHANGED <<input, op, waiting, local_data_collections, column_min_max, column_distinct,
                   total_data, probe_empty_flag, probe_empty, pushed, finalized>>

Combine(t) ==
    /\ thread[t] = Stopped \/ (thread[t] = Idle /\ waiting = {})
    /\ thread' = [thread EXCEPT ![t] = Combined]
    /\ local_data_collections' = local_data_collections \cup local[t].data
    /\ column_min_max' = Widen(column_min_max, local[t].min_max)
    /\ column_distinct' =
            IF local[t].distinct.over_threshold THEN Overflown
            ELSE AddDistinct(column_distinct, local[t].distinct.values)
    /\ local' = [local EXCEPT ![t].data = {}]
    /\ UNCHANGED <<input, op, waiting, total_data, bloom_filter, probe_empty_flag,
                   probe_empty, pushed, finalized>>

\* Another operator on the same probe table finds it to be empty.
RaiseFlag ==
    /\ ~probe_empty
    /\ probe_empty' = TRUE
    /\ probe_empty_flag' = TRUE
    /\ UNCHANGED <<input, op, waiting, thread, local, local_data_collections, column_min_max,
                   column_distinct, total_data, bloom_filter, pushed, finalized>>

\* Mutant of RaisesFlag: the collections are looked at after they were moved.
MovedFromEmpty(data) == op.is_forward_pass /\ local_data_collections' = {}

RaisesFlag(data) == op.is_forward_pass /\ data = {}

Finalize ==
    /\ ~finalized
    /\ \A t \in Threads : thread[t] = Combined
    /\ finalized' = TRUE
    /\ total_data' = local_data_collections
    /\ local_data_collections' = {}
    /\ bloom_filter' = [Resize(bloom_filter, total_data') EXCEPT !.finalized = TRUE]
    /\ probe_empty_flag' = (probe_empty_flag \/ RaisesFlag(total_data'))
    /\ pushed' = DynamicFilters(total_data', bloom_filter')
    /\ UNCHANGED <<input, op, waiting, thread, local, column_min_max, column_distinct,
                   probe_empty>>

Next ==
    \/ \E t \in Threads, c \in Chunks : SinkStart(t, c) \/ SinkFinished(t, c) \/ SinkIngest(t, c)
    \/ \E t \in Threads : Combine(t)
    \/ RaiseFlag
    \/ Finalize

Spec == Init /\ [][Next]_vars

-----------------------------------------------------------------------------

MinMaxes  == [has_value : BOOLEAN, min : Nat, max : Nat]
Distincts == [values : SUBSET Values, over_threshold : BOOLEAN]
Locals    == [data : SUBSET Chunks, min_max : MinMaxes, distinct : Distincts]

TypeOK ==
    /\ input \in Inputs
    /\ op \in Operators
    /\ waiting \subseteq Chunks
    /\ thread \in [Threads -> ThreadStates]
    /\ local \in [Threads -> Locals]
    /\ local_data_collections \subseteq Chunks
    /\ column_min_max \in MinMaxes
    /\ column_distinct \in Distincts
    /\ total_data \subseteq Chunks
    /\ bloom_filter \in [inserted : SUBSET Chunks, sized_for_rows : Nat, finalized : BOOLEAN]
    /\ {probe_empty_flag, probe_empty, finalized} \subseteq BOOLEAN
    /\ \A f \in pushed : f.kind \in {"NEVER", "IN", "BF", "RANGE"}

\* The chunks taken in so far, wherever they are.
Stored == total_data \cup local_data_collections \cup UNION {local[t].data : t \in Threads}

\* The keys every filter lets through: the bloom filter itself once a
\* PROBE_FILTER may look at it, and the filters at the scan.
AdmittedKeys ==
    {v \in Values : /\ bloom_filter.finalized => v \in KeysOf(bloom_filter.inserted)
                    /\ \A f \in pushed : f.kind # "NEVER" /\ v \in f.values}

\* Rows are left out only when the probe side is known to be empty, never
\* because a chunk was between two threads, two collections, or a load of the
\* flag and its store (physical_create_filter.cpp:235, :303, :479).
NoRowLost == finalized => total_data = DOMAIN input \/ probe_empty

\* The flag that stops the siblings is raised for a reason: either another
\* operator found the probe side empty, or this one has an empty input; an
\* input cut short by the flag is never taken for an empty one.
FlagJustified == probe_empty_flag => probe_empty \/ DOMAIN input = {}

\* Whichever threads the rows went to, and in whatever order they were
\* combined, the statistics are those of the whole data: bounds are tight and
\* the distinct values are dropped exactly when there are too many.
StatisticsExact ==
    finalized /\ op.is_forward_pass =>
        LET keys == KeysOf(total_data)
        IN  /\ column_distinct = IF Cardinality(keys) <= DistinctThreshold
                                 THEN Distinct(keys) ELSE Overflown
            /\ column_min_max = IF keys = {} THEN NoMinMax
                                ELSE MinMax(Least(keys), Greatest(keys))

\* A finalized bloom filter has MinBitsPerRow bits for every row it holds,
\* whatever the estimate was and however the uint32_t cut it.
EnoughBits ==
    finalized => RowCount(bloom_filter.inserted) * MinBitsPerRow
                    <= AllocatedBits(bloom_filter.sized_for_rows)

\* No filter drops a probe row that matches a stored row ("Queries return
\* identical results", README.md:16).
FiltersAdmitStored == finalized => KeysOf(total_data) \subseteq AdmittedKeys

\* The sink implements the promise of a CREATE_FILTER.
Promise == INSTANCE FilterPromise WITH
    Keys <- Values,
    input <- [c \in DOMAIN input |-> NonNull(input[c])],
    stored <- Stored,
    doomed <- probe_empty,
    ready <- finalized,
    admits <- AdmittedKeys

KeepsPromise == Promise!Spec

=============================================================================
